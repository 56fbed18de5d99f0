# PME System: a verification project

PME System is the backend (NestJS, Prisma, PostgreSQL) of a role-played police
corps: members hold ranks on one of two ladders, officers promote, demote, fire,
warn and reward them, and departaments teach courses that promotions ask for.
This directory holds TLA+ models of its core, the TLC configurations that check
them, and TLAPS proofs about them. Paths below are relative to the repository,
which is mounted under `src/`; `actions.service.ts` is
`src/src/actions/actions.service.ts`.

## The system

Every handler is an `async` method on a single Node process over one database.
It runs without interruption between two `await`s, and anything may happen at
an `await`: another handler runs, the clock moves, a query fails, the process is
killed. No handler opens a transaction around a read and the write that depends
on it, and none takes a lock. That is what makes this code hard: everything a
handler decides, it decides on rows that may have changed by the time it writes.

| Component | State | Operations | What must hold |
|---|---|---|---|
| Hierarchy (`prisma/seed.ts`, the `Roles` and `PermissionsRequired` tables) | roles by ladder and position, ranges, required permissions | the checks of every handler of `ActionsService` | nobody acts on an equal; every rank can be reached |
| `ActionsService`, one member | `User` (role, warnings, active), `PermissionsObtained`, `userDepartamentRole`, `ActivityLog` | `promoteUser`, `demoteUser`, `fireUser`, `warnUser` | careers move one rung at a time; three warnings make one punishment; the history explains the role; who leaves keeps nothing |
| `ActionsService`, bonuses | `Bonification`, `User.totalBonifications`, the clock | `bonifyUser` | three a day, half an hour apart, balance and rows agree |
| `ActionsService`, in mass | the same tables, `userBeforeAction` | `demoteMultiple`, `fireMultiple`, `warnMultiple` | generals are spared; what single handlers guarantee holds of lists; a snapshot of each role before |
| `ActionsService`, listings | none | `getActions`, `getBonifications`, `getMostBonifiedInWeek` | |
| `AuthGuard`, `AuthService` | `User`, `Session`, `Roles`, `PermissionsRequired` | admission of a request, `signIn`, `createAuthSession`, `givePermission`, `createRole`, `createPermission` | an inactive account does nothing |
| `UsersService` | `User`, `Session`, `ActivityLog` | `activateUser`, `changeUserPassword`, `changeUserNick`, `contractUser` | no account opens for a Recruta; a change of nick loses no history and deletes only Recrutas |
| `DepartamentsService` | `userDepartamentRole`, `Course`, `Classes`, `PermissionsObtained`, `User`, `ActivityLog` | `setUserRole`, `deleteUserRole`, `postClass`, listings of courses and roles | one role per departament; every course held was passed since courses were last taken; the menus offer what may be taught |
| `CosmeticService` | `Cape`, `capesAtribbuted`, `User.capeSelected`, an S3 bucket | `createCape`, `atributeCape`, `changeUserCape` | every cape has the picture it was uploaded with |
| `HabboService` | none (external) | `findHabboUser` | |

Components interact only through the tables, and through the row of the caller
that `AuthGuard` reads and attaches to the request before the handler begins.
There are no messages, timers or background jobs.

`PROJECT.json` lists the hazards line by line. The ones at the core are: values
written back from a stale read (`advNum`, the new role), decisions taken twice
by two requests in flight (third warning, daily limit), writes of one
`Promise.all` of which some fail, a throw between two writes, and ranges indexed
by position. Around the core, handlers find a row under one nick and write it
under another, delete a row they read two queries earlier, and open an account
long after they checked who it belongs to.

## Modules

`Authority` is extended by `Discipline` and `Bonification`; `Discipline` by
`MassActions`, which composes the lists with the single handlers on the same
tables. Beside them stands the back office: `DepartamentRules` extends
`Authority` with the rules of the departaments, `Members` adds the tables and the
life of a request, `Departaments`, `Accounts` and `Capes` extend `Members` with
the handlers of one service each, `Careers` extends `Accounts` with promotions and
demotions, and `Backoffice` composes them all. An `MC`
module extends the module it instantiates and `Seed`, and gives the constants of
the configurations; a `Proofs` module extends the module it is about.

| Module | What it is |
|---|---|
| `Authority` | constants for the two tables of rules, and the conditions under which each handler goes ahead, as pure operators on the rows it has read |
| `Seed` | the rows `prisma/seed.ts` writes, from the same arrays and formulas |
| `MCAuthority` | a walk through every promotion and punishment the rules accept over the seed tables |
| `CareerLadder` | abstract specification: a career changes by whole steps |
| `Discipline` | the four single-member handlers, one action per await |
| `DisciplineProofs` | type correctness and `StaysOnTrack`, proved |
| `HistoryProofs` | `EveryWarningIsLogged`, and what the history, the permissions and the departament roles say of a member whatever races, proved |
| `LadderProofs` | the refinement of `CareerLadder`, and the properties of the counters and the history when members are left alone, proved |
| `MCDiscipline` | databases, members, calls and settings for TLC |
| `MassActions` | the three handlers for lists, beside the handlers of `Discipline` |
| `MassActionsProofs` | type correctness and `StaysOnTrack` with lists, proved |
| `ListProofs` | the other properties of `MassActions`, proved; it extends `LadderProofs` as well |
| `MCMassActions` | a squad, lists and databases for TLC |
| `Bonification` | `bonifyUser`, one action per await, with a clock |
| `BonificationProofs` | type correctness, the balances and the limits, under races and without them, proved |
| `MCBonification` | members and calls for TLC |
| `DepartamentRules` | powers of departament roles, who may teach which course and be approved in it, the menus of courses |
| `Members` | the tables of the back office, the queries on them, and the life of a request |
| `Departaments` | `setUserRole`, `deleteUserRole`, `postClass` |
| `Accounts` | `contractUser`, `changeUserNick`, `createAuthSession`, `activateUser`, `changeUserPassword`, and `fireUser` on members with ids |
| `Careers` | `promoteUser` and `demoteUser` on members with ids, and what they leave of the permissions |
| `Capes` | `createCape`, `atributeCape`, `changeUserCape` |
| `Membership` | abstract specification: how one passes through the corps |
| `Backoffice` | the composition of `Departaments`, `Accounts`, `Careers` and `Capes`, and its properties |
| `BackofficeProofs` | the shape of the tables, the refinement of `Membership`, and the properties of `Backoffice` but those about the history, proved |
| `BackofficeHistoryProofs` | the shape of the history, `HistoryOutlivesRename`, `BegunIsFinished` and `CoursesAreEarned`, proved |
| `MCBackoffice` | the staff, calls and scenarios for TLC |

### Authority and Seed

`Roles` is a function from role name to row, `Required` a set of rows.
`Rungs`/`RoleAt` is `roles.findUnique({ roleIdentifier })`, which may answer
nothing (`NoRole`). `MayPromote` and `MayPunish` are the checks on the two rows;
`PromotionPermitted` and `PunishmentPermitted` the checks on permissions and on
the existence of the next role, in the order of the code, which refuses in each
case. Three things are as in the code and not as one might expect:
`fireUntilRolePosition` is never read (`fireUser` uses `demoteUntilRolePosition`);
only the *name* of a permission is compared, not its type; `hasCfo` is set by
assigning `hasCapex`, so the two exemptions for a Soldado are one.

### Discipline

The variables are the tables (`user`, `perms`, `depts`, `log`), the clock `now`
and `req`, the request each of `Procs` handles. A handler runs as

`Submit` (AuthGuard) -> `ReadRow` x 2 -> `Admit` or `Refuse` -> `ReadPerms` ->
`Issue` or `Refuse` -> the writes, batch by batch.

A request remembers what it has read (`row`, `held`) and what it still has to
write: `batches` is a sequence of sets of writes, one set per `await`. The
writes of the first set are in flight together and land in any order (that is
`Promise.all`); the next set is sent when the first has landed. `Plan` gives the
batches of each handler; one `Write` action per kind of query applies it to the
tables as they are then, with values computed from the rows as they were read.
So a warning is `<<{"warning"}, {"update"}>>`, a third one
`<<{"warning"}, {register, update, retireWarnings}>>` with the deletion of the
permissions in between for a Soldado, and for the lowest executive rank it stops
after the log row, where reading the name of a missing role throws.

`FailRead` and `LoseWrite` are the failures of a query: `await Promise.all`
rejects, the other writes of the set are already on their way and land, later
sets are never sent. A server that is killed is a server whose queries all fail.
`GivePermission` is the administrator's endpoint that runs beside the handlers.

`HabboService` is left out: it maps a nick to its canonical spelling, and calls
start from canonical nicks, nobody's included. The lookup of `PermissionsRequired`
and `Roles` during a request is not a step of its own, since no handler modelled
here changes these tables.

### CareerLadder and the refinement

`CareerLadder` knows of each member only role, warnings counted and whether the
account is active, and has one step per operation: `Promote`, `Demote`, `Expel`,
`Warn`, `PunishThirdWarning`. `Discipline!ImplementsLadder` is its `Spec` with
`career` read off the `User` table. It holds when clients leave a member alone
while a request on that member is in flight (`setting.exclusive`), failures
included; without that assumption the races below break it.

### MassActions

A list is handled by a `desk`. Both walks of the code are there, one member per
step: `CheckNick` or `RefuseList` in the first, `PrepareNick` in the second,
which reads the row again and keeps it with the date of that moment
(`readings`). The promises a walk collects are Prisma promises: they are sent
only when `Promise.all` awaits them, so `todo`, the pairs of a place in the list
and a write, only grows until the last member is prepared, and is then settled in
any order. A list whose second walk throws (no role below the lowest
executive) has written nothing, with one exception that the model keeps: the row
of a third warning is awaited inside the walk (`LogThird`) and stays. The date of
its update is taken after that row is in (`Redated`).
`MassFail` is a failing query, with the same consequences as in `Discipline`.

Four things are as in the code and not as one might expect. The check for a role
in the RH departament is made on an array, which counts as true when it is
empty, so every active account may submit a list. A dismissal by list leaves
`isAccountActive` alone. A row of `userBeforeAction` does not name the member it
was taken of, so `snapshots` is a sequence of roles. A nick may be twice in a
list, and each place is handled on its own. Left out: nicks of one character,
which both walks skip; the second deletion of the courses of who is demoted to
position 5, which repeats the first; `totalBonifications`.

### Bonification

`total` is `User.totalBonifications`; `bonifications` the table. `ReadTarget`
fixes `today`, `CountRows` checks both limits on the rows found and sends two
writes, `CreditMember` and `RecordBonification`, which land in any order. The
clock ticks at any moment. `DayLen`, `Dawn` and `Cooldown` stand for the day, the
three hours added to midnight and the thirty minutes; only their order matters
to the limits.

### DepartamentRules

`Powers` is the loop over the rows of `userDepartamentRole` that ends on one of
them, whichever the database returns last; `0` stands for none.
`TeachingPower` and `EspIsBare` are `getEspRealRole`: for a role of power 3 or more
it returns the row *around* the role, so the power and the departament read off it
are `undefined`. Comparisons with them are false, which lets a coordinator of ESP
teach, and queries by them have no condition, which makes the menu of such a
coordinator offer every course of the corps (`OfferedBy`). `RankFor` is the
`switch` of `postClass` on the rank each course is for. The two heads of the corps
have a power of their own (`HeadPower`) and need no departament role. `MCAuthority` looks at the
menus and at the rules of promotions together, over the rows of the seed.

### Members, Departaments, Accounts, Careers, Capes and Backoffice

Here members have ids, since nicks change: `member` is the `User` table as a
function from id to row, `created` the ids given out, and every other table
refers to members by id, as the schema does. What a client types is a member of
`Typed`; `Canon` is `findHabboUser`, and `Find` compares letter by letter as the
database does, so a handler that forgets to ask Habbo finds nobody. A request is a
record with the query it waits for (`stage`) and what it has read; what a handler
does from one `await` to the next is one action. `fireUser` is there again, and in
`Careers` `promoteUser` and `demoteUser`, with their reads in one step: `Discipline`
has them one by one, and here they are needed as what dismisses or ranks a member
anew, and takes courses, while something else about that member is in flight. The
days in a role are not kept here, so a promotion may also be refused.

Not among the actions of `Backoffice`, although they write the same tables, are
warnings, the three handlers for lists and `givePermission`; what they do is in
`Discipline` and `MassActions`. The properties of `Backoffice` are about histories
without them, and three of them are not true with them. `RecrutaHoldsNothing` is
about `fireUser`: a Soldado dismissed at the third warning keeps the departament
roles. So is `ImplementsMembership`: a member dismissed by list keeps an open
account. And `CoursesAreEarned` is about `fireUser`, `promoteUser` and `demoteUser`: the
third warning of `warnUser` logs a demotion and takes no courses, where that of
`warnMultiple` does. A permission an administrator gives is one of those a member
may start with (`StartedEarned` asks where the courses came from).

The constraints of the schema are in the writes: a nick that is taken or a row
that is gone makes the query fail, `createMany` writes every row or none
(`PermissionsFit`), the deletion of a member takes the rows that refer to it along
except for bonuses, which make it fail (`DeleteMember`). `FailQuery` is any query
failing on its own account; `LoseWrite` one write of a `Promise.all`. The session
and motto checks are one step that may pass once some session has not expired and
may always refuse (`ReadSession`): which session a client names, and what Habbo
shows, is not up to the server.

Seven things are as in the code and not as one might expect. `setUserRole` compares
the officer's power with the role that is given and not with the one it replaces;
with two of them in flight a member ends with two roles of one departament, and a
failure between the two queries leaves none. `postClass` checks a member under
the nick as typed and promotes the member under Habbo's spelling
(`backoffice_spelling`), and a class that names a member twice promotes but gives
no course. ESbt, CApEx and CDO give a permission of type `OTHER` besides the course;
promotions and demotions delete the courses and leave it, and `postClass` asks for
the course only, so the next such class of that member is logged and recorded while
its `createMany` fails on the row that is there, for everybody in the class
(`KeptFromEarlier`). A change of nick to itself finds its own row in the way: for a Recruta
it deletes the member. Two changes in flight that exchange the nicks of two
Recrutas delete both. `atributeCape` gives a cape, but `changeUserCape` never asks
whether one has it. `contractUser` takes any role there is, `Recruta` too, and leaves the
account, the roles and the courses as they were: whoever is contracted as a
Recruta may be an active one who still teaches.

### Membership and the refinement

`Membership` knows of each member only a phase: `recruta`, `enlisted`, `active`.
One joins enlisted, opens an account while enlisted, is dismissed from anywhere,
and returns or disappears only from `recruta`. `Backoffice!ImplementsMembership`
is this specification with `phase` read off the `User` table. A Recruta with an
open account is in no phase, so that no step may produce one: it is what a
dismissal between the check and the write of `activateUser` produces when clients
do not take turns, and what a contract as a Recruta does even when they do. So
the refinement, like `RecrutaHoldsNothing`, holds as long as no call of the
scenario is such a contract (`ContractsEnlist`), a condition the proof of the
refinement brought to light; a scenario of `backoffice_races` has one.

### Settings

A behaviour runs in a `setting`, chosen in `Init` from the constant `Settings`
and fixed from then on; it is no claim about the code. `exclusive = FALSE` is the
server as it is. `exclusive = TRUE` is an assumption on the clients that nothing
in the code enforces: they leave a member alone while a request on that member
is in flight (in `MassActions`: submit a list when nothing is in flight, and
nothing while a list is). It separates what the handlers get right from what only
interleaving breaks. It also asks more than waiting for an answer: `Promise.all`
answers the client as soon as one write fails, with the others still on their way,
and an exclusive client waits for those too. So where `exclusive` meets failing
queries (`ImplementsLadder`, `AtMostThreePerDay`, `HalfHourApart`,
`OneRolePerDepartament`, `HistoryOutlivesRename` and `ImplementsMembership`), who
sends the next request on a member right after an error is outside the property.
A property under `exclusive` says nothing of the race it excludes. Each property that needs it says so in its own formula, and
where the disagreement matters a run shows the race. `faults` says whether
queries may fail; properties about the agreement of two tables hold without
failures only, since no handler repairs what a failed write leaves behind.

In the back office a behaviour runs in a `scenario`, which holds the starting
tables and the calls as well. `exclusive` there means that clients leave alone
whom a call in flight names, up to its last write. `Orderly` adds that no query fails and that none of
the inputs is used that make a handler trip over its own writes: a nick renamed to
itself, a class that names a member twice or in another spelling, a Recruta in
the way who has bonuses. Scenarios with those inputs are in the run as well; the
properties that do not ask for `Orderly` hold there too.

## Runs

Passing runs:

| Run | Instance | Checks |
|---|---|---|
| `authority` | all pairs of the 26 roles of the seed, sets of permissions | `PromotedStaysBelowPromoter`, `PunishedIsOutranked`, `EveryRankCanRise`, `OfferedCoursesAreTaught`, `RequiredCoursesAreOpen` |
| `discipline_races` | 2 members, 2 calls in flight together, every handler on one member (a Soldado and an officer at the third warning, a Sargento before it) and a nick nobody has; nothing exclusive, with and without failing queries | `TypeOK`, `EveryWarningIsLogged`, `HistoryNamesEveryRole`, `RecrutaHoldsNoPermission`, `OnlyWarningsLeaveRoles` |
| `discipline_serial` | 3 members, 2 calls, the actor of one the target of another, a permission given meanwhile; exclusive, with and without failing queries | `ImplementsLadder`, `ThreeWarningsPerPunishment`, `WarningLedger`, `LastRoleIsCurrent` |
| `bonification_races` | 2 members, 5 calls, 2 in flight, days of 4 ticks, 2 ticks between bonuses, clock up to 5; the races without failures, and exclusive with failures | `TypeOK`, `QuotaUnderRaces`, `LedgerBalances`, `AtMostThreePerDay`, `HalfHourApart` |
| `mass_races` | 3 members, one military and one executive in the lists; a list of each kind, one with an unknown nick, beside one call of any handler on the military member, who is a Sargento, a Major at the third warning, or the first of the generals; free or exclusive | `MassTypeOK`, `WarningsLoggedAtRest`, `HistoryNamesRolesOfLists`, `GeneralsAreSpared`, `SnapshotsRememberRoles`, `ThreeWarningsInLists` |
| `mass_faults` | a list and a call on an executive of the two lowest ranks at the third warning; queries fail; `MassFairSpec` | `StaysOnTrack`, `RequestsFinish`, `ListsFinish` |
| `backoffice_races` | 3 members and one to come, 4 nicks; roles, classes, ranks, nicks, codes and capes each with the calls that meet on the same rows; 2 in flight, 2 calls in all, 3 in turn, 3 and 4 with codes; one scenario with a contract as a Recruta; free and in turn, with and without failing queries; `FairSpec` | `TypeOK`, `PostsUnderRaces`, `OneRolePerDepartament`, `RecrutaHoldsNothing`, `CoursesAreEarned`, `CapeShowsItsUpload`, `OnlyRecrutasEnlist`, `ImplementsMembership`, `HistoryOutlivesRename`, `BegunIsFinished`, `WritesReachTheRowRead`, `EveryCallIsAnswered` |

The bounds: two requests in flight are the smallest number that races, and a
race of this code needs a read of one between a read and a write of the other,
which two have. Two calls on a member are enough to pass the third warning from
the databases the runs start on, which hold members at it or one warning before
it; five bonuses exceed the limit of a day and reach into the next. One list of
two members beside one call has every pair of a walk and a handler on the same
row, and every order of the writes of two members. `MaxNow` lets days in a role
be too few and enough, and lets a request cross midnight; in the runs of
`MassActions` the clock stands still, since no handler for lists reads it but to
store it. In the back office the calls of a scenario are those that meet on one
table: two in flight for each race, a third where the second only prepares the
state (a code before its use). Ranks change where it matters to permissions: from
Cabo to Sargento, where only the ECb goes, from Tenente down to position 5, where
the CFO goes first, and around Subtenente, where ESbt gives a permission besides
the course; one scenario starts with a member who has kept it. Each assumption in a property of `Backoffice` is
needed: with `exclusive`, `Orderly`, `RenamesApart` or `ContractsEnlist` struck out, the same
scenarios violate it. Every bound is a constant named in the module. Runs say
`CHECK_DEADLOCK FALSE` because a behaviour ends when its calls are used up and
the clock is at its last tick; that nothing is left hanging is `RequestsFinish`
and `ListsFinish`.

Runs that show a disagreement (`expect` is `violation`):

| Run | What TLC finds |
|---|---|
| `discipline_estagiario` | the third warning of an Estagiário is logged, then the handler throws: the counter stays at 2 and each further warning does the same |
| `bonification_dawn` | before three in the morning `today` lies in the future: no row is counted and neither limit holds |
| `mass_twice` | a nick twice in a list of warnings, of a member with two: both places read 2, both punish, with no second request needed |
| `mass_active` | a member dismissed by list is a Recruta with an active account |
| `backoffice_spelling` | a Cabo named in a class of the CFPM in another spelling is made a Soldado, although the handler refuses active members |

More effects of the code follow from the models and have no run of their own; each
is what a property above excludes by an assumption. Two third warnings in flight
both read 2 and both punish; two bonuses in flight after the second of the day
leave four rows where three is the limit; a Soldado dismissed at the third warning
keeps the departament roles (`WarningPlan` has no `deleteRoles`); who becomes a
general between the two walks of a list is punished by it (`GeneralsAreSpared`
asks for `exclusive`); and those of the back office named above.

Fairness. `RequestsFinish`, `ListsFinish` and `EveryCallIsAnswered` assume weak
fairness of `Step(p)` for each process and of `MassStep(d)` for each desk: the
database answers every query, and the event loop runs the continuation an answer
wakes. No fairness is assumed of clients, of the clock or of failures, and queries
fail in the runs.

## Proofs

TLAPS checks every theorem for all values of the constants that satisfy the
named assumptions: any tables of roles and requirements, any number of members,
requests, lists and ticks, in every setting. The assumptions are on the tables of
rules (`RolesAssumption`, `SoldadoAssumption`, `MilitaryAssumption`,
`DepartamentsAssumption`), on the calls and the number of processes
(`DisciplineAssumption`, `MassAssumption`, `BonificationAssumption`,
`MembersAssumption`, `CallsAssumption`, `ProcsAssumption`) and on the database a
behaviour starts from (`HistoryAssumption`, `StartAssumption`,
`OnePostAssumption`); TLC evaluates them in the runs. `SoldadoAssumption` (only a
Soldado stands right above the Recruta) and `MilitaryAssumption` (no gap below a
military rank) hold of the seed and say why a third warning of a military member
never throws, and of whom it makes a Recruta.

A theorem that says that something *stays* so has it as a hypothesis on the first
state, written in the theorem: `PunishmentsAreEarned`, `Ledger`,
`HistoryIsCurrent`, `NobodyLeft`. The databases of the runs satisfy each.
`NamesEachOnce` is a hypothesis on the lists, and a necessary one: `mass_twice` is
the counterexample without it. `DismissedAreClosed`, `DismissedAreBare`,
and `CoursesForMembers` are hypotheses on the scenarios and on the table of courses;
`MCBackoffice` has TLC evaluate them (`StartsOrderly`). `CoursesAreEarned` has its
hypothesis in the formula, member by member (`StartedEarned`); `BegunIsFinished`
has none, and its theorem holds of every starting table.

The proofs share a frame. A property of the tables is seldom inductive, because a
request in flight writes what it computed from rows nobody keeps fresh; so each
invariant says, beside the property, what such a request *carries*, and for
properties that two writes establish together, what a request *owes* once one of
them has landed.

### Discipline

* `DisciplineProofs!TypeCorrect` and `NeverChangesLadder`
  (`TypeOK`, `StaysOnTrack`). The invariant
  `IInv` adds what a request in flight carries with it, `RequestSound`: the row it
  holds is of the ladder of its target, whoever passed the first check is no
  Recruta when the operation could lift one, and as long as an update is
  outstanding the new role exists and is on that ladder (`UpdateSound`). The
  lemma `RungOnLadder` gives the step: the rungs next to a role are on its
  ladder, and below a Recruta there is none, which is the only place where the
  position 0 of the seed matters. `advNum` never leaves 0..2 because it is
  written from the value read, and that value was not 2.
* `HistoryProofs!CountedWarningsAreLogged` (`EveryWarningIsLogged`): the warnings
  counted against a member never exceed the rows of the history, given a database
  in which they do not (`HistoryAssumption`). Rows are never deleted
  (`HistoryKept`), so their number only grows; the invariant `WInv` adds to `IInv`
  that the `advNum` a request has read is backed by rows, and that a request
  about to write `advNum + 1` has either still to send its own row or has one row
  more behind it (`BackedBy`). That is the order of the two `await`s in
  `warnUser`; with both in one `Promise.all` the step fails at `Issue`. `WInv` is
  stated with warnings that somebody else owes the history, none here, so that the proof
  about lists can use it.
* `HistoryProofs!HistoryExplainsRoles` (`HistoryNamesEveryRole`). `HInv` says that
  the role of each member is in the history or among the rows on their way, and
  of each request with a change of role outstanding that its row is outstanding too or
  written (`RowDue`). The second part is what makes the first inductive: the role
  a request is about to write may not be the one of anybody now. `TInv`, on which
  it rests, keeps the bookkeeping of batches: no write is sent twice, and what the
  first check decided is still true of the row read (`Decided`).
* `HistoryProofs!DismissedKeepNothing` (`RecrutaHoldsNoPermission`). `PInv`: a
  Recruta has no permission left but those administrators give, or a request on
  the member has the deletion outstanding; and a request about to make a Recruta
  has it outstanding or nothing is left to delete (`CleanDue`). That every way
  down to Recruta is covered is where `SoldadoAssumption` is needed: a third
  warning deletes only for a Soldado.
* `HistoryProofs!FiredMembersLeave` (`OnlyWarningsLeaveRoles`). `DInv` tells the
  two ways down apart: an officer who fires has the roles still to delete or has
  done so, while the third warning of a Soldado never will and owes the row that
  says the system did it (`LeaveDue`).
* `LadderProofs!ClimbsTheLadder` (`ImplementsLadder`): the step-by-step refinement
  of `CareerLadder`. `XInv` says that in an exclusive setting two requests in
  flight are about different members and the row a request has read is the row of
  the table until it updates it (`Fresh`), failures included. With that each
  update is one step of the ladder from the career as it is, and every other
  action leaves all careers alone (`StepClimbs`).
* `LadderProofs!PunishmentsStayEarned`, `LedgerIsKept` and `HistoryStaysCurrent`
  (`ThreeWarningsPerPunishment`, `WarningLedger`, `LastRoleIsCurrent`). Each
  relates two or three tables that one request writes one after the other. `YInv`
  adds to `XInv` that what is outstanding is part of the plan of the handler
  (`Planned`). Then, per member: nobody is half way through a change, and the
  tables agree; or one request is, and `EarnedDue`, `LedgerDue` or `NamingDue` say
  by how much they differ, from what it has still to write. At most one is, since
  requests on a member take turns. The military ladder only, in the ledger: an
  executive at the bottom is logged and not punished (`discipline_estagiario`).

### MassActions

* `MassActionsProofs!MassTypeCorrect` and `ListsNeverChangeLadder`: the same two
  of `MassSpec`, with lists of any length in flight. The steps of single
  handlers are the lemma `NextInv` of `DisciplineProofs` again; `DesksInv` adds to `IInv` what a
  desk carries (`DeskSound`): after the first walk every nick is a member's, the
  rows read are of the ladders of the members in those places, and a write is
  prepared only where the role it needs exists.
* `ListProofs!HistoryExplainsLists` (`HistoryNamesRolesOfLists`). `GInv` adds that
  a list has prepared all the writes of the members walked over and no others
  (`ListPlanned`). `NInv` is `HistoryNamed` of `HistoryProofs` with the roles that lists
  in their last stage owe (`OwedRoles`), so that the steps of single handlers need no new
  argument: a list owes only once it has sent everything, hence a list that throws
  owes nothing.
* `ListProofs!ListsSpareGenerals` and `ListsRememberRoles` (`GeneralsAreSpared`,
  `SnapshotsRememberRoles`). `UInv` says what turns give a list (`Unraced`): the
  members the first walk let through are still no generals in the second, and a row read is the
  member's until the list itself writes it. A nick that is twice in the list is
  the hard case, since the list then races with itself; `GeneralsStayAbove` shows that nothing
  it writes makes a general. `VInv` adds that an entry with its move outstanding
  has the snapshot outstanding or in the table.
* `ListProofs!ListsLogWarnings` (`WarningsLoggedAtRest`). A list sends counter and
  row together, so the counter may be ahead of the history. `AInv` is
  `WInv(Due)`: the warnings counted never exceed the rows written and announced,
  where `Announced` are the rows lists have sent and not yet written. At rest
  nothing is announced.
* `ListProofs!ListsPunishFairly` (`ThreeWarningsInLists`). `JInv` pays for each entry
  of a list of warnings (`EntryDue`): below two, the row of the warning may be
  still to come and the counter at most one ahead of what was read; at two, the
  third warning is in the history before any other write is sent, and the
  punishment has its three until the counter is reset.

### Bonification

* `BonificationProofs!TypeCorrect` and `QuotaBounded` (`TypeOK`,
  `QuotaUnderRaces`): a day sees at most `2 + Cardinality(Procs)` bonuses of a
  member. The invariant says that rows written plus rows on their way stay within
  the bound while the day runs (`DayWithin`), which needs that a request that
  counts rows looks back at least to the dawn of the running day, even if the day
  changed since it fixed `today` (`LooksBack`), and that no row is dated in the
  future. `CountedWithin` is the heart: whoever passes the limit has seen every
  row of the day, so there are at most two.
* `BonusesAddUp` (`LedgerBalances`): `BInv` is the equation with what is on its
  way on both sides, credits on the one and rows on the other.
* `ThreePerDayAlone` and `BonusesHalfHourApart` (`AtMostThreePerDay`,
  `HalfHourApart`): in exclusive settings `DayAlone` is `DayWithin` with the
  bound three, since only one row of a member is ever on its way; and `CooledFor`
  says that a bonus on its way is half an hour after every row of the running day, which
  stays so while it waits because time only passes. A request that fixed `today`
  before midnight and counts after it is again what `LooksBack` is for.

### Backoffice

`TablesAndHistoryTyped` and the last three theorems are in `BackofficeHistoryProofs`,
the others in `BackofficeProofs`.

* `TablesTypeCorrect` and `TablesAndHistoryTyped` (`TypeOK`): the tables and the
  requests keep their shape, first without the history (`TablesTyped`). The invariant
  `IInv` adds `RequestSound`: what a request has read by
  the time it waits for a query, so that a nick it is about to write is one Habbo
  knows, and a role it is about to give exists. The history comes later since its rows
  must be about members (`HistoryInv`), and a deletion takes rows out of its middle:
  `Without` numbers the rows that are left by how many of them come before, and `RankOnto`
  shows, by counting, that every number is some row's.
* `CapesShowTheirUploads` (`CapeShowsItsUpload`). `createCape`
  looks for the file, uploads and creates the row in three queries, and rows are
  never deleted, so `CapeInv` follows a request through them: a file is in the
  bucket before its row is created (`PutBeforeCreate`); and, when clients take
  turns, two uploads in flight are of different files (`FilesApart`), no row
  takes the file of an upload in flight (`FilesFree`), and what lies in the
  bucket is still the picture of the request that put it there (`PicturesOwn`).
  Only the last three need turns: that a cape has a picture at all does not.
* `PostsBoundedByRequests` (`PostsUnderRaces`). The bound alone is
  not inductive, since a request that has cleared a departament will create a row
  whatever is there by then. `PostsInv` counts the rows of a member in a
  departament together with the requests about to create one: clearing empties the rows, so
  that only requests count, and creating turns a request into a row at most. Every other step
  leaves both as they are or makes them fewer. `OnePostAssumption` is where it
  starts.
* `UpdatesReachTheRowRead` (`WritesReachTheRowRead`). Nicks stay unique
  (`NicksUnique`), though members are renamed, created and deleted. `CalmInv` says
  that calls in flight name different members (`TurnsApart`), and therefore what each has
  found under a nick is still found there (`StillRead`; `StillThere` of the Recruta in the
  way of a change of nick). The lemmas `AccountRows`, `OtherRows` and `QuietRows`
  say how a step changes the members: under the nicks its call names. The proofs below use `CalmInv` all
  the time.
* `OneRoleEach` (`OneRolePerDepartament`): `OneInv` adds to the property that a
  request about to create a role finds no rival of it, which clearing establishes and
  `TurnsApart` keeps.
* `BackofficeImplementsMembership` (`ImplementsMembership`): the step-by-step
  refinement. `ChecksHold` says that what a handler has checked of a member queries ago is still
  true when it writes: the code is used for one who is no Recruta, who is in the way
  of a change of nick is a Recruta, and so on (`Checked`). Every step then is
  one of `Membership` or leaves all phases alone, and everybody is in a phase
  (`InPhase`), as long as nobody is contracted as a Recruta.
* `ClassesEnlistRecrutas` (`OnlyRecrutasEnlist`). The walk of `postClass` that checks
  is over before the one that writes begins, so the invariant (`Waiting`) keeps
  of every place not yet reached that nobody is there or a Recruta is; places already
  written are no longer so, which is why a class that names a member twice is
  excluded.
* `RecrutasHoldNothing` (`RecrutaHoldsNothing`). `Bare`: each row of a Recruta waits
  for the deletion that a `fireUser` on that member has still to send, and behind
  a deletion there are no rows. What adds rows must add them to members who
  serve: `Checked` again for `setUserRole`, and for `postClass` that whoever a walk
  has passed or made a Soldado is no Recruta until the courses are given
  (`Risen`).
* `RenamesKeepTheHistory` (`HistoryOutlivesRename`). `HistoryGrows`: a step adds
  rows or writes them anew, about members its call names, and only a deletion could
  take any along. From the move of the history on nothing is about who is to be deleted
  (`NoneLeft`), because old and new nick differ and nobody else adds a row about a member
  named by this call. `Sure` is what it needs of the other handlers: whom they log is under
  the nick of their call until the row is written.
* `BegunReachesTheEnd` (`BegunIsFinished`). What a handler has looked up is still
  so when it writes (`AllPoised`): a nick that nobody had is free (`Ready`), and nobody a
  class approves has its course (`Untaught`), so that no row of a course it creates is
  there already. The row of type `OTHER` may be, and that case is the exception
  the property names. `HeldInv` says that the rows of `held` are of members.
* `CoursesStayEarned` (`CoursesAreEarned`). Two tables that two writes of one
  `Promise.all` change differ while one of them is outstanding, for a class
  (`Owes`) as for a dismissal or a change of rank (`Revokes`). `CourseInv` compares
  what *will* be held with what will be shown once every write in flight has landed
  (`WillHold`, `WillShow`, `Even`): what will be held is never more, unless it was
  from the start. A write that is due changes neither side, the lookup that makes
  writes due adds to both or takes from both, and a change of nick that is moving a
  history is left out until its row of the log is there (`Moves`). The deletion of
  the CFO, a query of its own before the others of a demotion, only takes
  from what is held. That no class and no change of rank of one member are in flight
  together is `TurnsApart`. The property goes one way only: a promotion to
  Sargento takes the ECb and logs nothing that says so.

### Only model-checked

Liveness (`RequestsFinish`, `ListsFinish`, `EveryCallIsAnswered`) is out of the
prover's reach. The properties of `MCAuthority` are about the one table of the
seed, where the check over all pairs of roles is already complete. Every other
property of a passing run is also a theorem.

## Not modelled, and why

Listings (`getActions`, `getBonifications`, `getMostBonifiedInWeek`, profiles)
read and format. Controllers, DTOs and module wiring hold no state. `HabboService`
is an external lookup. Tokens, cookies and password hashes are left out of the
guard: a request is let in when its account is active. `signIn` only reads and
issues a token. `createRole`, `createPermission` and their like are administration
of the tables of rules, which are constants here. `changeDiscord` writes one
column nobody reads. The vendored AWS SDK is third-party code. `gains` of a bonus
is written and never read back by a handler; so is `bonificationsInRole`, which
`promoteUser` copies into the history from a row read earlier and which a demotion
at the third warning forgets to clear.

## Plan

1. Done: `Authority`, `Seed`, `Discipline`, `CareerLadder`, `Bonification`, and
   the first proofs.
2. Done: `MassActions`, which extends `Discipline` with the handlers for lists,
   the proofs of its type correctness and of `StaysOnTrack`, and the proof of
   `EveryWarningIsLogged`.
3. Done: `DepartamentRules`, `Members`, `Departaments`, `Accounts`, `Capes`, their
   composition `Backoffice`, and `Membership`, which it implements.
4. Done: the proofs about the back office, with the step-by-step refinement of
   `Membership`.
5. Done: the proofs about the core, with and without lists, and the step-by-step
   refinement of `CareerLadder`.
6. Done: the history of the back office within reach of the provers (`Without`),
   with the proofs of `TypeOK`, `HistoryOutlivesRename`, `BegunIsFinished` and
   `CoursesAreEarned`, and changes of rank among its actions (`Careers`).
7. Open: the reads of `fireUser`, `promoteUser` and `demoteUser` one by one in the
   back office too, warnings and lists there, and the administration of the tables of rules as actions in place of constants.
