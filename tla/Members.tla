------------------------------ MODULE Members -------------------------------
(***************************************************************************)
(* The tables of the back office and the life of a request on them.  A     *)
(* member is a row with an id that never changes and a nick that may; the  *)
(* other tables refer to members by id, clients and tokens by nick.        *)
(*                                                                         *)
(* Departaments, Accounts, Careers and Capes extend this module with the   *)
(* handlers.  A request names in `stage' the query it waits for; what the  *)
(* handler does until its next await is one action.                        *)
(***************************************************************************)
EXTENDS DepartamentRules, Sequences, Functions

CONSTANTS
    Nicks,       \* nicks as Habbo spells them
    Typed,       \* what a client may type as a nick, in any spelling
    Canon,       \* findHabboUser: what is typed -> the nick, or NoNick
    CapeNames,   \* names of capes
    Files,       \* names of files in the bucket
    Procs,       \* requests that can be in flight together
    SessionLife, \* ticks in the ten minutes of a session
    Scenarios    \* what behaviours start from and contain, see Scenario

NoNick == ""
NoId   == 0
NoCape == "base.png"

MemberRow == [nick            : Nicks,
              roleName        : RoleNames,
              isAccountActive : BOOLEAN,
              isAdmin         : BOOLEAN,
              capeSelected    : CapeNames \cup {NoCape}]

PostRow    == [user : Nat, role : PostNames]
HeldRow    == [user : Nat, name : CourseNames, type : {"COURSE", "OTHER"}]
WornRow    == [user : Nat, cape : CapeNames]
CapeRow    == [name : CapeNames, file : Files]
HistoryRow == [type   : {"CONTRACTING", "FIRE", "APPROVATION", "CHANGE",
                         "PROMOTION", "DEMOTION"},
               target : Nat,
               about  : RoleNames \cup CourseNames \cup {NoRole}]
ClassRow   == [course : CourseNames, approved : Nat]

Ops == {"setUserRole", "deleteUserRole", "postClass", "fireUser", "promoteUser",
        "demoteUser", "contractUser", "changeUserNick", "createAuthSession",
        "activateUser", "changeUserPassword", "createCape", "atributeCape", "changeUserCape"}

\* A call: the token's nick, the nicks typed, and the role, course, cape or
\* departament it is about.
Subjects == PostNames \cup CourseNames \cup RoleNames \cup CapeNames
                      \cup Departaments \cup {""}
Call == [op : Ops, actor : Nicks \cup {NoNick}, nicks : Seq(Typed),
         about : Subjects, file : Files \cup {""}]

\* Where a behaviour starts and what may happen in it: the tables, the calls
\* clients make, how many, the last tick of the clock, whether clients leave
\* alone whom a call in flight names, and whether queries may fail.
ScenarioFields == {"members", "posts", "held", "history", "bonified",
                   "calls", "maxCalls", "maxNow", "exclusive", "faults"}

ASSUME MembersAssumption ==
    /\ NoNick \notin Nicks /\ Nicks \subseteq Typed
    /\ Canon \in [Typed -> Nicks \cup {NoNick}]
    /\ \A n \in Nicks : Canon[n] = n
    /\ SessionLife \in Nat
    /\ \A s \in Scenarios :
         /\ DOMAIN s = ScenarioFields
         /\ s.members \in Seq(MemberRow)
         /\ \A i, j \in DOMAIN s.members :
               s.members[i].nick = s.members[j].nick => i = j
         /\ s.posts \subseteq PostRow /\ s.held \subseteq HeldRow
         /\ s.history \in Seq(HistoryRow)
         /\ \A r \in s.posts \cup s.held : r.user \in DOMAIN s.members
         /\ \A i \in DOMAIN s.history : s.history[i].target \in DOMAIN s.members
         /\ s.bonified \subseteq DOMAIN s.members
         /\ s.calls \subseteq Call
         /\ s.maxCalls \in Nat /\ s.maxNow \in Nat
         /\ s.exclusive \in BOOLEAN /\ s.faults \in BOOLEAN

\* Nobody starts with two roles of one departament.
ASSUME OnePostAssumption ==
    \A s \in Scenarios : \A r, q \in s.posts :
        r.user = q.user /\ DeptOf(r.role) = DeptOf(q.role) => r = q

\* Calls are about what their handlers take: a role that there is not is refused
\* by a lookup or a foreign key before anything is written.  The cape of a call
\* need not be in the table of capes.
CallFits(call) ==
    /\ call.op = "setUserRole"  => call.about \in PostNames
    /\ call.op = "contractUser" => call.about \in RoleNames
    /\ call.op \in {"createCape", "atributeCape", "changeUserCape"} =>
          call.about \in CapeNames
    /\ call.op = "createCape" => call.file \in Files
    /\ call.op \in Ops \ {"createAuthSession", "createCape", "changeUserCape"} =>
          1 \in DOMAIN call.nicks
    /\ call.op = "changeUserNick" => 2 \in DOMAIN call.nicks

\* "Soldado" is the default of the column.
ASSUME CallsAssumption ==
    /\ "Soldado" \in RoleNames
    /\ \A s \in Scenarios : \A call \in s.calls : CallFits(call)

ASSUME ProcsAssumption == IsFiniteSet(Procs) /\ Procs # {}

VARIABLES
    member,   \* the User table: id -> row
    created,  \* ids given out so far
    posts,    \* the userDepartamentRole table
    held,     \* the PermissionsObtained table
    history,  \* the ActivityLog table, oldest row first
    classes,  \* the Classes table
    sessions, \* the Session table: when each row expires
    capes,    \* the Cape table
    worn,     \* the capesAtribbuted table
    bucket,   \* the S3 bucket: file -> the cape whose picture was put there
    now,      \* the clock
    req,      \* the request each process handles
    issued,   \* calls made so far
    scenario  \* the scenario of this behaviour, which never changes

people   == <<member, created, posts, held, history, classes>>
wardrobe == <<capes, worn, bucket>>
tables   == <<people, sessions, wardrobe>>
vars     == <<tables, now, req, issued, scenario>>

\* The stages of the handlers.  In those of `Settling' a Promise.all waits
\* for the writes in `todo'.
Settling == {"fire.settle", "class.settle", "rank.settle"}
Stages == {"idle", "role.find", "role.clear", "role.create",
           "drop.find", "drop.delete",
           "class.check", "class.enrol", "class.enlist", "class.collect",
           "fire.find", "rank.find", "rank.cfo", "contract.find", "contract.write", "contract.log",
           "nick.prev", "nick.new", "nick.move", "nick.delete", "nick.update",
           "nick.log", "session.create", "code.user", "code.session",
           "code.update", "cape.find", "cape.put", "cape.create",
           "give.find", "give.create", "wear.update"} \cup Settling

Writes == {"permissions", "log", "class", "update", "posts"}

\* What AuthGuard attaches to a request.
Guard == [id       : Nat,
          nick     : Nicks \cup {NoNick},
          roleName : RoleNames,
          isAdmin  : BOOLEAN,
          posts    : SUBSET PostNames,
          held     : SUBSET CourseNames]

Request == [stage  : Stages,
            call   : Call,
            who    : Guard,
            target : Nat,       \* the id read, NoId before that or if none
            other  : Nat,       \* a second id
            at     : Nat,       \* the place in the list of nicks
            ids    : Seq(Nat),  \* the ids read along the list
            todo   : SUBSET Writes]

Nobody == [id |-> NoId, nick |-> NoNick, roleName |-> "Recruta",
           isAdmin |-> FALSE, posts |-> {}, held |-> {}]

NoCall == [op |-> "createAuthSession", actor |-> NoNick, nicks |-> <<>>,
           about |-> "", file |-> ""]

Idle == [stage |-> "idle", call |-> NoCall, who |-> Nobody, target |-> NoId,
         other |-> NoId, at |-> 1, ids |-> <<>>, todo |-> {}]
-----------------------------------------------------------------------------
(***************************************************************************)
(* Queries.                                                                *)
(***************************************************************************)
\* user.findUnique by nick, which compares letter by letter.
WithNick(nick) == {i \in DOMAIN member : member[i].nick = nick}
Find(nick)     == IF WithNick(nick) = {} THEN NoId
                                         ELSE CHOOSE i \in WithNick(nick) : TRUE

\* user.create: a fresh id, and a nick nobody has (checked by the caller).
Joined(row) ==
    [i \in DOMAIN member \cup {created + 1} |->
        IF i = created + 1 THEN row ELSE member[i]]

NewRow(nick, role) ==
    [nick |-> nick, roleName |-> role, isAccountActive |-> FALSE,
     isAdmin |-> FALSE, capeSelected |-> NoCape]

LogRow(type, id, about) == [type |-> type, target |-> id, about |-> about]

RowsOf(table, id) == {r \in table : r.user = id}
-----------------------------------------------------------------------------
(***************************************************************************)
(* The life of a request.                                                  *)
(***************************************************************************)
At(p, stage) == req[p].stage = stage
Goto(p, stage) == req' = [req EXCEPT ![p].stage = stage]

\* The handler returns or throws: the client has its answer.
Answer(p) == req' = [req EXCEPT ![p] = Idle]

\* AuthGuard reads the row of the nick in the token, with its departament
\* roles and permissions.
Guarded(nick) ==
    LET id == Find(nick)
    IN  [id       |-> id,
         nick     |-> nick,
         roleName |-> member[id].roleName,
         isAdmin  |-> member[id].isAdmin,
         posts    |-> {r.role : r \in RowsOf(posts, id)},
         held     |-> {r.name : r \in RowsOf(held, id)}]

\* Whom and what a call names, for scenarios whose clients take turns.  A
\* choice of one's own cape names the one who chooses.
Named(call) ==
    {Canon[call.nicks[i]] : i \in DOMAIN call.nicks}
        \cup (IF call.op = "changeUserCape" THEN {call.actor} ELSE {})
        \cup (IF call.op = "createCape" THEN {call.file} ELSE {})

InTurn(call) ==
    scenario.exclusive =>
        \A q \in Procs : At(q, "idle") \/ Named(req[q].call) \cap Named(call) = {}

\* AuthGuard lets a request in when the token's nick has a row and the
\* account is active.
Admitted(call) ==
    /\ Find(call.actor) # NoId
    /\ member[Find(call.actor)].isAccountActive

\* A free process takes a call and waits for its first query.
Begin(p, call, stage, who) ==
    /\ At(p, "idle") /\ issued < scenario.maxCalls /\ InTurn(call)
    /\ req' = [req EXCEPT ![p] = [Idle EXCEPT !.stage = stage, !.call = call, !.who = who]]
    /\ issued' = issued + 1
    /\ UNCHANGED <<tables, now, scenario>>

CallsOf(op) == {call \in scenario.calls : call.op = op}

\* The query a request waits for fails, and the handler throws; createCape
\* catches what it throws and returns.
FailQuery(p) ==
    /\ scenario.faults
    /\ req[p].stage \notin {"idle"} \cup Settling
    /\ Answer(p)
    /\ UNCHANGED <<tables, now, issued, scenario>>

\* One write of a Promise.all is over.  A failed one would answer the client
\* at once while the others go on; the request stands for them until the last.
Settle(p, w) ==
    IF req[p].todo = {w} THEN Answer(p)
                         ELSE req' = [req EXCEPT ![p].todo = @ \ {w}]

LoseWrite(p) ==
    /\ scenario.faults
    /\ req[p].stage \in Settling
    /\ \E w \in req[p].todo : Settle(p, w)
    /\ UNCHANGED <<tables, now, issued, scenario>>

Tick ==
    /\ now < scenario.maxNow
    /\ now' = now + 1
    /\ UNCHANGED <<tables, req, issued, scenario>>

Init ==
    /\ scenario \in Scenarios
    /\ member  = scenario.members
    /\ created = Len(scenario.members)
    /\ posts   = scenario.posts
    /\ held    = scenario.held
    /\ history = scenario.history
    /\ classes = <<>>  /\ sessions = <<>>
    /\ capes   = {}    /\ worn = {}
    /\ bucket  = [f \in {} |-> ""]
    /\ now = 0
    /\ req = [p \in Procs |-> Idle]
    /\ issued = 0
=============================================================================
