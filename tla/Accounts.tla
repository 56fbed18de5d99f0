------------------------------ MODULE Accounts ------------------------------
(***************************************************************************)
(* How a member joins, changes nick, opens an account and leaves:          *)
(* UsersService.contractUser, changeUserNick, activateUser and             *)
(* changeUserPassword, AuthService.createAuthSession, and                  *)
(* ActionsService.fireUser on members with ids.                            *)
(***************************************************************************)
EXTENDS Members

NickIn(p, i) == Canon[req[p].call.nicks[i]]
Role(p)      == req[p].call.about

\* fireUser catches a failure of the lookup and keeps what was typed.
Spelled(nick) == IF Canon[nick] = NoNick THEN nick ELSE Canon[nick]
-----------------------------------------------------------------------------
(***************************************************************************)
(* fireUser.  Discipline has its reads one by one; here the two rows and   *)
(* the permissions of the officer, found again under the nick of the       *)
(* token, are read in one step.                                            *)
(***************************************************************************)
SubmitFireUser(p) ==
    \E call \in CallsOf("fireUser") :
        Admitted(call) /\ Begin(p, call, "fire.find", Guarded(call.actor))

MayFire(id, firer) ==
    /\ {id, firer} \subseteq DOMAIN member
    /\ MayPunish("fire", member[id].roleName, member[firer].roleName)
    /\ PunishmentPermitted("fire", member[id].roleName, member[firer].roleName,
                           RowsOf(held, firer))

FireWrites == {"update", "log", "permissions", "posts"}

FindToFire(p) ==
    /\ At(p, "fire.find")
    /\ LET id == Find(Spelled(req[p].call.nicks[1]))
       IN  IF MayFire(id, Find(req[p].who.nick))
           THEN req' = [req EXCEPT ![p].stage = "fire.settle",
                                   ![p].target = id, ![p].todo = FireWrites]
           ELSE Answer(p)
    /\ UNCHANGED <<tables, now, issued, scenario>>

\* The update is by the nick that was read.
Dismissed(row) == [row EXCEPT !.roleName = "Recruta", !.isAccountActive = FALSE]

Dismiss(p) ==
    LET id == Find(Spelled(req[p].call.nicks[1]))
    IN  /\ At(p, "fire.settle") /\ "update" \in req[p].todo
        /\ member' = IF id = NoId THEN member
                                  ELSE [member EXCEPT ![id] = Dismissed(@)]
        /\ Settle(p, "update")
        /\ UNCHANGED <<created, posts, held, history, classes, sessions, wardrobe,
                       now, issued, scenario>>

\* A row of the log needs its target.
Logged(type, id, about) ==
    IF id \in DOMAIN member THEN Append(history, LogRow(type, id, about)) ELSE history

LogDismissal(p) ==
    /\ At(p, "fire.settle") /\ "log" \in req[p].todo
    /\ history' = Logged("FIRE", req[p].target, "Recruta")
    /\ Settle(p, "log")
    /\ UNCHANGED <<member, created, posts, held, classes, sessions, wardrobe,
                   now, issued, scenario>>

TakePermissions(p) ==
    /\ At(p, "fire.settle") /\ "permissions" \in req[p].todo
    /\ held' = held \ RowsOf(held, req[p].target)
    /\ Settle(p, "permissions")
    /\ UNCHANGED <<member, created, posts, history, classes, sessions, wardrobe,
                   now, issued, scenario>>

TakePosts(p) ==
    /\ At(p, "fire.settle") /\ "posts" \in req[p].todo
    /\ posts' = posts \ RowsOf(posts, req[p].target)
    /\ Settle(p, "posts")
    /\ UNCHANGED <<member, created, held, history, classes, sessions, wardrobe,
                   now, issued, scenario>>
-----------------------------------------------------------------------------
(***************************************************************************)
(* contractUser                                                            *)
(***************************************************************************)
SubmitContractUser(p) ==
    \E call \in CallsOf("contractUser") :
        /\ Admitted(call)
        /\ Heads(Guarded(call.actor))
        /\ call.about \in {"Supremo", "Conselheiro"} => Guarded(call.actor).isAdmin
        /\ Canon[call.nicks[1]] # NoNick
        /\ Begin(p, call, "contract.find", Guarded(call.actor))

FindToContract(p) ==
    /\ At(p, "contract.find")
    /\ req' = [req EXCEPT ![p].stage = "contract.write", ![p].target = Find(NickIn(p, 1))]
    /\ UNCHANGED <<tables, now, issued, scenario>>

\* The row found is updated by id, which fails when it is gone; or a row is
\* created, which fails when somebody has the nick by now.
ContractWrite(p) ==
    LET id    == req[p].target
        fails == IF id = NoId THEN Find(NickIn(p, 1)) # NoId ELSE id \notin DOMAIN member
    IN  /\ At(p, "contract.write")
        /\ \/ /\ ~ fails /\ id = NoId
              /\ member' = Joined(NewRow(NickIn(p, 1), Role(p)))
              /\ created' = created + 1
              /\ req' = [req EXCEPT ![p].stage = "contract.log", ![p].target = created + 1]
           \/ /\ ~ fails /\ id # NoId
              /\ member' = [member EXCEPT ![id].roleName = Role(p)]
              /\ Goto(p, "contract.log")
              /\ UNCHANGED created
           \/ fails /\ Answer(p) /\ UNCHANGED <<member, created>>
        /\ UNCHANGED <<posts, held, history, classes, sessions, wardrobe,
                       now, issued, scenario>>

LogContract(p) ==
    /\ At(p, "contract.log")
    /\ history' = Logged("CONTRACTING", req[p].target, Role(p))
    /\ Answer(p)
    /\ UNCHANGED <<member, created, posts, held, classes, sessions, wardrobe,
                   now, issued, scenario>>
-----------------------------------------------------------------------------
(***************************************************************************)
(* changeUserNick: nicks[1] becomes nicks[2].  A Recruta who has the new   *)
(* nick gives way: the history moves, the row is deleted.                  *)
(***************************************************************************)
SubmitChangeUserNick(p) ==
    \E call \in CallsOf("changeUserNick") :
        /\ Admitted(call)
        /\ LET role == Guarded(call.actor).roleName
           IN  PositionOf(role) > 10 /\ KindOf(role) # "EXECUTIVE"
        /\ NoNick \notin {Canon[call.nicks[1]], Canon[call.nicks[2]]}
        /\ Begin(p, call, "nick.prev", Guarded(call.actor))

FindPrevious(p) ==
    /\ At(p, "nick.prev")
    /\ LET id == Find(NickIn(p, 1))
       IN  IF id # NoId /\ PositionOf(member[id].roleName) < PositionOf(req[p].who.roleName)
           THEN req' = [req EXCEPT ![p].stage = "nick.new", ![p].target = id]
           ELSE Answer(p)
    /\ UNCHANGED <<tables, now, issued, scenario>>

GivesWay(id) == member[id].roleName = "Recruta"

FindNew(p) ==
    /\ At(p, "nick.new")
    /\ LET id == Find(NickIn(p, 2))
       IN  IF id = NoId THEN Goto(p, "nick.update")
           ELSE IF GivesWay(id)
           THEN req' = [req EXCEPT ![p].stage = "nick.move", ![p].other = id]
           ELSE Answer(p)
    /\ UNCHANGED <<tables, now, issued, scenario>>

\* updateMany: every row of the one becomes a row of the other.
\* Mistake: nothing is moved.
Unmoved(from, to) == history
Moved(from, to) ==
    [i \in DOMAIN history |->
        IF history[i].target = from THEN [history[i] EXCEPT !.target = to] ELSE history[i]]

\* It fails when there are rows to move and nobody to move them to.
MoveHistory(p) ==
    LET from  == req[p].other
        to    == req[p].target
        fails == to \notin DOMAIN member /\ \E i \in DOMAIN history : history[i].target = from
    IN  /\ At(p, "nick.move")
        /\ \/ ~ fails /\ history' = Moved(from, to) /\ Goto(p, "nick.delete")
           \/ fails /\ Answer(p) /\ UNCHANGED history
        /\ UNCHANGED <<member, created, posts, held, classes, sessions, wardrobe,
                       now, issued, scenario>>

\* The rows that are not about a member, in their order.  (SelectSeq is
\* recursive, and nothing could be proved about the rows that are left.)
Without(rows, id) ==
    LET kept     == {i \in DOMAIN rows : rows[i].target # id}
        place(i) == Cardinality({j \in kept : j <= i})
    IN  [k \in 1..Cardinality(kept) |-> rows[CHOOSE i \in kept : place(i) = k]]

\* user.delete takes along what refers to the member, but for bonuses, which
\* make it fail.
DeleteMember(p) ==
    LET id == req[p].other
    IN  /\ At(p, "nick.delete")
        /\ \/ /\ id \in DOMAIN member \ scenario.bonified
              /\ member'  = Restrict(member, DOMAIN member \ {id})
              /\ posts'   = posts \ RowsOf(posts, id)
              /\ held'    = held \ RowsOf(held, id)
              /\ worn'    = worn \ RowsOf(worn, id)
              /\ history' = Without(history, id)
              /\ Goto(p, "nick.update")
           \/ /\ id \notin DOMAIN member \ scenario.bonified
              /\ Answer(p)
              /\ UNCHANGED <<member, posts, held, worn, history>>
        /\ UNCHANGED <<created, classes, sessions, capes, bucket, now, issued, scenario>>

\* The update is by nick, and fails when nobody has the old one or somebody
\* else the new one.
\* Mistake: the nick of the officer.
OfficerRenamed(p) == Find(req[p].who.nick)

ToRename(p) == Find(NickIn(p, 1))

Rename(p) ==
    LET id == ToRename(p)
    IN  /\ At(p, "nick.update")
        /\ \/ /\ id # NoId /\ WithNick(NickIn(p, 2)) \subseteq {id}
              /\ member' = [member EXCEPT ![id].nick = NickIn(p, 2)]
              /\ Goto(p, "nick.log")
           \/ /\ ~ (id # NoId /\ WithNick(NickIn(p, 2)) \subseteq {id})
              /\ Answer(p)
              /\ UNCHANGED member
        /\ UNCHANGED <<created, posts, held, history, classes, sessions, wardrobe,
                       now, issued, scenario>>

LogRename(p) ==
    /\ At(p, "nick.log")
    /\ history' = Logged("CHANGE", req[p].target, NoRole)
    /\ Answer(p)
    /\ UNCHANGED <<member, created, posts, held, classes, sessions, wardrobe,
                   now, issued, scenario>>
-----------------------------------------------------------------------------
(***************************************************************************)
(* createAuthSession, and the two handlers that ask for its code.  They    *)
(* look the nick up as it is typed.  Which session a client names, and     *)
(* whether Habbo shows its code in the motto, is not up to the server.     *)
(***************************************************************************)
CodeOps == {"activateUser", "changeUserPassword"}

SubmitSession(p) ==
    \E call \in CallsOf("createAuthSession") : Begin(p, call, "session.create", Nobody)

SubmitCode(p) ==
    \E op \in CodeOps : \E call \in CallsOf(op) : Begin(p, call, "code.user", Nobody)

CreateSession(p) ==
    /\ At(p, "session.create")
    /\ sessions' = Append(sessions, now + SessionLife)
    /\ Answer(p)
    /\ UNCHANGED <<people, wardrobe, now, issued, scenario>>

\* validateInactiveUser and validateActiveUser.
\* Mistake: a Recruta is not refused.
WaitsForCodeAnyone(id, op) == id # NoId /\ member[id].isAccountActive = (op = "changeUserPassword")

WaitsForCode(id, op) ==
    /\ id # NoId /\ member[id].roleName # "Recruta"
    /\ member[id].isAccountActive = (op = "changeUserPassword")

FindToUnlock(p) ==
    /\ At(p, "code.user")
    /\ LET id == Find(req[p].call.nicks[1])
       IN  IF WaitsForCode(id, req[p].call.op)
           THEN req' = [req EXCEPT ![p].stage = "code.session", ![p].target = id]
           ELSE Answer(p)
    /\ UNCHANGED <<tables, now, issued, scenario>>

\* validateSession, then the motto: what follows takes a session that has not
\* expired, and even then the motto may be wrong.
ReadSession(p) ==
    /\ At(p, "code.session")
    /\ \/ (\E s \in DOMAIN sessions : sessions[s] >= now) /\ Goto(p, "code.update")
       \/ Answer(p)
    /\ UNCHANGED <<tables, now, issued, scenario>>

\* The password is written in either case; activation opens the account.  The
\* update is by nick, and fails when nobody has it any more.
Unlock(p) ==
    LET id == Find(req[p].call.nicks[1])
    IN  /\ At(p, "code.update")
        /\ member' = IF id = NoId \/ req[p].call.op = "changeUserPassword" THEN member
                     ELSE [member EXCEPT ![id].isAccountActive = TRUE]
        /\ Answer(p)
        /\ UNCHANGED <<created, posts, held, history, classes, sessions, wardrobe,
                       now, issued, scenario>>
-----------------------------------------------------------------------------
AccountStep(p) ==
    \/ FindToFire(p) \/ Dismiss(p) \/ LogDismissal(p) \/ TakePermissions(p) \/ TakePosts(p)
    \/ FindToContract(p) \/ ContractWrite(p) \/ LogContract(p)
    \/ FindPrevious(p) \/ FindNew(p) \/ MoveHistory(p) \/ DeleteMember(p)
    \/ Rename(p) \/ LogRename(p)
    \/ CreateSession(p) \/ FindToUnlock(p) \/ ReadSession(p) \/ Unlock(p)

AccountSubmit(p) ==
    \/ SubmitFireUser(p) \/ SubmitContractUser(p) \/ SubmitChangeUserNick(p)
    \/ SubmitSession(p) \/ SubmitCode(p)
=============================================================================
