---------------------------- MODULE Departaments ----------------------------
(***************************************************************************)
(* DepartamentsService: setUserRole, deleteUserRole and postClass.         *)
(*                                                                         *)
(* setUserRole looks nicks up as they are typed.  postClass walks the list *)
(* of approved nicks up to three times, one await after the other, before  *)
(* the three writes of its Promise.all.  In the first walk a nick is       *)
(* replaced in the list by Habbo's spelling while the row is looked up     *)
(* under the spelling that was typed.                                      *)
(***************************************************************************)
EXTENDS Members

Nick(p)    == req[p].call.nicks[1]
About(p)   == req[p].call.about
Reached(p) == req[p].call.nicks[req[p].at]

-----------------------------------------------------------------------------
(***************************************************************************)
(* setUserRole                                                             *)
(***************************************************************************)
SubmitSetUserRole(p) ==
    \E call \in CallsOf("setUserRole") :
        Admitted(call) /\ Begin(p, call, "role.find", Guarded(call.actor))

\* Mistake: a Recruta is not refused.
MayReceiveAnyone(id, power, post) == id # NoId /\ Outranks(power, post)

MayReceive(id, power, post) ==
    id # NoId /\ member[id].roleName # "Recruta" /\ Outranks(power, post)

FindForRole(p) ==
    /\ At(p, "role.find")
    /\ \E power \in Powers(req[p].who, DeptOf(About(p))) :
         LET id == Find(Nick(p))
         IN  IF MayReceive(id, power, About(p))
             THEN req' = [req EXCEPT ![p].stage = "role.clear", ![p].target = id]
             ELSE Answer(p)
    /\ UNCHANGED <<tables, now, issued, scenario>>

\* deleteMany: every role of the departament.
\* Mistake: only the role that is about to be given.
ClearedOfOne(id, post) == posts \ {[user |-> id, role |-> post]}

Cleared(id, post) ==
    {r \in posts : ~ (r.user = id /\ DeptOf(r.role) = DeptOf(post))}

ClearRoles(p) ==
    /\ At(p, "role.clear")
    /\ posts' = Cleared(req[p].target, About(p))
    /\ Goto(p, "role.create")
    /\ UNCHANGED <<member, created, held, history, classes, sessions, wardrobe,
                   now, issued, scenario>>

\* create fails on a role the member has and on a member who is gone.
CreateRole(p) ==
    /\ At(p, "role.create")
    /\ posts' = posts \cup {r \in {[user |-> req[p].target, role |-> About(p)]} :
                              r.user \in DOMAIN member}
    /\ Answer(p)
    /\ UNCHANGED <<member, created, held, history, classes, sessions, wardrobe,
                   now, issued, scenario>>
-----------------------------------------------------------------------------
(***************************************************************************)
(* deleteUserRole.  With two rows of the departament it may decide on      *)
(* either.  A caller without a role of it makes the handler throw.         *)
(***************************************************************************)
SubmitDeleteUserRole(p) ==
    \E call \in CallsOf("deleteUserRole") :
        Admitted(call) /\ Begin(p, call, "drop.find", Guarded(call.actor))

FindForRemoval(p) ==
    /\ At(p, "drop.find")
    /\ LET rows == {r \in RowsOf(posts, Find(Nick(p))) : DeptOf(r.role) = About(p)}
       IN  \/ \E r \in rows, power \in Powers(req[p].who, About(p)) :
                IF Outranks(power, r.role)
                THEN req' = [req EXCEPT ![p].stage = "drop.delete",
                                        ![p].target = r.user,
                                        ![p].call.about = r.role]
                ELSE Answer(p)
           \/ rows = {} /\ Answer(p)
    /\ UNCHANGED <<tables, now, issued, scenario>>

RemoveRole(p) ==
    /\ At(p, "drop.delete")
    /\ posts' = posts \ {[user |-> req[p].target, role |-> About(p)]}
    /\ Answer(p)
    /\ UNCHANGED <<member, created, held, history, classes, sessions, wardrobe,
                   now, issued, scenario>>
-----------------------------------------------------------------------------
(***************************************************************************)
(* postClass.  The course is looked up before the caller's power is        *)
(* checked; the Course table does not change.                              *)
(***************************************************************************)
SubmitPostClass(p) ==
    \E call \in CallsOf("postClass") :
        /\ Admitted(call)
        /\ call.about \in CourseNames
        /\ MayTeach(Guarded(call.actor), call.about)
        /\ Begin(p, call, "class.check", Guarded(call.actor))

HoldsCourse(id, course) ==
    [user |-> id, name |-> course, type |-> "COURSE"] \in held

\* What the first walk asks of a nick, typed so: that Habbo knows it, and of
\* the row under that very spelling, if there is one, rank and course.
\* Mistakes: holders of the course are let in; so are members of any rank.
MayPassAgain(nick, course) ==
    /\ Canon[nick] # NoNick
    /\ LET id == Find(nick)
       IN  IF id = NoId THEN course = "CFPM"
                        ELSE RankFor(course, member[id].roleName)
MayPassAtAnyRank(nick, course) ==
    /\ Canon[nick] # NoNick
    /\ LET id == Find(nick)
       IN  IF id = NoId THEN course = "CFPM" ELSE ~ HoldsCourse(id, course)

MayPass(nick, course) ==
    /\ Canon[nick] # NoNick
    /\ LET id == Find(nick)
       IN  IF id = NoId THEN course = "CFPM"
                        ELSE /\ RankFor(course, member[id].roleName)
                             /\ ~ HoldsCourse(id, course)

\* Where a request goes from a place in the list: to the next place, or to the
\* stage after this walk.
\* Mistake: the place is not moved.
OnwardNowhere(p, again, next) ==
    IF req[p].at = Len(req[p].call.nicks)
    THEN [req[p] EXCEPT !.stage = next,  !.at = 1]
    ELSE [req[p] EXCEPT !.stage = again]

Onward(p, again, next) ==
    IF req[p].at = Len(req[p].call.nicks)
    THEN [req[p] EXCEPT !.stage = next,  !.at = 1]
    ELSE [req[p] EXCEPT !.stage = again, !.at = @ + 1]

AfterCheck(course) == IF course = "CFPM" THEN "class.enrol" ELSE "class.collect"

CheckApproved(p) ==
    /\ At(p, "class.check")
    /\ IF MayPass(Reached(p), About(p))
       THEN req' = [req EXCEPT ![p] = Onward(p, "class.check", AfterCheck(About(p)))]
       ELSE Answer(p)
    /\ UNCHANGED <<tables, now, issued, scenario>>

\* The second walk, at CFPM only: the row under Habbo's spelling ...
FindToEnlist(p) ==
    /\ At(p, "class.enrol")
    /\ req' = [req EXCEPT ![p].stage = "class.enlist",
                          ![p].target = Find(Canon[Reached(p)])]
    /\ UNCHANGED <<tables, now, issued, scenario>>

\* ... is created, a Soldado by default, or its role becomes Soldado.  The
\* update is by nick, and fails when nobody has it any more; the creation
\* fails when somebody has it by now.
\* Mistake: a role that is not in the table of roles.
EnlistedMisspelt(row) == [row EXCEPT !.roleName = "Soldada"]

EnlistedRow(row) == [row EXCEPT !.roleName = "Soldado"]

Enlist(p) ==
    LET nick == Canon[Reached(p)]
        id   == Find(nick)
    IN  /\ At(p, "class.enlist")
        /\ \/ /\ req[p].target = NoId /\ id = NoId
              /\ member' = Joined(NewRow(nick, "Soldado"))
              /\ created' = created + 1
           \/ /\ req[p].target # NoId /\ id # NoId
              /\ member' = [member EXCEPT ![id] = EnlistedRow(@)]
              /\ UNCHANGED created
           \/ /\ (req[p].target = NoId) # (id = NoId)
              /\ UNCHANGED <<member, created>>
        /\ IF (req[p].target = NoId) = (id = NoId)
           THEN req' = [req EXCEPT ![p] =
                          [Onward(p, "class.enrol", "class.collect") EXCEPT !.target = NoId]]
           ELSE Answer(p)
        /\ UNCHANGED <<posts, held, history, classes, sessions, wardrobe,
                       now, issued, scenario>>

\* The third walk keeps the ids; reading the id of a missing row throws.
CollectApproved(p) ==
    /\ At(p, "class.collect")
    /\ LET id == Find(Canon[Reached(p)])
       IN  IF id = NoId THEN Answer(p)
           ELSE req' = [req EXCEPT ![p] =
                          [Onward(p, "class.collect", "class.settle") EXCEPT
                             !.ids  = Append(@, id),
                             !.todo = {"permissions", "log", "class"}]]
    /\ UNCHANGED <<tables, now, issued, scenario>>

\* createMany writes every row or none: a member approved twice, a row that
\* exists and a member who is gone each make it fail.
Repeats(ids) == Cardinality(Range(ids)) # Len(ids)
GivenRows(ids, course) ==
    {[user |-> i, name |-> g.name, type |-> g.type] : i \in Range(ids), g \in Given(course)}

PermissionsFit(p) ==
    /\ ~ Repeats(req[p].ids)
    /\ GivenRows(req[p].ids, About(p)) \cap held = {}
    /\ Range(req[p].ids) \subseteq DOMAIN member

GiveCourses(p) ==
    /\ At(p, "class.settle") /\ "permissions" \in req[p].todo
    /\ held' = IF PermissionsFit(p) THEN held \cup GivenRows(req[p].ids, About(p)) ELSE held
    /\ Settle(p, "permissions")
    /\ UNCHANGED <<member, created, posts, history, classes, sessions, wardrobe,
                   now, issued, scenario>>

LogApproved(p) ==
    /\ At(p, "class.settle") /\ "log" \in req[p].todo
    /\ history' = IF Range(req[p].ids) \subseteq DOMAIN member
                  THEN history \o [i \in DOMAIN req[p].ids |->
                                     LogRow("APPROVATION", req[p].ids[i], About(p))]
                  ELSE history
    /\ Settle(p, "log")
    /\ UNCHANGED <<member, created, posts, held, classes, sessions, wardrobe,
                   now, issued, scenario>>

RecordClass(p) ==
    /\ At(p, "class.settle") /\ "class" \in req[p].todo
    /\ classes' = Append(classes, [course |-> About(p), approved |-> Len(req[p].ids)])
    /\ Settle(p, "class")
    /\ UNCHANGED <<member, created, posts, held, history, sessions, wardrobe,
                   now, issued, scenario>>
-----------------------------------------------------------------------------
DepartamentStep(p) ==
    \/ FindForRole(p) \/ ClearRoles(p) \/ CreateRole(p)
    \/ FindForRemoval(p) \/ RemoveRole(p)
    \/ CheckApproved(p) \/ FindToEnlist(p) \/ Enlist(p) \/ CollectApproved(p)
    \/ GiveCourses(p) \/ LogApproved(p) \/ RecordClass(p)

DepartamentSubmit(p) ==
    SubmitSetUserRole(p) \/ SubmitDeleteUserRole(p) \/ SubmitPostClass(p)
=============================================================================
