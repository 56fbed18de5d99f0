----------------------------- MODULE MCAuthority -----------------------------
(***************************************************************************)
(* Walks every pair of roles of the seed tables, with all, one or none of  *)
(* the permissions the tables ask for, through the promotions and punishments  *)
(* the rules accept.  Both members hold the same permissions: a refusal    *)
(* then only comes from the roles or from a permission neither has.        *)
(* On the way, the actor is looked at as a member of the departaments.     *)
(***************************************************************************)
EXTENDS DepartamentRules, Seed

VARIABLES actor, target, obtained

vars == <<actor, target, obtained>>

AskedFor == {q.name : q \in SeedRequired}
HeldBy(names) == {[name |-> n, type |-> "COURSE"] : n \in names}

Init == /\ actor \in RoleNames
        /\ target \in RoleNames
        /\ obtained \in {HeldBy(AskedFor), {}} \cup
                           {HeldBy({n}) : n \in AskedFor}

Promote ==
    /\ MayPromote(target, actor)
    /\ PromotionPermitted(target, obtained, actor, obtained)
    /\ target' = NextUp(target)
    /\ UNCHANGED <<actor, obtained>>

Punished(op) ==
    /\ MayPunish(op, target, actor)
    /\ PunishmentPermitted(op, target, actor, obtained)
    /\ UNCHANGED <<actor, obtained>>

Fire == Punished("fire") /\ target' = "Recruta"

StepDown(op) ==
    /\ Punished(op)
    /\ NextDown(target) # NoRole
    /\ target' = NextDown(target)

Next == Promote \/ Fire \/ \E op \in {"demote", "warn"} : StepDown(op)

Spec == Init /\ [][Next]_vars
-----------------------------------------------------------------------------
(***************************************************************************)
(* promotionRange and the position + 1 of promoteUser together: nobody is  *)
(* promoted to the rank of the one who promotes, or above it.              *)
(***************************************************************************)
PromotedStaysBelowPromoter ==
    [][PositionOf(target') > PositionOf(target)
         => PositionOf(target') < PositionOf(actor)]_vars

(***************************************************************************)
(* Whoever is demoted, fired or warned ranks strictly below the one who    *)
(* does it: the limit of 0 the seed gives the low ranks lets nobody in.    *)
(***************************************************************************)
PunishedIsOutranked ==
    [][PositionOf(target') < PositionOf(target)
         => PositionOf(target) < PositionOf(actor)]_vars

(***************************************************************************)
(* No dead end: from every rank but the last two of the military ladder    *)
(* and the last of the executive one, some role with every permission      *)
(* promotes a member who has every permission.                             *)
(***************************************************************************)
EveryRankCanRise ==
    target \notin {"Recruta", "Conselheiro", "Supremo", "Chanceler"} =>
        \E a \in RoleNames :
            /\ MayPromote(target, a)
            /\ PromotionPermitted(target, HeldBy(AskedFor), a, HeldBy(AskedFor))
-----------------------------------------------------------------------------
\* The actor with some of the departament roles.
With(posts) == [roleName |-> actor, posts |-> posts, held |-> Names(obtained)]

\* Roles worth telling apart: the lowest and the highest of the departaments
\* that teach and of one that does not.
SomePosts ==
    {t \o d : t \in {"", "L."}, d \in {"INS", "ESP", "EFEX", "CDO", "RH"}}

(***************************************************************************)
(* The menus of getCoursesAllowedToPost and getDepartamentCourses and the  *)
(* check of postClass, each with a loop of its own, agree: whoever may     *)
(* teach a course is offered it, and is offered no other course, but for   *)
(* the coordinators of ESP, to whom a query without a condition offers     *)
(* every course of the corps.                                              *)
(***************************************************************************)
OfferedCoursesAreTaught ==
    \A post \in SomePosts :
        LET who    == With({post})
            taught == {c \in CourseNames : MayTeach(who, c)}
        IN  /\ taught \subseteq CoursesAllowedToPost(who)
            /\ EspIsBare(post) \/ CoursesAllowedToPost(who) \subseteq taught
            /\ DepartamentCourses(who, post) =
                  {c \in taught : Courses[c].departament = DeptOf(post)}

(***************************************************************************)
(* No dead end in the courses either: the promotion from a rank asks only  *)
(* for courses that postClass accepts members of that rank for, and that   *)
(* somebody below the heads of the corps may teach.                        *)
(***************************************************************************)
RequiredCoursesAreOpen ==
    \A c \in RequiredNames("BE_PROMOTED", target) :
        /\ c \in CourseNames /\ RankFor(c, target)
        /\ \E post \in SomePosts :
              MayTeach([roleName |-> "Soldado", posts |-> {post}, held |-> {}], c)
=============================================================================
