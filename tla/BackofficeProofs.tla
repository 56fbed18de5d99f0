-------------------------- MODULE BackofficeProofs --------------------------
(***************************************************************************)
(* Proofs about Backoffice, for every table of roles and courses, any      *)
(* number of members and requests, every interleaving and every failure of *)
(* a query.                                                                *)
(***************************************************************************)
EXTENDS Backoffice, SequenceTheorems, FiniteSetTheorems, TLAPS

(***************************************************************************)
(* What a request carries with it besides its type: that its call is about *)
(* what the handler writes, and that the nicks it has passed are those of  *)
(* somebody Habbo knows.                                                   *)
(***************************************************************************)
RoleStages   == {"role.find", "role.clear", "role.create"}
DropStages   == {"drop.find", "drop.delete"}
ClassStages  == {"class.check", "class.enrol", "class.enlist", "class.collect",
                 "class.settle"}
HireStages   == {"contract.find", "contract.write", "contract.log"}
NickStages   == {"nick.prev", "nick.new", "nick.move", "nick.delete",
                 "nick.update", "nick.log"}
UploadStages == {"cape.find", "cape.put", "cape.create"}
WearStages   == {"give.find", "give.create", "wear.update"}
RankStages   == {"rank.find", "rank.cfo", "rank.settle"}

Known(call, i) == i \in DOMAIN call.nicks /\ Canon[call.nicks[i]] \in Nicks

RequestSound(r) ==
    /\ r.stage \in RoleStages => r.call.about \in PostNames
    /\ r.stage = "drop.delete" => r.call.about \in PostNames
    /\ r.stage \in ClassStages =>
          /\ r.call.about \in CourseNames
          /\ r.at \in DOMAIN r.call.nicks
          /\ \A i \in DOMAIN r.call.nicks :
                r.stage # "class.check" \/ i < r.at => Known(r.call, i)
    /\ r.stage \in HireStages => r.call.about \in RoleNames /\ Known(r.call, 1)
    /\ r.stage \in NickStages => Known(r.call, 1) /\ Known(r.call, 2)
    /\ r.stage \in UploadStages => r.call.about \in CapeNames /\ r.call.file \in Files
    /\ r.stage \in WearStages => r.call.about \in CapeNames
    /\ r.stage \in {"rank.cfo", "rank.settle"} => r.call.about \in RoleNames \ {"Recruta"}
    /\ r.stage \in {"rank.find", "rank.cfo", "rank.settle"} => r.call.op \in RankOps

RequestsSound == \A p \in Procs : RequestSound(req[p])

IInv == TablesTyped /\ RequestsSound
-----------------------------------------------------------------------------
(***************************************************************************)
(* Lemmas about requests                                                   *)
(***************************************************************************)
LEMMA IdleSound == Idle \in Request /\ RequestSound(Idle)
<1>1. NoCall \in Call
  BY EmptySeq DEF NoCall, Call, Ops, Subjects
<1>2. Nobody \in Guard
  BY RolesAssumption DEF Nobody, Guard, NoId
<1>3. Idle \in Request
  BY <1>1, <1>2, EmptySeq DEF Idle, Request, Stages, Settling, NoId
<1> QED
  BY <1>3 DEF Idle, RequestSound, RoleStages, ClassStages, HireStages,
              NickStages, UploadStages, WearStages

(* A request may change into any sound request of the right type.          *)
LEMMA RequestChange ==
    ASSUME IInv, NEW p \in Procs, NEW r \in Request, RequestSound(r),
           req' = [req EXCEPT ![p] = r]
    PROVE  /\ req' \in [Procs -> Request]
           /\ RequestsSound'
<1>1. req \in [Procs -> Request] /\ RequestsSound
  BY DEF IInv, TablesTyped
<1>2. \A q \in Procs : RequestSound(req'[q])
  BY <1>1 DEF RequestsSound
<1> QED BY <1>1, <1>2 DEF RequestsSound

LEMMA Answered ==
    ASSUME IInv, NEW p \in Procs, Answer(p)
    PROVE  req' \in [Procs -> Request] /\ RequestsSound'
BY IdleSound, RequestChange DEF Answer

LEMMA NothingAsked ==
    ASSUME IInv, UNCHANGED req
    PROVE  req' \in [Procs -> Request] /\ RequestsSound'
BY DEF IInv, TablesTyped, RequestsSound

(* From one stage to another of the same handler, with another id.         *)
LEMMA Goes ==
    ASSUME IInv, NEW p \in Procs, NEW stage \in Stages, NEW target \in Nat,
           NEW other \in Nat, NEW todo \in SUBSET Writes,
           RequestSound([req[p] EXCEPT !.stage = stage]),
           req' = [req EXCEPT ![p].stage = stage, ![p].target = target,
                              ![p].other = other, ![p].todo = todo]
    PROVE  req' \in [Procs -> Request] /\ RequestsSound'
<1> DEFINE r == [req[p] EXCEPT !.stage = stage, !.target = target,
                               !.other = other, !.todo = todo]
<1>1. req[p] \in Request /\ req \in [Procs -> Request]
  BY DEF IInv, TablesTyped
<1>2. r \in Request
  BY <1>1 DEF Request
<1>3. RequestSound(r)
  BY <1>1 DEF RequestSound, Request
<1>4. req' = [req EXCEPT ![p] = r]
  BY <1>1 DEF Request
<1> QED BY <1>2, <1>3, <1>4, RequestChange
-----------------------------------------------------------------------------
(***************************************************************************)
(* Queries and the beginning of a request                                  *)
(***************************************************************************)
LEMMA FindType ==
    ASSUME IInv, NEW nick
    PROVE  /\ Find(nick) \in Nat
           /\ Find(nick) # NoId =>
                 Find(nick) \in DOMAIN member /\ member[Find(nick)] \in MemberRow
<1>1. DOMAIN member \subseteq Nat \ {0} /\ member \in [DOMAIN member -> MemberRow]
  BY DEF IInv, TablesTyped
<1>2. WithNick(nick) # {} => Find(nick) \in WithNick(nick)
  BY DEF Find
<1> QED
  BY <1>1, <1>2 DEF Find, WithNick, NoId

LEMMA GuardedType ==
    ASSUME IInv, NEW nick \in Nicks \cup {NoNick}, Find(nick) # NoId
    PROVE  Guarded(nick) \in Guard
<1>1. Find(nick) \in Nat /\ member[Find(nick)] \in MemberRow
  BY FindType
<1>2. posts \subseteq PostRow /\ held \subseteq HeldRow
  BY DEF IInv, TablesTyped
<1>3. {r.role : r \in RowsOf(posts, Find(nick))} \subseteq PostNames
  BY <1>2 DEF RowsOf, PostRow
<1>4. {r.name : r \in RowsOf(held, Find(nick))} \subseteq CourseNames
  BY <1>2 DEF RowsOf, HeldRow
<1>5. member[Find(nick)].roleName \in RoleNames /\ member[Find(nick)].isAdmin \in BOOLEAN
  BY <1>1 DEF MemberRow
<1> QED
  BY <1>1, <1>3, <1>4, <1>5 DEF Guarded, Guard

LEMMA NobodyType == Nobody \in Guard
BY RolesAssumption DEF Nobody, Guard, NoId

LEMMA CallType ==
    ASSUME IInv, NEW op, NEW call \in CallsOf(op)
    PROVE  call \in Call /\ call.op = op /\ CallFits(call)
BY MembersAssumption, CallsAssumption DEF IInv, TablesTyped, CallsOf

LEMMA BeginInv ==
    ASSUME IInv, NEW p \in Procs, NEW call \in Call, NEW stage \in Stages,
           NEW who \in Guard, Begin(p, call, stage, who),
           RequestSound([Idle EXCEPT !.stage = stage, !.call = call, !.who = who])
    PROVE  IInv'
<1> DEFINE r == [Idle EXCEPT !.stage = stage, !.call = call, !.who = who]
<1>1. r \in Request
  BY IdleSound DEF Request
<1>2. req' \in [Procs -> Request] /\ RequestsSound'
  BY <1>1, RequestChange DEF Begin
<1> QED
  BY <1>2 DEF IInv, TablesTyped, Begin, tables, people, wardrobe

(* A request that only reads.                                              *)
LEMMA ReadInv ==
    ASSUME IInv, UNCHANGED <<tables, now, issued, scenario>>,
           req' \in [Procs -> Request], RequestsSound'
    PROVE  IInv'
BY DEF IInv, TablesTyped, tables, people, wardrobe
-----------------------------------------------------------------------------
(***************************************************************************)
(* DepartamentsService                                                     *)
(***************************************************************************)
LEMMA DepartamentSubmitInv ==
    ASSUME IInv, NEW p \in Procs, DepartamentSubmit(p)
    PROVE  IInv'
<1>1. CASE SubmitSetUserRole(p)
  <2>1. PICK call \in CallsOf("setUserRole") :
           Admitted(call) /\ Begin(p, call, "role.find", Guarded(call.actor))
    BY <1>1 DEF SubmitSetUserRole
  <2>2. call \in Call /\ call.about \in PostNames
    BY CallType DEF CallFits
  <2>3. Guarded(call.actor) \in Guard
    BY <2>1, <2>2, GuardedType DEF Admitted, Call
  <2>4. RequestSound([Idle EXCEPT !.stage = "role.find", !.call = call,
                                  !.who = Guarded(call.actor)])
    BY <2>2 DEF Idle, RequestSound, RoleStages, DropStages, ClassStages, HireStages,
                NickStages, UploadStages, WearStages
  <2> QED BY <2>1, <2>2, <2>3, <2>4, BeginInv DEF Stages
<1>2. CASE SubmitDeleteUserRole(p)
  <2>1. PICK call \in CallsOf("deleteUserRole") :
           Admitted(call) /\ Begin(p, call, "drop.find", Guarded(call.actor))
    BY <1>2 DEF SubmitDeleteUserRole
  <2>2. call \in Call
    BY CallType
  <2>3. Guarded(call.actor) \in Guard
    BY <2>1, <2>2, GuardedType DEF Admitted, Call
  <2>4. RequestSound([Idle EXCEPT !.stage = "drop.find", !.call = call,
                                  !.who = Guarded(call.actor)])
    BY DEF Idle, RequestSound, RoleStages, ClassStages, HireStages,
           NickStages, UploadStages, WearStages
  <2> QED BY <2>1, <2>2, <2>3, <2>4, BeginInv DEF Stages
<1>3. CASE SubmitPostClass(p)
  <2>1. PICK call \in CallsOf("postClass") :
           /\ Admitted(call)
           /\ call.about \in CourseNames
           /\ Begin(p, call, "class.check", Guarded(call.actor))
    BY <1>3 DEF SubmitPostClass
  <2>2. call \in Call /\ 1 \in DOMAIN call.nicks /\ DOMAIN call.nicks \subseteq Nat \ {0}
    <3>1. call \in Call /\ call.op = "postClass" /\ CallFits(call)
      BY CallType
    <3>2. call.nicks \in Seq(Typed)
      BY <3>1 DEF Call
    <3>3. DOMAIN call.nicks \subseteq Nat \ {0}
      BY <3>2, LenProperties
    <3> QED BY <3>1, <3>3 DEF CallFits, Ops
  <2>3. Guarded(call.actor) \in Guard
    BY <2>1, <2>2, GuardedType DEF Admitted, Call
  <2>4. RequestSound([Idle EXCEPT !.stage = "class.check", !.call = call,
                                  !.who = Guarded(call.actor)])
    BY <2>1, <2>2 DEF Idle, RequestSound, RoleStages, ClassStages, HireStages,
                      NickStages, UploadStages, WearStages
  <2> QED BY <2>1, <2>2, <2>3, <2>4, BeginInv DEF Stages
<1> QED
  BY <1>1, <1>2, <1>3 DEF DepartamentSubmit

LEMMA RoleStepInv ==
    ASSUME IInv, NEW p \in Procs
    PROVE  /\ FindForRole(p) => IInv'
           /\ ClearRoles(p) => IInv'
           /\ CreateRole(p) => IInv'
<1>0. req \in [Procs -> Request] /\ req[p] \in Request /\ RequestSound(req[p])
  BY DEF IInv, TablesTyped, RequestsSound
<1>1. ASSUME FindForRole(p) PROVE IInv'
  <2>1. PICK id : \/ req' = [req EXCEPT ![p].stage = "role.clear", ![p].target = id]
                     /\ id = Find(Nick(p))
                  \/ Answer(p)
    BY <1>1 DEF FindForRole
  <2>2. CASE req' = [req EXCEPT ![p].stage = "role.clear", ![p].target = id]
             /\ id = Find(Nick(p))
    <3> DEFINE r == [req[p] EXCEPT !.stage = "role.clear", !.target = id]
    <3>1. req' = [req EXCEPT ![p] = r] /\ r \in Request
      BY <1>0, <2>2, FindType DEF Request, Stages
    <3>2. RequestSound(r)
      BY <1>0, <1>1 DEF FindForRole, At, Request, RequestSound, RoleStages,
            ClassStages, HireStages, NickStages, UploadStages, WearStages
    <3> QED BY <1>1, <3>1, <3>2, RequestChange, ReadInv DEF FindForRole
  <2>3. CASE Answer(p)
    BY <1>1, <2>3, Answered, ReadInv DEF FindForRole
  <2> QED BY <2>1, <2>2, <2>3
<1>2. ASSUME ClearRoles(p) PROVE IInv'
  <2> DEFINE r == [req[p] EXCEPT !.stage = "role.create"]
  <2>1. req' = [req EXCEPT ![p] = r] /\ r \in Request
    BY <1>0, <1>2 DEF ClearRoles, Goto, Request, Stages
  <2>2. RequestSound(r)
    BY <1>0, <1>2 DEF ClearRoles, At, Request, RequestSound, RoleStages,
          ClassStages, HireStages, NickStages, UploadStages, WearStages
  <2>3. req' \in [Procs -> Request] /\ RequestsSound'
    BY <2>1, <2>2, RequestChange
  <2> QED BY <1>2, <2>3 DEF ClearRoles, Cleared, IInv, TablesTyped, wardrobe
<1>3. ASSUME CreateRole(p) PROVE IInv'
  <2>1. req' \in [Procs -> Request] /\ RequestsSound'
    BY <1>3, Answered DEF CreateRole
  <2>2. posts' \subseteq PostRow
    <3>1. req[p].target \in Nat /\ About(p) \in PostNames
      BY <1>0, <1>3 DEF CreateRole, At, RequestSound, RoleStages, Request, About
    <3>2. [user |-> req[p].target, role |-> About(p)] \in PostRow
      BY <3>1 DEF PostRow
    <3> QED BY <1>3, <3>2 DEF CreateRole, IInv, TablesTyped
  <2> QED BY <1>3, <2>1, <2>2 DEF CreateRole, IInv, TablesTyped, wardrobe
<1> QED BY <1>1, <1>2, <1>3

LEMMA DropStepInv ==
    ASSUME IInv, NEW p \in Procs
    PROVE  /\ FindForRemoval(p) => IInv'
           /\ RemoveRole(p) => IInv'
<1>0. req \in [Procs -> Request] /\ req[p] \in Request
  BY DEF IInv, TablesTyped
<1>1. ASSUME FindForRemoval(p) PROVE IInv'
  <2>1. \/ Answer(p)
        \/ \E row \in posts : req' = [req EXCEPT ![p].stage = "drop.delete",
                                                 ![p].target = row.user,
                                                 ![p].call.about = row.role]
    BY <1>1 DEF FindForRemoval, RowsOf
  <2>2. ASSUME NEW row \in posts,
               req' = [req EXCEPT ![p].stage = "drop.delete", ![p].target = row.user,
                                  ![p].call.about = row.role]
        PROVE  IInv'
    <3> DEFINE c == [req[p].call EXCEPT !.about = row.role]
               r == [req[p] EXCEPT !.stage = "drop.delete", !.target = row.user, !.call = c]
    <3>1. row.user \in Nat /\ row.role \in PostNames
      BY DEF IInv, TablesTyped, PostRow
    <3>2. c \in Call /\ c.about = row.role
      BY <1>0, <3>1 DEF Request, Call, Subjects
    <3>3. r \in Request /\ r.call = c /\ r.stage = "drop.delete"
      BY <1>0, <3>1, <3>2 DEF Request, Stages
    <3>4. req' = [req EXCEPT ![p] = r]
      BY <1>0, <2>2, <3>2 DEF Request, Call
    <3>5. RequestSound(r)
      BY <3>1, <3>2, <3>3 DEF RequestSound, RoleStages, ClassStages, HireStages,
                              NickStages, UploadStages, WearStages
    <3> QED BY <1>1, <3>3, <3>4, <3>5, RequestChange, ReadInv DEF FindForRemoval
  <2>3. CASE Answer(p)
    BY <1>1, <2>3, Answered, ReadInv DEF FindForRemoval
  <2> QED BY <2>1, <2>2, <2>3
<1>2. ASSUME RemoveRole(p) PROVE IInv'
  <2>1. req' \in [Procs -> Request] /\ RequestsSound'
    BY <1>2, Answered DEF RemoveRole
  <2> QED BY <1>2, <2>1 DEF RemoveRole, IInv, TablesTyped, wardrobe
<1> QED BY <1>1, <1>2

LEMMA ClassSound ==
    ASSUME NEW r, r.stage \in ClassStages, r.call.about \in CourseNames,
           r.at \in DOMAIN r.call.nicks,
           \A i \in DOMAIN r.call.nicks :
              r.stage # "class.check" \/ i < r.at => Known(r.call, i)
    PROVE  RequestSound(r)
BY DEF RequestSound, RoleStages, ClassStages, HireStages, NickStages, UploadStages,
       WearStages

(* Where a walk goes from a place in the list is a place in the list.      *)
LEMMA OnwardType ==
    ASSUME IInv, NEW p \in Procs, NEW again \in ClassStages, NEW next \in ClassStages,
           req[p].stage \in ClassStages,
           next # "class.check",
           again = "class.check" =>
              req[p].stage = "class.check" /\ Known(req[p].call, req[p].at),
           req[p].stage = "class.check" => Known(req[p].call, req[p].at)
                                           /\ again = "class.check"
    PROVE  /\ Onward(p, again, next) \in Request
           /\ Onward(p, again, next).stage \in {again, next}
           /\ RequestSound(Onward(p, again, next))
<1> DEFINE c == req[p].call
           o == Onward(p, again, next)
<1>0. req \in [Procs -> Request] /\ req[p] \in Request /\ RequestSound(req[p])
  BY DEF IInv, TablesTyped, RequestsSound
<1>1. c \in Call /\ c.nicks \in Seq(Typed) /\ req[p].at \in Nat
  BY <1>0 DEF Request, Call
<1>2. /\ DOMAIN c.nicks = 1..Len(c.nicks) /\ Len(c.nicks) \in Nat
      /\ req[p].at \in DOMAIN c.nicks /\ c.about \in CourseNames
  BY <1>0, <1>1, LenProperties DEF RequestSound
<1>3. {again, next} \subseteq Stages
  BY DEF ClassStages, Stages, Settling
<1>4. CASE req[p].at = Len(c.nicks)
  <2>1. o = [req[p] EXCEPT !.stage = next, !.at = 1]
    BY <1>4 DEF Onward
  <2>2. o \in Request /\ o.stage = next /\ o.at = 1 /\ o.call = c
    <3>1. [req[p] EXCEPT !.stage = next, !.at = 1] \in Request
      BY <1>0, <1>3 DEF Request
    <3> HIDE DEF o
    <3> QED BY <1>0, <2>1, <3>1 DEF Request
  <2>3. \A i \in DOMAIN c.nicks : Known(c, i)
    <3>1. \A i \in DOMAIN c.nicks : i < req[p].at \/ i = req[p].at
      BY <1>1, <1>2, <1>4
    <3> QED BY <1>0, <3>1 DEF RequestSound
  <2>4. RequestSound(o)
    <3>1. o.stage \in ClassStages /\ o.call.about \in CourseNames
      BY <1>2, <2>2
    <3>2. o.at \in DOMAIN o.call.nicks
      BY <1>1, <1>2, <2>2
    <3>3. \A i \in DOMAIN o.call.nicks : Known(o.call, i)
      BY <2>2, <2>3
    <3> HIDE DEF o
    <3> QED BY <3>1, <3>2, <3>3, ClassSound
  <2> QED BY <2>2, <2>4
<1>5. CASE req[p].at # Len(c.nicks)
  <2>1. o = [req[p] EXCEPT !.stage = again, !.at = req[p].at + 1]
    BY <1>5 DEF Onward
  <2>2. o \in Request /\ o.stage = again /\ o.at = req[p].at + 1 /\ o.call = c
    <3> DEFINE n == req[p].at + 1
    <3>1. n \in Nat
      BY <1>1
    <3> HIDE DEF n
    <3>2. [req[p] EXCEPT !.stage = again, !.at = n] \in Request
      BY <1>0, <1>3, <3>1 DEF Request
    <3>3. o = [req[p] EXCEPT !.stage = again, !.at = n]
      BY <2>1 DEF n
    <3>4. o \in Request /\ o.stage = again /\ o.at = n /\ o.call = c
      BY <1>0, <3>2, <3>3 DEF Request
    <3> QED BY <3>4 DEF n
  <2>3. o.at \in DOMAIN c.nicks
    BY <1>1, <1>2, <1>5, <2>2
  <2>4. \A i \in DOMAIN c.nicks : o.stage # "class.check" \/ i < o.at => Known(c, i)
    <3>1. CASE again = "class.check"
      <4>1. \A i \in DOMAIN c.nicks : i < o.at => i < req[p].at \/ i = req[p].at
        BY <1>1, <1>2, <2>2
      <4> QED BY <1>0, <2>2, <3>1, <4>1 DEF RequestSound
    <3>2. CASE again # "class.check"
      BY <1>0, <2>2, <3>2 DEF RequestSound
    <3> QED BY <3>1, <3>2
  <2>5. RequestSound(o)
    <3>1. o.stage \in ClassStages /\ o.call.about \in CourseNames
      BY <1>2, <2>2
    <3>2. o.at \in DOMAIN o.call.nicks
      BY <2>2, <2>3
    <3>3. \A i \in DOMAIN o.call.nicks :
             o.stage # "class.check" \/ i < o.at => Known(o.call, i)
      BY <2>2, <2>4
    <3> HIDE DEF o
    <3> QED BY <3>1, <3>2, <3>3, ClassSound
  <2> QED BY <2>2, <2>5
<1> QED BY <1>4, <1>5

LEMMA ClassRequest ==
    ASSUME IInv, NEW p \in Procs, req[p].stage \in ClassStages
    PROVE  /\ req \in [Procs -> Request] /\ req[p] \in Request /\ RequestSound(req[p])
           /\ About(p) \in CourseNames
           /\ req[p].at \in DOMAIN req[p].call.nicks
           /\ req[p].stage # "class.check" => Canon[Reached(p)] \in Nicks
BY DEF IInv, TablesTyped, RequestsSound, RequestSound, About, Reached, Known

LEMMA ClassWalkInv ==
    ASSUME IInv, NEW p \in Procs
    PROVE  /\ CheckApproved(p) => IInv'
           /\ FindToEnlist(p) => IInv'
           /\ Enlist(p) => IInv'
           /\ CollectApproved(p) => IInv'
<1>1. ASSUME CheckApproved(p) PROVE IInv'
  <2> DEFINE o == Onward(p, "class.check", AfterCheck(About(p)))
  <2>1. req[p].stage = "class.check" /\ req[p].stage \in ClassStages
    BY <1>1 DEF CheckApproved, At, ClassStages
  <2>2. AfterCheck(About(p)) \in ClassStages \ {"class.check"}
    BY DEF AfterCheck, ClassStages
  <2>3. CASE MayPass(Reached(p), About(p))
    <3>1. req[p].call.nicks[req[p].at] \in Typed
      <4>1. req[p].call.nicks \in Seq(Typed) /\ req[p].at \in DOMAIN req[p].call.nicks
        BY <2>1, ClassRequest DEF Request, Call
      <4> QED BY <4>1, LenProperties, ElementOfSeq
    <3>2. Known(req[p].call, req[p].at)
      BY <2>1, <2>3, <3>1, ClassRequest, MembersAssumption DEF MayPass, Reached, Known
    <3>3. o \in Request /\ RequestSound(o)
      BY <2>1, <2>2, <3>2, OnwardType DEF ClassStages
    <3>4. req' = [req EXCEPT ![p] = o]
      BY <1>1, <2>3 DEF CheckApproved
    <3> HIDE DEF o
    <3>5. req' \in [Procs -> Request] /\ RequestsSound'
      BY <3>3, <3>4, RequestChange
    <3> QED BY <1>1, <3>5, ReadInv DEF CheckApproved
  <2>4. CASE ~ MayPass(Reached(p), About(p))
    BY <1>1, <2>4, Answered, ReadInv DEF CheckApproved
  <2> QED BY <2>3, <2>4
<1>2. ASSUME FindToEnlist(p) PROVE IInv'
  <2> DEFINE id == Find(Canon[Reached(p)])
             r  == [req[p] EXCEPT !.stage = "class.enlist", !.target = id]
  <2>1. req[p].stage = "class.enrol" /\ req[p].stage \in ClassStages
    BY <1>2 DEF FindToEnlist, At, ClassStages
  <2>2. id \in Nat
    BY FindType
  <2>3. req' = [req EXCEPT ![p].stage = "class.enlist", ![p].target = id]
    BY <1>2 DEF FindToEnlist
  <2> HIDE DEF id
  <2>4. r \in Request /\ req' = [req EXCEPT ![p] = r]
    <3>1. req \in [Procs -> Request] /\ req[p] \in Request /\ "class.enlist" \in Stages
      BY <2>1, ClassRequest DEF Stages
    <3>2. r \in Request
      BY <2>2, <3>1 DEF Request
    <3> QED BY <2>3, <3>1, <3>2 DEF Request
  <2>5. /\ r.stage = "class.enlist" /\ r.call = req[p].call /\ r.at = req[p].at
    BY <2>1, ClassRequest DEF Request
  <2> HIDE DEF r
  <2>6. RequestSound(r)
    <3>1. r.call.about \in CourseNames /\ r.at \in DOMAIN r.call.nicks
      BY <2>1, <2>5, ClassRequest DEF About
    <3>2. \A i \in DOMAIN r.call.nicks : Known(r.call, i)
      BY <2>1, <2>5, ClassRequest DEF RequestSound
    <3> QED BY <2>5, <3>1, <3>2, ClassSound DEF ClassStages
  <2>7. req' \in [Procs -> Request] /\ RequestsSound'
    BY <2>4, <2>6, RequestChange
  <2> QED BY <1>2, <2>7, ReadInv DEF FindToEnlist
<1>3. ASSUME Enlist(p) PROVE IInv'
  <2> DEFINE o  == Onward(p, "class.enrol", "class.collect")
             r  == [o EXCEPT !.target = NoId]
             nick == Canon[Reached(p)]
             id == Find(nick)
  <2>1. req[p].stage = "class.enlist" /\ req[p].stage \in ClassStages
    BY <1>3 DEF Enlist, At, ClassStages
  <2>2. o \in Request /\ RequestSound(o)
    BY <2>1, OnwardType DEF ClassStages
  <2>3. Answer(p) \/ req' = [req EXCEPT ![p] = r]
    BY <1>3 DEF Enlist
  <2>4. req' \in [Procs -> Request] /\ RequestsSound'
    <3> HIDE DEF o
    <3>1. r \in Request /\ RequestSound(r)
      BY <2>2 DEF Request, RequestSound, NoId
    <3> HIDE DEF r
    <3> QED BY <2>3, <3>1, RequestChange, Answered
  <2>5. nick \in Nicks
    BY <2>1, ClassRequest
  <2>6. id \in Nat /\ (id # NoId => id \in DOMAIN member /\ member[id] \in MemberRow)
    BY FindType
  <2>7. created' \in Nat /\ DOMAIN member' \subseteq 1..created'
        /\ member' \in [DOMAIN member' -> MemberRow]
    <3>0. /\ created \in Nat /\ DOMAIN member \subseteq 1..created
          /\ member \in [DOMAIN member -> MemberRow]
      BY DEF IInv, TablesTyped
    <3>1. CASE member' = Joined(NewRow(nick, "Soldado")) /\ created' = created + 1
      <4>1. NewRow(nick, "Soldado") \in MemberRow
        BY <2>5, CallsAssumption DEF NewRow, MemberRow
      <4> QED BY <3>0, <3>1, <4>1 DEF Joined
    <3>2. CASE id # NoId /\ member' = [member EXCEPT ![id] = EnlistedRow(@)]
               /\ UNCHANGED created
      <4>1. EnlistedRow(member[id]) \in MemberRow
        BY <2>6, <3>2, CallsAssumption DEF EnlistedRow, MemberRow
      <4>2. member' = [member EXCEPT ![id] = EnlistedRow(member[id])]
        BY <3>2
      <4> QED BY <2>6, <3>0, <3>2, <4>1, <4>2
    <3>3. CASE UNCHANGED <<member, created>>
      BY <3>0, <3>3
    <3> QED BY <1>3, <3>1, <3>2, <3>3 DEF Enlist
  <2> QED BY <1>3, <2>4, <2>7 DEF Enlist, IInv, TablesTyped, wardrobe
<1>4. ASSUME CollectApproved(p) PROVE IInv'
  <2> DEFINE id == Find(Canon[Reached(p)])
             o  == Onward(p, "class.collect", "class.settle")
             todo == {"permissions", "log", "class"}
             r  == [o EXCEPT !.ids = Append(@, id), !.todo = todo]
  <2>1. req[p].stage = "class.collect" /\ req[p].stage \in ClassStages
    BY <1>4 DEF CollectApproved, At, ClassStages
  <2>2. o \in Request /\ RequestSound(o)
    BY <2>1, OnwardType DEF ClassStages
  <2>3. id \in Nat
    BY FindType
  <2>4. Answer(p) \/ req' = [req EXCEPT ![p] = r]
    BY <1>4 DEF CollectApproved
  <2>5. req' \in [Procs -> Request] /\ RequestsSound'
    <3> HIDE DEF o, id
    <3>1. Append(o.ids, id) \in Seq(Nat)
      BY <2>2, <2>3, AppendProperties DEF Request
    <3>2. todo \in SUBSET Writes
      BY DEF Writes
    <3> HIDE DEF todo
    <3>3. r \in Request /\ r.stage = o.stage /\ r.call = o.call /\ r.at = o.at
      BY <2>2, <3>1, <3>2 DEF Request
    <3> HIDE DEF r
    <3>4. RequestSound(r)
      BY <2>2, <3>3 DEF RequestSound
    <3> QED BY <2>4, <3>3, <3>4, RequestChange, Answered
  <2> QED BY <1>4, <2>5, ReadInv DEF CollectApproved
<1> QED BY <1>1, <1>2, <1>3, <1>4

(* One write of a Promise.all is over.                                     *)
LEMMA SettledType ==
    ASSUME IInv, NEW p \in Procs, NEW w, Settle(p, w)
    PROVE  req' \in [Procs -> Request] /\ RequestsSound'
<1> DEFINE left == req[p].todo \ {w}
           r == [req[p] EXCEPT !.todo = left]
<1>1. req \in [Procs -> Request] /\ req[p] \in Request /\ RequestSound(req[p])
  BY DEF IInv, TablesTyped, RequestsSound
<1>2. Answer(p) \/ req' = [req EXCEPT ![p] = r]
  BY <1>1 DEF Settle, Request
<1>3. left \in SUBSET Writes
  BY <1>1 DEF Request
<1> HIDE DEF left
<1>4. r \in Request /\ r.stage = req[p].stage /\ r.call = req[p].call /\ r.at = req[p].at
  BY <1>1, <1>3 DEF Request
<1> HIDE DEF r
<1>5. RequestSound(r)
  BY <1>1, <1>4 DEF RequestSound
<1> QED BY <1>2, <1>4, <1>5, RequestChange, Answered

LEMMA ClassSettleInv ==
    ASSUME IInv, NEW p \in Procs
    PROVE  /\ GiveCourses(p) => IInv'
           /\ LogApproved(p) => IInv'
           /\ RecordClass(p) => IInv'
<1>1. ASSUME GiveCourses(p) PROVE IInv'
  <2>1. req' \in [Procs -> Request] /\ RequestsSound'
    BY <1>1, SettledType DEF GiveCourses
  <2>2. req[p].stage \in ClassStages
    BY <1>1 DEF GiveCourses, At, ClassStages
  <2>3. req[p].ids \in Seq(Nat) /\ About(p) \in CourseNames
    BY <2>2, ClassRequest DEF Request
  <2>4. Range(req[p].ids) \subseteq Nat
    BY <2>3, LenProperties, ElementOfSeq DEF Range
  <2>5. \A g \in Given(About(p)) : g.name = About(p) /\ g.type \in {"COURSE", "OTHER"}
    BY DEF Given
  <2>6. GivenRows(req[p].ids, About(p)) \subseteq HeldRow
    BY <2>3, <2>4, <2>5 DEF GivenRows, HeldRow
  <2> QED BY <1>1, <2>1, <2>6 DEF GiveCourses, IInv, TablesTyped, wardrobe
<1>2. ASSUME LogApproved(p) PROVE IInv'
  <2>1. req' \in [Procs -> Request] /\ RequestsSound'
    BY <1>2, SettledType DEF LogApproved
  <2> QED BY <1>2, <2>1 DEF LogApproved, IInv, TablesTyped, wardrobe
<1>3. ASSUME RecordClass(p) PROVE IInv'
  <2>1. req' \in [Procs -> Request] /\ RequestsSound'
    BY <1>3, SettledType DEF RecordClass
  <2>2. req[p].stage \in ClassStages
    BY <1>3 DEF RecordClass, At, ClassStages
  <2>3. req[p].ids \in Seq(Nat) /\ About(p) \in CourseNames
    BY <2>2, ClassRequest DEF Request
  <2>4. [course |-> About(p), approved |-> Len(req[p].ids)] \in ClassRow
    BY <2>3, LenProperties DEF ClassRow
  <2>5. classes' \in Seq(ClassRow)
    BY <1>3, <2>4, AppendProperties DEF RecordClass, IInv, TablesTyped
  <2> QED BY <1>3, <2>1, <2>5 DEF RecordClass, IInv, TablesTyped, wardrobe
<1> QED BY <1>1, <1>2, <1>3

LEMMA DepartamentStepInv ==
    ASSUME IInv, NEW p \in Procs, DepartamentStep(p)
    PROVE  IInv'
BY RoleStepInv, DropStepInv, ClassWalkInv, ClassSettleInv DEF DepartamentStep
-----------------------------------------------------------------------------
(***************************************************************************)
(* UsersService, AuthService and fireUser                                  *)
(***************************************************************************)
(* A call that has been admitted begins with what AuthGuard has read.      *)
LEMMA BeginGuarded ==
    ASSUME IInv, NEW p \in Procs, NEW op, NEW call \in CallsOf(op), Admitted(call),
           NEW stage \in Stages, Begin(p, call, stage, Guarded(call.actor)),
           \A r : r.stage = stage /\ r.call = call /\ r.at = 1 => RequestSound(r)
    PROVE  IInv'
<1> DEFINE r == [Idle EXCEPT !.stage = stage, !.call = call, !.who = Guarded(call.actor)]
<1>1. call \in Call
  BY CallType
<1>2. Guarded(call.actor) \in Guard
  BY <1>1, GuardedType DEF Admitted, Call
<1>3. r.stage = stage /\ r.call = call /\ r.at = 1
  BY DEF Idle
<1>4. RequestSound(r)
  BY <1>3
<1> QED BY <1>1, <1>2, <1>4, BeginInv

LEMMA KnownNick ==
    ASSUME NEW call \in Call, NEW i \in DOMAIN call.nicks, Canon[call.nicks[i]] # NoNick
    PROVE  Known(call, i)
<1>1. call.nicks[i] \in Typed
  BY LenProperties, ElementOfSeq DEF Call
<1> QED BY <1>1, MembersAssumption DEF Known

LEMMA AccountSubmitInv ==
    ASSUME IInv, NEW p \in Procs, AccountSubmit(p)
    PROVE  IInv'
<1> USE DEF RoleStages, ClassStages, HireStages, NickStages, UploadStages, WearStages
<1>1. CASE SubmitFireUser(p)
  <2>1. PICK call \in CallsOf("fireUser") :
           Admitted(call) /\ Begin(p, call, "fire.find", Guarded(call.actor))
    BY <1>1 DEF SubmitFireUser
  <2>2. "fire.find" \in Stages
    BY DEF Stages
  <2>3. \A r : r.stage = "fire.find" /\ r.call = call /\ r.at = 1 => RequestSound(r)
    BY DEF RequestSound
  <2> QED BY <2>1, <2>2, <2>3, BeginGuarded
<1>2. CASE SubmitContractUser(p)
  <2>1. PICK call \in CallsOf("contractUser") :
           /\ Admitted(call) /\ Canon[call.nicks[1]] # NoNick
           /\ Begin(p, call, "contract.find", Guarded(call.actor))
    BY <1>2 DEF SubmitContractUser
  <2>2. "contract.find" \in Stages
    BY DEF Stages
  <2>3. call \in Call /\ call.about \in RoleNames /\ 1 \in DOMAIN call.nicks
    BY CallType DEF CallFits, Ops
  <2>4. Known(call, 1)
    BY <2>1, <2>3, KnownNick
  <2>5. \A r : r.stage = "contract.find" /\ r.call = call /\ r.at = 1 => RequestSound(r)
    BY <2>3, <2>4 DEF RequestSound
  <2> QED BY <2>1, <2>2, <2>5, BeginGuarded
<1>3. CASE SubmitChangeUserNick(p)
  <2>1. PICK call \in CallsOf("changeUserNick") :
           /\ Admitted(call)
           /\ NoNick \notin {Canon[call.nicks[1]], Canon[call.nicks[2]]}
           /\ Begin(p, call, "nick.prev", Guarded(call.actor))
    BY <1>3 DEF SubmitChangeUserNick
  <2>2. "nick.prev" \in Stages
    BY DEF Stages
  <2>3. call \in Call /\ 1 \in DOMAIN call.nicks /\ 2 \in DOMAIN call.nicks
    BY CallType DEF CallFits, Ops
  <2>4. Known(call, 1) /\ Known(call, 2)
    BY <2>1, <2>3, KnownNick
  <2>5. \A r : r.stage = "nick.prev" /\ r.call = call /\ r.at = 1 => RequestSound(r)
    BY <2>4 DEF RequestSound
  <2> QED BY <2>1, <2>2, <2>5, BeginGuarded
<1>4. CASE SubmitSession(p)
  <2>1. PICK call \in CallsOf("createAuthSession") : Begin(p, call, "session.create", Nobody)
    BY <1>4 DEF SubmitSession
  <2>2. "session.create" \in Stages /\ call \in Call
    BY CallType DEF Stages
  <2>3. RequestSound([Idle EXCEPT !.stage = "session.create", !.call = call, !.who = Nobody])
    BY DEF RequestSound, Idle
  <2> QED BY <2>1, <2>2, <2>3, NobodyType, BeginInv
<1>5. CASE SubmitCode(p)
  <2>1. PICK op \in CodeOps : \E call \in CallsOf(op) : Begin(p, call, "code.user", Nobody)
    BY <1>5 DEF SubmitCode
  <2>2. PICK call \in CallsOf(op) : Begin(p, call, "code.user", Nobody)
    BY <2>1
  <2>3. "code.user" \in Stages /\ call \in Call
    BY CallType DEF Stages
  <2>4. RequestSound([Idle EXCEPT !.stage = "code.user", !.call = call, !.who = Nobody])
    BY DEF RequestSound, Idle
  <2> QED BY <2>2, <2>3, <2>4, NobodyType, BeginInv
<1> QED
  BY <1>1, <1>2, <1>3, <1>4, <1>5 DEF AccountSubmit

(* The row of a member changes into another row.                           *)
LEMMA RowChange ==
    ASSUME IInv, NEW id \in DOMAIN member, NEW row \in MemberRow,
           member' = [member EXCEPT ![id] = row], UNCHANGED created
    PROVE  /\ created' \in Nat /\ DOMAIN member' \subseteq 1..created'
           /\ member' \in [DOMAIN member' -> MemberRow]
BY DEF IInv, TablesTyped

(* Another stage of the same handler.                                      *)
LEMMA NextStage ==
    ASSUME IInv, NEW p \in Procs, NEW stage \in Stages \ {"drop.delete", "rank.find", "rank.cfo", "rank.settle"},
           NEW target \in Nat, NEW other \in Nat, NEW todo \in SUBSET Writes,
           stage \notin RoleStages \cup ClassStages \cup UploadStages \cup WearStages,
           stage \in HireStages => req[p].stage \in HireStages,
           stage \in NickStages => req[p].stage \in NickStages,
           req' = [req EXCEPT ![p] = [req[p] EXCEPT
                     !.stage = stage, !.target = target, !.other = other, !.todo = todo]]
    PROVE  req' \in [Procs -> Request] /\ RequestsSound'
<1> DEFINE r == [req[p] EXCEPT !.stage = stage, !.target = target,
                               !.other = other, !.todo = todo]
<1>1. req[p] \in Request /\ RequestSound(req[p])
  BY DEF IInv, TablesTyped, RequestsSound
<1>2. r \in Request /\ r.stage = stage /\ r.call = req[p].call
  BY <1>1 DEF Request
<1>3. req' = [req EXCEPT ![p] = r]
  OBVIOUS
<1> HIDE DEF r
<1>4. RequestSound(r)
  BY <1>1, <1>2 DEF RequestSound
<1> QED BY <1>2, <1>3, <1>4, RequestChange

LEMMA FireStepInv ==
    ASSUME IInv, NEW p \in Procs
    PROVE  /\ FindToFire(p) => IInv'
           /\ Dismiss(p) => IInv'
           /\ LogDismissal(p) => IInv'
           /\ TakePermissions(p) => IInv'
           /\ TakePosts(p) => IInv'
<1>0. req \in [Procs -> Request] /\ req[p] \in Request
  BY DEF IInv, TablesTyped
<1>1. ASSUME FindToFire(p) PROVE IInv'
  <2> DEFINE id == Find(Spelled(req[p].call.nicks[1]))
  <2>1. \/ req' = [req EXCEPT ![p].stage = "fire.settle", ![p].target = id,
                              ![p].todo = FireWrites]
        \/ Answer(p)
    BY <1>1 DEF FindToFire
  <2>2. id \in Nat /\ req[p].other \in Nat /\ FireWrites \in SUBSET Writes
    BY <1>0, FindType DEF Request, FireWrites, Writes
  <2>3. "fire.settle" \in Stages
    BY DEF Stages, Settling
  <2> HIDE DEF id
  <2>4. CASE req' = [req EXCEPT ![p].stage = "fire.settle", ![p].target = id,
                                ![p].todo = FireWrites]
    <3>1. req' = [req EXCEPT ![p] = [req[p] EXCEPT
                    !.stage = "fire.settle", !.target = id, !.other = req[p].other,
                    !.todo = FireWrites]]
      BY <1>0, <2>4 DEF Request
    <3>2. req' \in [Procs -> Request] /\ RequestsSound'
      <4>1. "fire.settle" \notin RoleStages \cup ClassStages \cup UploadStages
              \cup WearStages \cup HireStages \cup NickStages \cup {"drop.delete"}
        BY DEF RoleStages, ClassStages, UploadStages, WearStages, HireStages, NickStages
      <4> QED BY <2>2, <2>3, <3>1, <4>1, NextStage
    <3> QED BY <1>1, <3>2, ReadInv DEF FindToFire
  <2>5. CASE Answer(p)
    BY <1>1, <2>5, Answered, ReadInv DEF FindToFire
  <2> QED BY <2>1, <2>4, <2>5
<1>2. ASSUME Dismiss(p) PROVE IInv'
  <2> DEFINE id == Find(Spelled(req[p].call.nicks[1]))
  <2>1. req' \in [Procs -> Request] /\ RequestsSound'
    BY <1>2, SettledType DEF Dismiss
  <2>2. id # NoId => id \in DOMAIN member /\ member[id] \in MemberRow
    BY FindType
  <2>3. CASE id # NoId
    <3>1. Dismissed(member[id]) \in MemberRow
      BY <2>2, <2>3, RolesAssumption DEF Dismissed, MemberRow
    <3>2. member' = [member EXCEPT ![id] = Dismissed(member[id])] /\ UNCHANGED created
      BY <1>2, <2>3 DEF Dismiss
    <3>3. /\ created' \in Nat /\ DOMAIN member' \subseteq 1..created'
          /\ member' \in [DOMAIN member' -> MemberRow]
      BY <2>2, <2>3, <3>1, <3>2, RowChange
    <3> QED BY <1>2, <2>1, <3>3 DEF Dismiss, IInv, TablesTyped, wardrobe
  <2>4. CASE id = NoId
    BY <1>2, <2>1, <2>4 DEF Dismiss, IInv, TablesTyped, wardrobe
  <2> QED BY <2>3, <2>4
<1>3. ASSUME LogDismissal(p) PROVE IInv'
  <2>1. req' \in [Procs -> Request] /\ RequestsSound'
    BY <1>3, SettledType DEF LogDismissal
  <2> QED BY <1>3, <2>1 DEF LogDismissal, IInv, TablesTyped, wardrobe
<1>4. ASSUME TakePermissions(p) PROVE IInv'
  <2>1. req' \in [Procs -> Request] /\ RequestsSound'
    BY <1>4, SettledType DEF TakePermissions
  <2> QED BY <1>4, <2>1 DEF TakePermissions, IInv, TablesTyped, wardrobe
<1>5. ASSUME TakePosts(p) PROVE IInv'
  <2>1. req' \in [Procs -> Request] /\ RequestsSound'
    BY <1>5, SettledType DEF TakePosts
  <2> QED BY <1>5, <2>1 DEF TakePosts, IInv, TablesTyped, wardrobe
<1> QED BY <1>1, <1>2, <1>3, <1>4, <1>5

LEMMA HireStepInv ==
    ASSUME IInv, NEW p \in Procs
    PROVE  /\ FindToContract(p) => IInv'
           /\ ContractWrite(p) => IInv'
           /\ LogContract(p) => IInv'
<1>0. /\ req \in [Procs -> Request] /\ req[p] \in Request /\ RequestSound(req[p])
      /\ req[p].other \in Nat /\ req[p].target \in Nat /\ req[p].todo \in SUBSET Writes
  BY DEF IInv, TablesTyped, RequestsSound, Request
<1> DEFINE To(stage, id) ==
      req' = [req EXCEPT ![p] = [req[p] EXCEPT
               !.stage = stage, !.target = id, !.other = req[p].other,
               !.todo = req[p].todo]]
<1>a. ASSUME NEW stage \in {"contract.write", "contract.log"}, NEW id \in Nat,
             req[p].stage \in HireStages, To(stage, id)
      PROVE  req' \in [Procs -> Request] /\ RequestsSound'
  <2>1. /\ stage \in Stages \ {"drop.delete"}
        /\ stage \notin RoleStages \cup ClassStages \cup UploadStages \cup WearStages
        /\ stage \notin NickStages
    BY DEF Stages, RoleStages, ClassStages, UploadStages, WearStages, NickStages
  <2> QED BY <1>0, <1>a, <2>1, NextStage
<1>1. ASSUME FindToContract(p) PROVE IInv'
  <2> DEFINE id == Find(NickIn(p, 1))
  <2>1. id \in Nat /\ req[p].stage \in HireStages
    BY <1>1, FindType DEF FindToContract, At, HireStages
  <2>2. req' = [req EXCEPT ![p].stage = "contract.write", ![p].target = id]
    BY <1>1 DEF FindToContract
  <2> HIDE DEF id
  <2>3. To("contract.write", id)
    BY <1>0, <2>2 DEF Request
  <2>4. req' \in [Procs -> Request] /\ RequestsSound'
    BY <1>a, <2>1, <2>3
  <2> QED BY <1>1, <2>4, ReadInv DEF FindToContract
<1>2. ASSUME ContractWrite(p) PROVE IInv'
  <2> DEFINE id == req[p].target
  <2>1. req[p].stage \in HireStages
    BY <1>2 DEF ContractWrite, At, HireStages
  <2>2. Role(p) \in RoleNames /\ NickIn(p, 1) \in Nicks
    BY <1>0, <2>1 DEF RequestSound, Role, NickIn, Known
  <2>3. created \in Nat /\ DOMAIN member \subseteq 1..created
        /\ member \in [DOMAIN member -> MemberRow]
    BY DEF IInv, TablesTyped
  <2>4. CASE /\ member' = Joined(NewRow(NickIn(p, 1), Role(p)))
             /\ created' = created + 1
             /\ req' = [req EXCEPT ![p].stage = "contract.log", ![p].target = created + 1]
    <3>1. NewRow(NickIn(p, 1), Role(p)) \in MemberRow
      BY <2>2 DEF NewRow, MemberRow
    <3>2. /\ created' \in Nat /\ DOMAIN member' \subseteq 1..created'
          /\ member' \in [DOMAIN member' -> MemberRow]
      <4> DEFINE row == NewRow(NickIn(p, 1), Role(p))
      <4> HIDE DEF row
      <4>1. row \in MemberRow
        BY <3>1 DEF row
      <4>2. member' = Joined(row)
        BY <2>4 DEF row
      <4> QED BY <2>3, <2>4, <4>1, <4>2 DEF Joined
    <3>3. created + 1 \in Nat
      BY <2>3
    <3>4. To("contract.log", created + 1)
      BY <1>0, <2>4, <3>3 DEF Request
    <3>5. req' \in [Procs -> Request] /\ RequestsSound'
      BY <1>a, <2>1, <3>3, <3>4
    <3> QED BY <1>2, <3>2, <3>5 DEF ContractWrite, IInv, TablesTyped, wardrobe
  <2>5. CASE /\ id \in DOMAIN member
             /\ member' = [member EXCEPT ![id].roleName = Role(p)]
             /\ Goto(p, "contract.log")
             /\ UNCHANGED created
    <3> DEFINE row == [member[id] EXCEPT !.roleName = Role(p)]
    <3>1. row \in MemberRow
      BY <2>2, <2>3, <2>5 DEF MemberRow
    <3>2. member' = [member EXCEPT ![id] = row]
      BY <2>5
    <3>3. /\ created' \in Nat /\ DOMAIN member' \subseteq 1..created'
          /\ member' \in [DOMAIN member' -> MemberRow]
      BY <2>5, <3>1, <3>2, RowChange
    <3>4. To("contract.log", id)
      BY <1>0, <2>5 DEF Request, Goto
    <3>5. req' \in [Procs -> Request] /\ RequestsSound'
      BY <1>0, <1>a, <2>1, <3>4
    <3> QED BY <1>2, <3>3, <3>5 DEF ContractWrite, IInv, TablesTyped, wardrobe
  <2>6. CASE Answer(p) /\ UNCHANGED <<member, created>>
    <3>1. req' \in [Procs -> Request] /\ RequestsSound'
      BY <2>6, Answered
    <3> QED BY <1>2, <2>6, <3>1 DEF ContractWrite, IInv, TablesTyped, wardrobe
  <2> QED BY <1>2, <2>4, <2>5, <2>6 DEF ContractWrite
<1>3. ASSUME LogContract(p) PROVE IInv'
  <2>1. req' \in [Procs -> Request] /\ RequestsSound'
    BY <1>3, Answered DEF LogContract
  <2> QED BY <1>3, <2>1 DEF LogContract, IInv, TablesTyped, wardrobe
<1> QED BY <1>1, <1>2, <1>3

LEMMA NickStepInv ==
    ASSUME IInv, NEW p \in Procs
    PROVE  /\ FindPrevious(p) => IInv'
           /\ FindNew(p) => IInv'
           /\ MoveHistory(p) => IInv'
           /\ DeleteMember(p) => IInv'
           /\ Rename(p) => IInv'
           /\ LogRename(p) => IInv'
<1>0. /\ req \in [Procs -> Request] /\ req[p] \in Request /\ RequestSound(req[p])
      /\ req[p].other \in Nat /\ req[p].target \in Nat /\ req[p].todo \in SUBSET Writes
  BY DEF IInv, TablesTyped, RequestsSound, Request
<1> DEFINE To(stage, id, other) ==
      req' = [req EXCEPT ![p] = [req[p] EXCEPT
               !.stage = stage, !.target = id, !.other = other, !.todo = req[p].todo]]
<1>a. ASSUME NEW stage \in NickStages, NEW id \in Nat, NEW other \in Nat,
             req[p].stage \in NickStages, To(stage, id, other)
      PROVE  req' \in [Procs -> Request] /\ RequestsSound'
  <2>1. /\ stage \in Stages \ {"drop.delete", "rank.find", "rank.cfo", "rank.settle"}
        /\ stage \notin RoleStages \cup ClassStages \cup UploadStages \cup WearStages
        /\ stage \notin HireStages
    BY DEF Stages, RoleStages, ClassStages, UploadStages, WearStages, NickStages, HireStages
  <2> QED BY <1>0, <1>a, <2>1, NextStage
<1>b. ASSUME NEW stage \in NickStages, req[p].stage \in NickStages, Goto(p, stage)
      PROVE  req' \in [Procs -> Request] /\ RequestsSound'
  <2>1. To(stage, req[p].target, req[p].other)
    BY <1>0, <1>b DEF Goto, Request
  <2> QED BY <1>0, <1>a, <1>b, <2>1
<1>1. ASSUME FindPrevious(p) PROVE IInv'
  <2> DEFINE id == Find(NickIn(p, 1))
  <2>1. id \in Nat /\ req[p].stage \in NickStages
    BY <1>1, FindType DEF FindPrevious, At, NickStages
  <2>2. \/ req' = [req EXCEPT ![p].stage = "nick.new", ![p].target = id]
        \/ Answer(p)
    BY <1>1 DEF FindPrevious
  <2> HIDE DEF id
  <2>3. CASE req' = [req EXCEPT ![p].stage = "nick.new", ![p].target = id]
    <3>1. To("nick.new", id, req[p].other) /\ "nick.new" \in NickStages
      BY <1>0, <2>3 DEF Request, NickStages
    <3>2. req' \in [Procs -> Request] /\ RequestsSound'
      BY <1>0, <1>a, <2>1, <3>1
    <3> QED BY <1>1, <3>2, ReadInv DEF FindPrevious
  <2>4. CASE Answer(p)
    BY <1>1, <2>4, Answered, ReadInv DEF FindPrevious
  <2> QED BY <2>2, <2>3, <2>4
<1>2. ASSUME FindNew(p) PROVE IInv'
  <2> DEFINE id == Find(NickIn(p, 2))
  <2>1. id \in Nat /\ req[p].stage \in NickStages
    BY <1>2, FindType DEF FindNew, At, NickStages
  <2>2. \/ Goto(p, "nick.update")
        \/ req' = [req EXCEPT ![p].stage = "nick.move", ![p].other = id]
        \/ Answer(p)
    BY <1>2 DEF FindNew
  <2> HIDE DEF id
  <2>3. CASE req' = [req EXCEPT ![p].stage = "nick.move", ![p].other = id]
    <3>1. To("nick.move", req[p].target, id) /\ "nick.move" \in NickStages
      BY <1>0, <2>3 DEF Request, NickStages
    <3>2. req' \in [Procs -> Request] /\ RequestsSound'
      BY <1>0, <1>a, <2>1, <3>1
    <3> QED BY <1>2, <3>2, ReadInv DEF FindNew
  <2>4. CASE Goto(p, "nick.update")
    <3>1. "nick.update" \in NickStages
      BY DEF NickStages
    <3>2. req' \in [Procs -> Request] /\ RequestsSound'
      BY <1>b, <2>1, <2>4, <3>1
    <3> QED BY <1>2, <3>2, ReadInv DEF FindNew
  <2>5. CASE Answer(p)
    BY <1>2, <2>5, Answered, ReadInv DEF FindNew
  <2> QED BY <2>2, <2>3, <2>4, <2>5
<1>3. ASSUME MoveHistory(p) PROVE IInv'
  <2>1. req[p].stage \in NickStages /\ "nick.delete" \in NickStages
    BY <1>3 DEF MoveHistory, At, NickStages
  <2>2. Goto(p, "nick.delete") \/ Answer(p)
    BY <1>3 DEF MoveHistory
  <2>3. req' \in [Procs -> Request] /\ RequestsSound'
    BY <1>b, <2>1, <2>2, Answered
  <2> QED BY <1>3, <2>3 DEF MoveHistory, IInv, TablesTyped, wardrobe
<1>4. ASSUME DeleteMember(p) PROVE IInv'
  <2>1. req[p].stage \in NickStages /\ "nick.update" \in NickStages
    BY <1>4 DEF DeleteMember, At, NickStages
  <2>2. Goto(p, "nick.update") \/ Answer(p)
    BY <1>4 DEF DeleteMember
  <2>3. req' \in [Procs -> Request] /\ RequestsSound'
    BY <1>b, <2>1, <2>2, Answered
  <2>4. /\ DOMAIN member' \subseteq 1..created
        /\ member' \in [DOMAIN member' -> MemberRow]
        /\ posts' \subseteq posts /\ held' \subseteq held /\ worn' \subseteq worn
    <3>1. DOMAIN member \subseteq 1..created /\ member \in [DOMAIN member -> MemberRow]
      BY DEF IInv, TablesTyped
    <3>2. CASE UNCHANGED <<member, posts, held, worn>>
      BY <3>1, <3>2
    <3>3. CASE /\ member' = Restrict(member, DOMAIN member \ {req[p].other})
               /\ posts'  = posts \ RowsOf(posts, req[p].other)
               /\ held'   = held \ RowsOf(held, req[p].other)
               /\ worn'   = worn \ RowsOf(worn, req[p].other)
      BY <3>1, <3>3 DEF Restrict
    <3> QED BY <1>4, <3>2, <3>3 DEF DeleteMember
  <2> QED BY <1>4, <2>3, <2>4 DEF DeleteMember, IInv, TablesTyped
<1>5. ASSUME Rename(p) PROVE IInv'
  <2> DEFINE id  == Find(NickIn(p, 1))
             row == [member[id] EXCEPT !.nick = NickIn(p, 2)]
  <2>1. req[p].stage \in NickStages /\ "nick.log" \in NickStages
    BY <1>5 DEF Rename, At, NickStages
  <2>2. CASE id # NoId /\ member' = [member EXCEPT ![id].nick = NickIn(p, 2)]
             /\ Goto(p, "nick.log")
    <3>1. id \in DOMAIN member /\ member[id] \in MemberRow
      BY <2>2, FindType
    <3>2. NickIn(p, 2) \in Nicks
      BY <1>0, <2>1 DEF RequestSound, Known, NickIn
    <3> HIDE DEF id
    <3>3. row \in MemberRow /\ member' = [member EXCEPT ![id] = row] /\ UNCHANGED created
      BY <1>5, <2>2, <3>1, <3>2 DEF MemberRow, Rename
    <3> HIDE DEF row
    <3>4. /\ created' \in Nat /\ DOMAIN member' \subseteq 1..created'
          /\ member' \in [DOMAIN member' -> MemberRow]
      BY <3>1, <3>3, RowChange
    <3>5. req' \in [Procs -> Request] /\ RequestsSound'
      BY <1>b, <2>1, <2>2
    <3> QED BY <1>5, <3>4, <3>5 DEF Rename, IInv, TablesTyped, wardrobe
  <2>3. CASE Answer(p) /\ UNCHANGED member
    <3>1. req' \in [Procs -> Request] /\ RequestsSound'
      BY <2>3, Answered
    <3> QED BY <1>5, <2>3, <3>1 DEF Rename, IInv, TablesTyped, wardrobe
  <2> QED BY <1>5, <2>2, <2>3 DEF Rename, ToRename
<1>6. ASSUME LogRename(p) PROVE IInv'
  <2>1. req' \in [Procs -> Request] /\ RequestsSound'
    BY <1>6, Answered DEF LogRename
  <2> QED BY <1>6, <2>1 DEF LogRename, IInv, TablesTyped, wardrobe
<1> QED BY <1>1, <1>2, <1>3, <1>4, <1>5, <1>6

LEMMA CodeStepInv ==
    ASSUME IInv, NEW p \in Procs
    PROVE  /\ CreateSession(p) => IInv'
           /\ FindToUnlock(p) => IInv'
           /\ ReadSession(p) => IInv'
           /\ Unlock(p) => IInv'
<1>0. /\ req \in [Procs -> Request] /\ req[p] \in Request
      /\ req[p].other \in Nat /\ req[p].target \in Nat /\ req[p].todo \in SUBSET Writes
  BY DEF IInv, TablesTyped, Request
<1> DEFINE To(stage, id) ==
      req' = [req EXCEPT ![p] = [req[p] EXCEPT
               !.stage = stage, !.target = id, !.other = req[p].other,
               !.todo = req[p].todo]]
<1>a. ASSUME NEW stage \in {"code.session", "code.update"}, NEW id \in Nat, To(stage, id)
      PROVE  req' \in [Procs -> Request] /\ RequestsSound'
  <2>1. /\ stage \in Stages \ {"drop.delete"}
        /\ stage \notin RoleStages \cup ClassStages \cup UploadStages \cup WearStages
        /\ stage \notin HireStages \cup NickStages
    BY DEF Stages, RoleStages, ClassStages, UploadStages, WearStages, NickStages, HireStages
  <2> QED BY <1>0, <1>a, <2>1, NextStage
<1>1. ASSUME CreateSession(p) PROVE IInv'
  <2>1. req' \in [Procs -> Request] /\ RequestsSound'
    BY <1>1, Answered DEF CreateSession
  <2>2. now + SessionLife \in Nat /\ sessions \in Seq(Nat)
    BY MembersAssumption DEF IInv, TablesTyped
  <2>3. sessions' \in Seq(Nat)
    BY <1>1, <2>2, AppendProperties DEF CreateSession
  <2> QED BY <1>1, <2>1, <2>3 DEF CreateSession, IInv, TablesTyped, people, wardrobe
<1>2. ASSUME FindToUnlock(p) PROVE IInv'
  <2> DEFINE id == Find(req[p].call.nicks[1])
  <2>1. id \in Nat
    BY FindType
  <2>2. \/ req' = [req EXCEPT ![p].stage = "code.session", ![p].target = id]
        \/ Answer(p)
    BY <1>2 DEF FindToUnlock
  <2> HIDE DEF id
  <2>3. CASE req' = [req EXCEPT ![p].stage = "code.session", ![p].target = id]
    <3>1. To("code.session", id)
      BY <1>0, <2>3 DEF Request
    <3>2. req' \in [Procs -> Request] /\ RequestsSound'
      BY <1>a, <2>1, <3>1
    <3> QED BY <1>2, <3>2, ReadInv DEF FindToUnlock
  <2>4. CASE Answer(p)
    BY <1>2, <2>4, Answered, ReadInv DEF FindToUnlock
  <2> QED BY <2>2, <2>3, <2>4
<1>3. ASSUME ReadSession(p) PROVE IInv'
  <2>1. Goto(p, "code.update") \/ Answer(p)
    BY <1>3 DEF ReadSession
  <2>2. CASE Goto(p, "code.update")
    <3>1. To("code.update", req[p].target)
      BY <1>0, <2>2 DEF Goto, Request
    <3>2. req' \in [Procs -> Request] /\ RequestsSound'
      BY <1>0, <1>a, <3>1
    <3> QED BY <1>3, <3>2, ReadInv DEF ReadSession
  <2>3. CASE Answer(p)
    BY <1>3, <2>3, Answered, ReadInv DEF ReadSession
  <2> QED BY <2>1, <2>2, <2>3
<1>4. ASSUME Unlock(p) PROVE IInv'
  <2> DEFINE id  == Find(req[p].call.nicks[1])
             row == [member[id] EXCEPT !.isAccountActive = TRUE]
  <2>1. req' \in [Procs -> Request] /\ RequestsSound'
    BY <1>4, Answered DEF Unlock
  <2>2. CASE UNCHANGED member
    BY <1>4, <2>1, <2>2 DEF Unlock, IInv, TablesTyped, wardrobe
  <2>3. CASE id # NoId /\ member' = [member EXCEPT ![id].isAccountActive = TRUE]
    <3>1. id \in DOMAIN member /\ member[id] \in MemberRow
      BY <2>3, FindType
    <3> HIDE DEF id
    <3>2. row \in MemberRow /\ member' = [member EXCEPT ![id] = row] /\ UNCHANGED created
      BY <1>4, <2>3, <3>1 DEF MemberRow, Unlock
    <3> HIDE DEF row
    <3>3. /\ created' \in Nat /\ DOMAIN member' \subseteq 1..created'
          /\ member' \in [DOMAIN member' -> MemberRow]
      BY <3>1, <3>2, RowChange
    <3> QED BY <1>4, <2>1, <3>3 DEF Unlock, IInv, TablesTyped, wardrobe
  <2> QED BY <1>4, <2>2, <2>3 DEF Unlock
<1> QED BY <1>1, <1>2, <1>3, <1>4

LEMMA AccountStepInv ==
    ASSUME IInv, NEW p \in Procs, AccountStep(p)
    PROVE  IInv'
BY FireStepInv, HireStepInv, NickStepInv, CodeStepInv DEF AccountStep
-----------------------------------------------------------------------------
(***************************************************************************)
(* promoteUser and demoteUser                                              *)
(***************************************************************************)
LEMMA RankSubmitInv ==
    ASSUME IInv, NEW p \in Procs, SubmitRankCall(p)
    PROVE  IInv'
<1>1. PICK op \in RankOps : \E call \in CallsOf(op) :
         Admitted(call) /\ Begin(p, call, "rank.find", Guarded(call.actor))
  BY DEF SubmitRankCall
<1>2. PICK call \in CallsOf(op) :
         Admitted(call) /\ Begin(p, call, "rank.find", Guarded(call.actor))
  BY <1>1
<1>3. "rank.find" \in Stages
  BY DEF Stages
<1>4. call.op = op
  BY CallType
<1>5. \A r : r.stage = "rank.find" /\ r.call = call /\ r.at = 1 => RequestSound(r)
  BY <1>4 DEF RequestSound, RoleStages, ClassStages, HireStages, NickStages, UploadStages, WearStages
<1> QED BY <1>2, <1>3, <1>5, BeginGuarded

(* A rung of the ladder is a role.                                         *)
LEMMA RungType ==
    ASSUME NEW role, NEW steps, RoleAt(role, steps) # NoRole
    PROVE  RoleAt(role, steps) \in Rungs(role, steps) /\ RoleAt(role, steps) \in RoleNames
<1>1. Rungs(role, steps) # {}
  BY DEF RoleAt
<1>2. RoleAt(role, steps) \in Rungs(role, steps)
  BY <1>1 DEF RoleAt
<1> QED BY <1>2 DEF Rungs

(* Whose rank changes is a member, and the new role is one, and no Recruta: *)
(* nobody has a rank below that of a Recruta, and a Soldado is not demoted. *)
LEMMA MayRankSound ==
    ASSUME IInv, NEW op \in RankOps, NEW id, NEW officer, MayRank(op, id, officer)
    PROVE  /\ id \in DOMAIN member
           /\ NextRole(op, member[id].roleName) \in RoleNames \ {"Recruta"}
<1> DEFINE role == member[id].roleName
<1>1. id \in DOMAIN member /\ role \in RoleNames
  BY DEF MayRank, IInv, TablesTyped, MemberRow
<1>2. CASE op = "promoteUser"
  <2>1. NextUp(role) # NoRole
    BY <1>2 DEF MayRank, PromotionPermitted
  <2>2. NextUp(role) \in RoleNames /\ PositionOf(NextUp(role)) = PositionOf(role) + 1
    BY <2>1, RungType DEF NextUp, Rungs
  <2>3. PositionOf(role) \in Nat
    BY <1>1, RolesAssumption DEF PositionOf, RoleRow
  <2>4. NextUp(role) # "Recruta"
    BY <2>2, <2>3, RolesAssumption
  <2> QED BY <1>1, <1>2, <2>2, <2>4 DEF NextRole
<1>3. CASE op # "promoteUser"
  <2>1. NextDown(role) # NoRole /\ role \notin {"Soldado", "Estagiario"}
    BY <1>3 DEF MayRank, PunishmentPermitted, MayPunish, Untouchable
  <2>2. NextDown(role) \in RoleNames
    BY <2>1, RungType DEF NextDown
  <2>3. NextDown(role) # "Recruta"
    BY <1>1, <2>1, SoldadoAssumption
  <2> QED BY <1>1, <1>3, <2>2, <2>3 DEF NextRole
<1> QED BY <1>2, <1>3

(* What the reads of a change of rank find: nobody it may be, or the row,  *)
(* the new role and what there is to write.                                *)
Ranking(p, stage, id, role) ==
    req' = [req EXCEPT ![p].stage = stage, ![p].target = id,
                       ![p].call.about = role, ![p].todo = RankWrites]

LEMMA RankFound ==
    ASSUME NEW p \in Procs, FindToRank(p)
    PROVE  \/ Answer(p)
           \/ \E stage \in {"rank.cfo", "rank.settle"} : \E id, role :
                 /\ Ranking(p, stage, id, role)
                 /\ id = Find(Spelled(req[p].call.nicks[1]))
                 /\ role = NextRole(req[p].call.op, member[id].roleName)
                 /\ MayRank(req[p].call.op, id, Find(req[p].who.nick))
BY DEF FindToRank, FirstWrite, Ranking

LEMMA CareerStepInv ==
    ASSUME IInv, NEW p \in Procs, CareerStep(p)
    PROVE  IInv'
<1>0. req \in [Procs -> Request] /\ req[p] \in Request /\ RequestSound(req[p])
  BY DEF IInv, TablesTyped, RequestsSound
<1>1. ASSUME FindToRank(p) PROVE IInv'
  <2>1. CASE Answer(p)
    BY <1>1, <2>1, Answered, ReadInv DEF FindToRank
  <2>2. ASSUME NEW stage \in {"rank.cfo", "rank.settle"}, NEW id, NEW role,
               Ranking(p, stage, id, role),
               id = Find(Spelled(req[p].call.nicks[1])),
               role = NextRole(req[p].call.op, member[id].roleName),
               MayRank(req[p].call.op, id, Find(req[p].who.nick))
        PROVE  IInv'
    <3> DEFINE c == [req[p].call EXCEPT !.about = role]
               r == [req[p] EXCEPT !.stage = stage, !.target = id, !.call = c,
                                   !.todo = RankWrites]
    <3>1. req[p].call.op \in RankOps
      BY <1>0, <1>1 DEF FindToRank, At, RequestSound
    <3>2. id \in Nat /\ role \in RoleNames \ {"Recruta"}
      BY <2>2, <3>1, FindType, MayRankSound
    <3>3. c \in Call /\ c.about = role
      BY <1>0, <3>2 DEF Request, Call, Subjects
    <3>4. stage \in Stages /\ RankWrites \in SUBSET Writes
      BY DEF Stages, Settling, RankWrites, Writes
    <3>5. r \in Request /\ r.call = c /\ r.stage = stage
      BY <1>0, <3>2, <3>3, <3>4 DEF Request
    <3>6. req' = [req EXCEPT ![p] = r]
      BY <1>0, <2>2 DEF Ranking, Request, Call
    <3> HIDE DEF r
    <3>7. r.stage \in {"rank.cfo", "rank.settle"} /\ r.call.about \in RoleNames \ {"Recruta"}
          /\ r.call.op \in RankOps
      BY <1>0, <3>1, <3>2, <3>3, <3>5 DEF Request, Call
    <3>8. RequestSound(r)
      BY <3>7 DEF RequestSound, RoleStages, ClassStages, HireStages,
                  NickStages, UploadStages, WearStages
    <3> QED BY <1>1, <3>5, <3>6, <3>8, RequestChange, ReadInv DEF FindToRank
  <2> QED BY <1>1, <2>1, <2>2, RankFound
<1>2. ASSUME RevokeCfo(p) PROVE IInv'
  <2> DEFINE r == [req[p] EXCEPT !.stage = "rank.settle"]
  <2>1. req' = [req EXCEPT ![p] = r] /\ r \in Request
    BY <1>0, <1>2 DEF RevokeCfo, Goto, Request, Stages, Settling
  <2>2. RequestSound(r)
    BY <1>0, <1>2 DEF RevokeCfo, At, Request, RequestSound, RoleStages,
          ClassStages, HireStages, NickStages, UploadStages, WearStages
  <2>3. req' \in [Procs -> Request] /\ RequestsSound'
    BY <2>1, <2>2, RequestChange
  <2> QED BY <1>2, <2>3 DEF RevokeCfo, IInv, TablesTyped, wardrobe
<1>3. ASSUME Rerank(p) PROVE IInv'
  <2> DEFINE id == Find(Spelled(req[p].call.nicks[1]))
  <2>1. req' \in [Procs -> Request] /\ RequestsSound'
    BY <1>3, SettledType DEF Rerank
  <2>2. id # NoId => id \in DOMAIN member /\ member[id] \in MemberRow
    BY FindType
  <2>3. Role(p) \in RoleNames
    BY <1>0, <1>3 DEF Rerank, At, RequestSound, Role
  <2>4. CASE id # NoId
    <3> DEFINE row == [member[id] EXCEPT !.roleName = Role(p)]
    <3>1. row \in MemberRow
      BY <2>2, <2>3, <2>4 DEF MemberRow
    <3>2. member' = [member EXCEPT ![id] = row] /\ UNCHANGED created
      BY <1>3, <2>4 DEF Rerank
    <3> HIDE DEF row
    <3>3. /\ created' \in Nat /\ DOMAIN member' \subseteq 1..created'
          /\ member' \in [DOMAIN member' -> MemberRow]
      BY <2>2, <2>4, <3>1, <3>2, RowChange
    <3> QED BY <1>3, <2>1, <3>3 DEF Rerank, IInv, TablesTyped, wardrobe
  <2>5. CASE id = NoId
    BY <1>3, <2>1, <2>5 DEF Rerank, IInv, TablesTyped, wardrobe
  <2> QED BY <2>4, <2>5
<1>4. ASSUME LogRank(p) PROVE IInv'
  <2>1. req' \in [Procs -> Request] /\ RequestsSound'
    BY <1>4, SettledType DEF LogRank
  <2> QED BY <1>4, <2>1 DEF LogRank, IInv, TablesTyped, wardrobe
<1>5. ASSUME TakeCourses(p) PROVE IInv'
  <2>1. req' \in [Procs -> Request] /\ RequestsSound'
    BY <1>5, SettledType DEF TakeCourses
  <2> QED BY <1>5, <2>1 DEF TakeCourses, IInv, TablesTyped, wardrobe
<1> QED BY <1>1, <1>2, <1>3, <1>4, <1>5 DEF CareerStep
-----------------------------------------------------------------------------
(***************************************************************************)
(* CosmeticService                                                         *)
(***************************************************************************)
LEMMA CapeSubmitInv ==
    ASSUME IInv, NEW p \in Procs, CapeSubmit(p)
    PROVE  IInv'
<1> USE DEF RoleStages, ClassStages, HireStages, NickStages, UploadStages, WearStages
<1>1. CASE SubmitCreateCape(p)
  <2>1. PICK call \in CallsOf("createCape") :
           Admitted(call) /\ Begin(p, call, "cape.find", Guarded(call.actor))
    BY <1>1 DEF SubmitCreateCape
  <2>2. "cape.find" \in Stages /\ call.about \in CapeNames /\ call.file \in Files
    BY CallType DEF Stages, CallFits
  <2>3. \A r : r.stage = "cape.find" /\ r.call = call /\ r.at = 1 => RequestSound(r)
    BY <2>2 DEF RequestSound
  <2> QED BY <2>1, <2>2, <2>3, BeginGuarded
<1>2. CASE SubmitAtributeCape(p)
  <2>1. PICK call \in CallsOf("atributeCape") :
           Admitted(call) /\ Begin(p, call, "give.find", Guarded(call.actor))
    BY <1>2 DEF SubmitAtributeCape
  <2>2. "give.find" \in Stages /\ call.about \in CapeNames
    BY CallType DEF Stages, CallFits
  <2>3. \A r : r.stage = "give.find" /\ r.call = call /\ r.at = 1 => RequestSound(r)
    BY <2>2 DEF RequestSound
  <2> QED BY <2>1, <2>2, <2>3, BeginGuarded
<1>3. CASE SubmitChangeUserCape(p)
  <2>1. PICK call \in CallsOf("changeUserCape") :
           Admitted(call) /\ Begin(p, call, "wear.update", Guarded(call.actor))
    BY <1>3 DEF SubmitChangeUserCape
  <2>2. "wear.update" \in Stages /\ call.about \in CapeNames
    BY CallType DEF Stages, CallFits
  <2>3. \A r : r.stage = "wear.update" /\ r.call = call /\ r.at = 1 => RequestSound(r)
    BY <2>2 DEF RequestSound
  <2> QED BY <2>1, <2>2, <2>3, BeginGuarded
<1> QED BY <1>1, <1>2, <1>3 DEF CapeSubmit

LEMMA UploadStepInv ==
    ASSUME IInv, NEW p \in Procs
    PROVE  /\ FindCape(p) => IInv'
           /\ PutPicture(p) => IInv'
           /\ CreateCape(p) => IInv'
<1>0. req \in [Procs -> Request] /\ req[p] \in Request /\ RequestSound(req[p])
  BY DEF IInv, TablesTyped, RequestsSound
<1>a. ASSUME NEW stage \in UploadStages, req[p].stage \in UploadStages, Goto(p, stage)
      PROVE  req' \in [Procs -> Request] /\ RequestsSound'
  <2> DEFINE r == [req[p] EXCEPT !.stage = stage]
  <2>1. stage \in Stages
    BY DEF Stages, UploadStages
  <2>2. req' = [req EXCEPT ![p] = r] /\ r \in Request
    BY <1>0, <1>a, <2>1 DEF Goto, Request
  <2>3. r.stage = stage /\ r.call = req[p].call
    BY <1>0 DEF Request
  <2> HIDE DEF r
  <2>4. r.call.about \in CapeNames /\ r.call.file \in Files
    BY <1>0, <1>a, <2>3 DEF RequestSound
  <2>5. stage \notin {"drop.delete", "rank.find", "rank.cfo", "rank.settle"}
                       \cup RoleStages \cup ClassStages \cup HireStages \cup NickStages
    BY DEF RoleStages, ClassStages, HireStages, NickStages, UploadStages
  <2>6. RequestSound(r)
    BY <2>3, <2>4, <2>5 DEF RequestSound
  <2> QED BY <2>2, <2>6, RequestChange
<1>b. req[p].stage \in UploadStages => Cape(p) \in CapeNames /\ File(p) \in Files
  BY <1>0 DEF RequestSound, Cape, File
<1>1. ASSUME FindCape(p) PROVE IInv'
  <2>1. req[p].stage \in UploadStages /\ "cape.put" \in UploadStages
    BY <1>1 DEF FindCape, At, UploadStages
  <2>2. Answer(p) \/ Goto(p, "cape.put")
    BY <1>1 DEF FindCape
  <2>3. req' \in [Procs -> Request] /\ RequestsSound'
    BY <1>a, <2>1, <2>2, Answered
  <2> QED BY <1>1, <2>3, ReadInv DEF FindCape
<1>2. ASSUME PutPicture(p) PROVE IInv'
  <2>1. req[p].stage \in UploadStages /\ "cape.create" \in UploadStages
    BY <1>2 DEF PutPicture, At, UploadStages
  <2>2. req' \in [Procs -> Request] /\ RequestsSound'
    BY <1>2, <1>a, <2>1 DEF PutPicture
  <2>3. DOMAIN bucket' \subseteq Files /\ bucket' \in [DOMAIN bucket' -> CapeNames]
    BY <1>2, <1>b, <2>1 DEF PutPicture, IInv, TablesTyped
  <2> QED BY <1>2, <2>2, <2>3 DEF PutPicture, IInv, TablesTyped, people
<1>3. ASSUME CreateCape(p) PROVE IInv'
  <2>1. req[p].stage \in UploadStages
    BY <1>3 DEF CreateCape, At, UploadStages
  <2>2. req' \in [Procs -> Request] /\ RequestsSound'
    BY <1>3, Answered DEF CreateCape
  <2>3. capes' \subseteq CapeRow
    BY <1>3, <1>b, <2>1 DEF CreateCape, IInv, TablesTyped, CapeRow
  <2> QED BY <1>3, <2>2, <2>3 DEF CreateCape, IInv, TablesTyped, people
<1> QED BY <1>1, <1>2, <1>3

LEMMA WearStepInv ==
    ASSUME IInv, NEW p \in Procs
    PROVE  /\ FindToGive(p) => IInv'
           /\ GiveCape(p) => IInv'
           /\ WearCape(p) => IInv'
<1>0. req \in [Procs -> Request] /\ req[p] \in Request /\ RequestSound(req[p])
  BY DEF IInv, TablesTyped, RequestsSound
<1>a. req[p].stage \in WearStages => Cape(p) \in CapeNames
  BY <1>0 DEF RequestSound, Cape
<1>1. ASSUME FindToGive(p) PROVE IInv'
  <2> DEFINE id == Find(Canon[req[p].call.nicks[1]])
             r  == [req[p] EXCEPT !.stage = "give.create", !.target = id]
  <2>1. id \in Nat /\ "give.create" \in Stages /\ req[p].stage = "give.find"
    BY <1>1, FindType DEF Stages, FindToGive, At
  <2>2. Answer(p) \/ req' = [req EXCEPT ![p].stage = "give.create", ![p].target = id]
    BY <1>1 DEF FindToGive
  <2> HIDE DEF id
  <2>3. CASE req' = [req EXCEPT ![p].stage = "give.create", ![p].target = id]
    <3>1. r \in Request /\ r.stage = "give.create" /\ r.call = req[p].call
      BY <1>0, <2>1 DEF Request
    <3>2. req' = [req EXCEPT ![p] = r]
      BY <1>0, <2>3 DEF Request
    <3> HIDE DEF r
    <3>3. r.call.about \in CapeNames
      BY <1>a, <2>1, <3>1 DEF WearStages, Cape
    <3>4. RequestSound(r)
      BY <3>1, <3>3 DEF RequestSound, RoleStages, ClassStages, HireStages, NickStages,
                        UploadStages
    <3> QED BY <1>1, <3>1, <3>2, <3>4, RequestChange, ReadInv DEF FindToGive
  <2>4. CASE Answer(p)
    BY <1>1, <2>4, Answered, ReadInv DEF FindToGive
  <2> QED BY <2>2, <2>3, <2>4
<1>2. ASSUME GiveCape(p) PROVE IInv'
  <2>1. req' \in [Procs -> Request] /\ RequestsSound'
    BY <1>2, Answered DEF GiveCape
  <2>2. req[p].target \in Nat /\ Cape(p) \in CapeNames
    BY <1>0, <1>2, <1>a DEF GiveCape, At, WearStages, Request
  <2>3. [user |-> req[p].target, cape |-> Cape(p)] \in WornRow
    BY <2>2 DEF WornRow
  <2>4. worn' \subseteq WornRow
    BY <1>2, <2>3 DEF GiveCape, IInv, TablesTyped
  <2> QED BY <1>2, <2>1, <2>4 DEF GiveCape, IInv, TablesTyped, people
<1>3. ASSUME WearCape(p) PROVE IInv'
  <2> DEFINE id  == Find(req[p].who.nick)
             row == [member[id] EXCEPT !.capeSelected = Cape(p)]
  <2>1. req' \in [Procs -> Request] /\ RequestsSound'
    BY <1>3, Answered DEF WearCape
  <2>2. CASE UNCHANGED member
    BY <1>3, <2>1, <2>2 DEF WearCape, IInv, TablesTyped, wardrobe
  <2>3. CASE id # NoId /\ member' = [member EXCEPT ![id].capeSelected = Cape(p)]
    <3>1. id \in DOMAIN member /\ member[id] \in MemberRow /\ Cape(p) \in CapeNames
      BY <1>3, <1>a, <2>3, FindType DEF WearCape, At, WearStages
    <3> HIDE DEF id
    <3>2. row \in MemberRow /\ member' = [member EXCEPT ![id] = row] /\ UNCHANGED created
      BY <1>3, <2>3, <3>1 DEF MemberRow, WearCape
    <3> HIDE DEF row
    <3>3. /\ created' \in Nat /\ DOMAIN member' \subseteq 1..created'
          /\ member' \in [DOMAIN member' -> MemberRow]
      BY <3>1, <3>2, RowChange
    <3> QED BY <1>3, <2>1, <3>3 DEF WearCape, IInv, TablesTyped, wardrobe
  <2> QED BY <1>3, <2>2, <2>3 DEF WearCape
<1> QED BY <1>1, <1>2, <1>3

LEMMA CapeStepInv ==
    ASSUME IInv, NEW p \in Procs, CapeStep(p)
    PROVE  IInv'
BY UploadStepInv, WearStepInv DEF CapeStep
-----------------------------------------------------------------------------
(***************************************************************************)
(* The composition                                                         *)
(***************************************************************************)
LEMMA FailureInv ==
    ASSUME IInv, NEW p \in Procs
    PROVE  /\ FailQuery(p) => IInv'
           /\ LoseWrite(p) => IInv'
<1>1. ASSUME FailQuery(p) PROVE IInv'
  BY <1>1, Answered, ReadInv DEF FailQuery
<1>2. ASSUME LoseWrite(p) PROVE IInv'
  <2>1. PICK w \in req[p].todo : Settle(p, w)
    BY <1>2 DEF LoseWrite
  <2>2. req' \in [Procs -> Request] /\ RequestsSound'
    BY <2>1, SettledType
  <2> QED BY <1>2, <2>2, ReadInv DEF LoseWrite
<1> QED BY <1>1, <1>2

LEMMA InitInv == Init => IInv
<1> SUFFICES ASSUME Init PROVE IInv
  OBVIOUS
<1>1. /\ scenario \in Scenarios /\ scenario.members \in Seq(MemberRow)
      /\ scenario.posts \subseteq PostRow /\ scenario.held \subseteq HeldRow
  BY MembersAssumption DEF Init
<1>2. /\ created \in Nat /\ DOMAIN member \subseteq 1..created
      /\ member \in [DOMAIN member -> MemberRow]
  BY <1>1, LenProperties, ElementOfSeq DEF Init
<1>3. req \in [Procs -> Request] /\ RequestsSound
  BY IdleSound DEF Init, RequestsSound
<1> QED
  BY <1>1, <1>2, <1>3 DEF Init, IInv, TablesTyped

LEMMA NextInv ==
    ASSUME IInv, [Next]_vars
    PROVE  IInv'
<1>1. CASE Tick
  <2>1. req' \in [Procs -> Request] /\ RequestsSound'
    BY <1>1, NothingAsked DEF Tick
  <2> QED BY <1>1, <2>1 DEF Tick, IInv, TablesTyped, tables, people, wardrobe
<1>2. ASSUME NEW p \in Procs, Submit(p) PROVE IInv'
  BY <1>2, DepartamentSubmitInv, AccountSubmitInv, CapeSubmitInv, RankSubmitInv DEF Submit
<1>3. ASSUME NEW p \in Procs, Step(p) PROVE IInv'
  BY <1>3, DepartamentStepInv, AccountStepInv, CapeStepInv, CareerStepInv DEF Step
<1>4. ASSUME NEW p \in Procs, FailQuery(p) \/ LoseWrite(p) PROVE IInv'
  BY <1>4, FailureInv
<1>5. CASE UNCHANGED vars
  <2>1. req' \in [Procs -> Request] /\ RequestsSound'
    BY <1>5, NothingAsked DEF vars
  <2> QED BY <1>5, <2>1, ReadInv DEF vars
<1> QED BY <1>1, <1>2, <1>3, <1>4, <1>5 DEF Next

(***************************************************************************)
(* The tables and the requests of the back office keep their shape under   *)
(* every interleaving and failure: no handler writes a row of another kind *)
(* than the column takes, whatever happened to what it read.  The history  *)
(* takes more than this: TablesAndHistoryTyped of BackofficeHistoryProofs. *)
(***************************************************************************)
THEOREM TablesTypeCorrect == Spec => []TablesTyped
<1>1. IInv => TablesTyped
  BY DEF IInv
<1> QED
  BY <1>1, InitInv, NextInv, PTL DEF Spec
-----------------------------------------------------------------------------
(***************************************************************************)
(* What most steps leave alone: the other requests, the capes and their    *)
(* pictures, and the departament roles except to take some away.           *)
(***************************************************************************)
Apart(p) == /\ \A q \in Procs \ {p} : req'[q] = req[q]
            /\ req'[p].stage \notin UploadStages \cup {"role.create"}

Away(p) == /\ Apart(p)
           /\ UNCHANGED <<capes, bucket, scenario>>
           /\ posts' \subseteq posts

LEMMA ApartChange ==
    ASSUME IInv, NEW p \in Procs, NEW r, req' = [req EXCEPT ![p] = r],
           r.stage \notin UploadStages \cup {"role.create"}
    PROVE  Apart(p)
BY DEF IInv, TablesTyped, Apart

LEMMA AnswerApart ==
    ASSUME IInv, NEW p \in Procs, Answer(p)
    PROVE  Apart(p)
BY ApartChange DEF Answer, Idle, UploadStages

LEMMA GotoApart ==
    ASSUME IInv, NEW p \in Procs, NEW stage, Goto(p, stage),
           stage \notin UploadStages \cup {"role.create"}
    PROVE  Apart(p)
BY DEF IInv, TablesTyped, Apart, Goto, Request

LEMMA SettleApart ==
    ASSUME IInv, NEW p \in Procs, NEW w, Settle(p, w), req[p].stage \in Settling
    PROVE  Apart(p)
<1>1. CASE Answer(p)
  BY <1>1, AnswerApart
<1>2. CASE req' = [req EXCEPT ![p].todo = @ \ {w}]
  BY <1>2 DEF IInv, TablesTyped, Apart, Request, Settling, UploadStages
<1> QED BY <1>1, <1>2 DEF Settle

LEMMA BeginApart ==
    ASSUME IInv, NEW p \in Procs, NEW call, NEW stage, NEW who,
           Begin(p, call, stage, who), stage \notin UploadStages \cup {"role.create"}
    PROVE  Away(p)
<1> DEFINE r == [Idle EXCEPT !.stage = stage, !.call = call, !.who = who]
<1>1. r.stage = stage
  BY DEF Idle
<1> HIDE DEF r
<1>2. req' = [req EXCEPT ![p] = r]
  BY DEF Begin, r
<1>3. Apart(p)
  BY <1>1, <1>2, ApartChange
<1> QED BY <1>3 DEF Begin, Away, tables, people, wardrobe

LEMMA SubmitAway ==
    ASSUME IInv, NEW p \in Procs, Submit(p)
    PROVE  SubmitCreateCape(p) \/ Away(p)
<1> USE DEF UploadStages
<1>1. DepartamentSubmit(p) => Away(p)
  BY BeginApart DEF DepartamentSubmit, SubmitSetUserRole, SubmitDeleteUserRole, SubmitPostClass
<1>2. AccountSubmit(p) => Away(p)
  BY BeginApart DEF AccountSubmit, SubmitFireUser, SubmitContractUser, SubmitChangeUserNick,
                    SubmitSession, SubmitCode
<1>3. CapeSubmit(p) => SubmitCreateCape(p) \/ Away(p)
  BY BeginApart DEF CapeSubmit, SubmitAtributeCape, SubmitChangeUserCape
<1>4. SubmitRankCall(p) => Away(p)
  BY BeginApart DEF SubmitRankCall
<1> QED BY <1>1, <1>2, <1>3, <1>4 DEF Submit

LEMMA DepartamentAway ==
    ASSUME IInv, NEW p \in Procs, DepartamentStep(p)
    PROVE  ClearRoles(p) \/ CreateRole(p) \/ Away(p)
<1>0. req \in [Procs -> Request]
  BY DEF IInv, TablesTyped
<1> USE DEF tables, people, wardrobe
<1>1. FindForRole(p) => Away(p)
  <2> SUFFICES ASSUME FindForRole(p) PROVE Apart(p)
    BY DEF FindForRole, Away
  <2>1. CASE Answer(p)
    BY <2>1, AnswerApart
  <2>2. ASSUME NEW id, req' = [req EXCEPT ![p].stage = "role.clear", ![p].target = id]
        PROVE  Apart(p)
    BY <1>0, <2>2 DEF Apart, Request, UploadStages
  <2> QED BY <2>1, <2>2 DEF FindForRole
<1>2. FindForRemoval(p) => Away(p)
  <2> SUFFICES ASSUME FindForRemoval(p) PROVE Apart(p)
    BY DEF FindForRemoval, Away
  <2>1. CASE Answer(p)
    BY <2>1, AnswerApart
  <2>2. ASSUME NEW r, req' = [req EXCEPT ![p].stage = "drop.delete", ![p].target = r.user,
                                         ![p].call.about = r.role]
        PROVE  Apart(p)
    BY <1>0, <2>2 DEF Apart, Request, UploadStages
  <2> QED BY <2>1, <2>2 DEF FindForRemoval
<1>3. RemoveRole(p) => Away(p)
  BY AnswerApart DEF RemoveRole, Away
<1>4. ASSUME NEW again \in ClassStages, NEW next \in ClassStages
      PROVE  Onward(p, again, next).stage \notin UploadStages \cup {"role.create"}
  <2>1. Onward(p, again, next).stage \in {again, next}
    BY <1>0 DEF Onward, Request
  <2> HIDE DEF Onward
  <2> QED BY <2>1 DEF ClassStages, UploadStages
<1>5. CheckApproved(p) => Away(p)
  <2> DEFINE o == Onward(p, "class.check", AfterCheck(About(p)))
  <2> SUFFICES ASSUME CheckApproved(p) PROVE Apart(p)
    BY DEF CheckApproved, Away
  <2>1. o.stage \notin UploadStages \cup {"role.create"}
    BY <1>4 DEF AfterCheck, ClassStages
  <2>2. Answer(p) \/ req' = [req EXCEPT ![p] = o]
    BY DEF CheckApproved
  <2> HIDE DEF o
  <2> QED BY <2>1, <2>2, AnswerApart, ApartChange
<1>6. FindToEnlist(p) => Away(p)
  <2> SUFFICES ASSUME FindToEnlist(p) PROVE Apart(p)
    BY DEF FindToEnlist, Away
  <2>1. PICK id : req' = [req EXCEPT ![p].stage = "class.enlist", ![p].target = id]
    BY DEF FindToEnlist
  <2> QED BY <1>0, <2>1 DEF Apart, Request, UploadStages
<1>7. Enlist(p) => Away(p)
  <2> DEFINE o == Onward(p, "class.enrol", "class.collect")
             r == [o EXCEPT !.target = NoId]
  <2> SUFFICES ASSUME Enlist(p) PROVE Apart(p)
    BY DEF Enlist, Away
  <2>1. o.stage \notin UploadStages \cup {"role.create"}
    BY <1>4 DEF ClassStages
  <2>2. r.stage = o.stage
    BY <1>0 DEF Onward, Request
  <2>3. Answer(p) \/ req' = [req EXCEPT ![p] = r]
    BY DEF Enlist
  <2> HIDE DEF o, r
  <2> QED BY <2>1, <2>2, <2>3, AnswerApart, ApartChange
<1>8. CollectApproved(p) => Away(p)
  <2> DEFINE o == Onward(p, "class.collect", "class.settle")
             r == [o EXCEPT !.ids  = Append(@, Find(Canon[Reached(p)])),
                            !.todo = {"permissions", "log", "class"}]
  <2> SUFFICES ASSUME CollectApproved(p) PROVE Apart(p)
    BY DEF CollectApproved, Away
  <2>1. o.stage \notin UploadStages \cup {"role.create"}
    BY <1>4 DEF ClassStages
  <2>2. r.stage = o.stage
    BY <1>0 DEF Onward, Request
  <2>3. Answer(p) \/ req' = [req EXCEPT ![p] = r]
    BY DEF CollectApproved
  <2> HIDE DEF o, r
  <2> QED BY <2>1, <2>2, <2>3, AnswerApart, ApartChange
<1>9. GiveCourses(p) \/ LogApproved(p) \/ RecordClass(p) => Away(p)
  BY SettleApart DEF GiveCourses, LogApproved, RecordClass, At, Settling, Away
<1> QED
  BY <1>1, <1>2, <1>3, <1>5, <1>6, <1>7, <1>8, <1>9 DEF DepartamentStep

LEMMA AccountAway ==
    ASSUME IInv, NEW p \in Procs, AccountStep(p)
    PROVE  Away(p)
<1>0. req \in [Procs -> Request]
  BY DEF IInv, TablesTyped
<1> USE DEF tables, people, wardrobe, UploadStages
<1>1. FindToFire(p) => Away(p)
  <2> SUFFICES ASSUME FindToFire(p) PROVE Apart(p)
    BY DEF FindToFire, Away
  <2>1. CASE Answer(p)
    BY <2>1, AnswerApart
  <2>2. ASSUME NEW id, req' = [req EXCEPT ![p].stage = "fire.settle", ![p].target = id,
                                          ![p].todo = FireWrites]
        PROVE  Apart(p)
    BY <1>0, <2>2 DEF Apart, Request
  <2> QED BY <2>1, <2>2 DEF FindToFire
<1>2. Dismiss(p) \/ LogDismissal(p) \/ TakePermissions(p) \/ TakePosts(p) => Away(p)
  BY SettleApart DEF Dismiss, LogDismissal, TakePermissions, TakePosts, At, Settling, Away
<1>3. FindToContract(p) => Away(p)
  <2> SUFFICES ASSUME FindToContract(p) PROVE Apart(p)
    BY DEF FindToContract, Away
  <2>1. PICK id : req' = [req EXCEPT ![p].stage = "contract.write", ![p].target = id]
    BY DEF FindToContract
  <2> QED BY <1>0, <2>1 DEF Apart, Request
<1>4. ContractWrite(p) => Away(p)
  <2> SUFFICES ASSUME ContractWrite(p) PROVE Apart(p)
    BY DEF ContractWrite, Away
  <2>1. CASE req' = [req EXCEPT ![p].stage = "contract.log", ![p].target = created + 1]
    BY <1>0, <2>1 DEF Apart, Request
  <2>2. CASE Goto(p, "contract.log")
    BY <2>2, GotoApart
  <2>3. CASE Answer(p)
    BY <2>3, AnswerApart
  <2> QED BY <2>1, <2>2, <2>3 DEF ContractWrite
<1>5. FindPrevious(p) => Away(p)
  <2> SUFFICES ASSUME FindPrevious(p) PROVE Apart(p)
    BY DEF FindPrevious, Away
  <2>1. CASE Answer(p)
    BY <2>1, AnswerApart
  <2>2. ASSUME NEW id, req' = [req EXCEPT ![p].stage = "nick.new", ![p].target = id]
        PROVE  Apart(p)
    BY <1>0, <2>2 DEF Apart, Request
  <2> QED BY <2>1, <2>2 DEF FindPrevious
<1>6. FindNew(p) => Away(p)
  <2> SUFFICES ASSUME FindNew(p) PROVE Apart(p)
    BY DEF FindNew, Away
  <2>1. CASE Answer(p)
    BY <2>1, AnswerApart
  <2>2. CASE Goto(p, "nick.update")
    BY <2>2, GotoApart
  <2>3. ASSUME NEW id, req' = [req EXCEPT ![p].stage = "nick.move", ![p].other = id]
        PROVE  Apart(p)
    BY <1>0, <2>3 DEF Apart, Request
  <2> QED BY <2>1, <2>2, <2>3 DEF FindNew
<1>7. MoveHistory(p) \/ DeleteMember(p) \/ Rename(p) => Away(p)
  BY AnswerApart, GotoApart DEF MoveHistory, DeleteMember, Rename, Away
<1>8. LogContract(p) \/ LogRename(p) \/ CreateSession(p) \/ Unlock(p) => Away(p)
  BY AnswerApart DEF LogContract, LogRename, CreateSession, Unlock, Away
<1>9. FindToUnlock(p) => Away(p)
  <2> SUFFICES ASSUME FindToUnlock(p) PROVE Apart(p)
    BY DEF FindToUnlock, Away
  <2>1. CASE Answer(p)
    BY <2>1, AnswerApart
  <2>2. ASSUME NEW id, req' = [req EXCEPT ![p].stage = "code.session", ![p].target = id]
        PROVE  Apart(p)
    BY <1>0, <2>2 DEF Apart, Request
  <2> QED BY <2>1, <2>2 DEF FindToUnlock
<1>10. ReadSession(p) => Away(p)
  BY AnswerApart, GotoApart DEF ReadSession, Away
<1> QED
  BY <1>1, <1>2, <1>3, <1>4, <1>5, <1>6, <1>7, <1>8, <1>9, <1>10 DEF AccountStep

LEMMA WearAway ==
    ASSUME IInv, NEW p \in Procs, FindToGive(p) \/ GiveCape(p) \/ WearCape(p)
    PROVE  Away(p)
<1>0. req \in [Procs -> Request]
  BY DEF IInv, TablesTyped
<1> USE DEF tables, people, wardrobe, UploadStages
<1>1. FindToGive(p) => Away(p)
  <2> SUFFICES ASSUME FindToGive(p) PROVE Apart(p)
    BY DEF FindToGive, Away
  <2>1. CASE Answer(p)
    BY <2>1, AnswerApart
  <2>2. ASSUME NEW id, req' = [req EXCEPT ![p].stage = "give.create", ![p].target = id]
        PROVE  Apart(p)
    BY <1>0, <2>2 DEF Apart, Request
  <2> QED BY <2>1, <2>2 DEF FindToGive
<1>2. GiveCape(p) \/ WearCape(p) => Away(p)
  BY AnswerApart DEF GiveCape, WearCape, Away
<1> QED BY <1>1, <1>2

(* What a change of rank does to its request.                              *)
LEMMA RankGoesOn ==
    ASSUME IInv, NEW p \in Procs, CareerStep(p)
    PROVE  /\ req[p].stage \in RankStages /\ req[p].call.op \in RankOps
           /\ \A q \in Procs \ {p} : req'[q] = req[q]
           /\ \/ Answer(p)
              \/ /\ req'[p].stage \in {"rank.cfo", "rank.settle"}
                 /\ req'[p].who = req[p].who
                 /\ req'[p].call.nicks = req[p].call.nicks
                 /\ req'[p].call.op = req[p].call.op
                 /\ req'[p].call.actor = req[p].call.actor
                 /\ req'[p].call.file = req[p].call.file
<1>0. req \in [Procs -> Request] /\ req[p] \in Request /\ RequestSound(req[p])
  BY DEF IInv, TablesTyped, RequestsSound
<1>1. req[p].stage \in RankStages
  BY DEF CareerStep, FindToRank, RevokeCfo, Rerank, LogRank, TakeCourses, At, RankStages
<1>2. req[p].call.op \in RankOps
  BY <1>0, <1>1 DEF RequestSound, RankStages
<1> DEFINE On(r) == /\ r.stage \in {"rank.cfo", "rank.settle"}
                    /\ r.who = req[p].who
                    /\ r.call.nicks = req[p].call.nicks
                    /\ r.call.op = req[p].call.op
                    /\ r.call.actor = req[p].call.actor
                    /\ r.call.file = req[p].call.file
<1>3. Answer(p) => \A q \in Procs \ {p} : req'[q] = req[q]
  BY <1>0 DEF Answer
<1>4. CASE Answer(p)
  BY <1>1, <1>2, <1>3, <1>4
<1>5. ASSUME NEW r, req' = [req EXCEPT ![p] = r], On(r)
      PROVE  (\A q \in Procs \ {p} : req'[q] = req[q]) /\ On(req'[p])
  BY <1>0, <1>5
<1>6. ASSUME NEW stage \in {"rank.cfo", "rank.settle"}, NEW id, NEW role,
             Ranking(p, stage, id, role)
      PROVE  (\A q \in Procs \ {p} : req'[q] = req[q]) /\ On(req'[p])
  BY <1>0, <1>6 DEF Ranking, Request, Call
<1>7. RevokeCfo(p) => (\A q \in Procs \ {p} : req'[q] = req[q]) /\ On(req'[p])
  BY <1>0 DEF RevokeCfo, Goto, Request
<1>8. ASSUME NEW w, At(p, "rank.settle"), req' = [req EXCEPT ![p].todo = @ \ {w}]
      PROVE  (\A q \in Procs \ {p} : req'[q] = req[q]) /\ On(req'[p])
  BY <1>0, <1>8 DEF At, Request
<1>9. CASE FindToRank(p)
  BY <1>1, <1>2, <1>4, <1>6, <1>9, RankFound
<1>10. CASE RevokeCfo(p)
  BY <1>1, <1>2, <1>7, <1>10
<1>11. CASE Rerank(p) \/ LogRank(p) \/ TakeCourses(p)
  <2>1. At(p, "rank.settle") /\ \E w : Settle(p, w)
    BY <1>11 DEF Rerank, LogRank, TakeCourses
  <2> QED BY <1>1, <1>2, <1>4, <1>8, <2>1 DEF Settle
<1> QED BY <1>9, <1>10, <1>11 DEF CareerStep

(* What it does to the tables: the role of a member, fewer permissions.    *)
LEMMA RankEffects ==
    ASSUME IInv, NEW p \in Procs, CareerStep(p)
    PROVE  /\ UNCHANGED <<created, posts, classes, sessions, wardrobe, now, issued, scenario>>
           /\ held' \subseteq held
           /\ DOMAIN member' = DOMAIN member
           /\ member' = member \/ Rerank(p)
           /\ history' = history \/ LogRank(p)
<1>1. CASE FindToRank(p)
  BY <1>1 DEF FindToRank, tables, people
<1>2. CASE RevokeCfo(p)
  BY <1>2 DEF RevokeCfo
<1>3. CASE Rerank(p)
  <2> DEFINE id == Find(Spelled(req[p].call.nicks[1]))
  <2>1. id = NoId \/ id \in DOMAIN member
    BY FindType
  <2>2. DOMAIN member' = DOMAIN member
    BY <1>3, <2>1 DEF Rerank
  <2> QED BY <1>3, <2>2 DEF Rerank
<1>4. CASE LogRank(p)
  BY <1>4 DEF LogRank
<1>5. CASE TakeCourses(p)
  BY <1>5 DEF TakeCourses
<1> QED BY <1>1, <1>2, <1>3, <1>4, <1>5 DEF CareerStep

LEMMA CareerAway ==
    ASSUME IInv, NEW p \in Procs, CareerStep(p)
    PROVE  Away(p)
<1>1. Answer(p) \/ req'[p].stage \in {"rank.cfo", "rank.settle"}
  BY RankGoesOn
<1>2. req'[p].stage \notin UploadStages \cup {"role.create"}
  BY <1>1, AnswerApart DEF Apart, UploadStages
<1>3. Apart(p)
  BY <1>2, RankGoesOn DEF Apart
<1> QED BY <1>3, RankEffects DEF Away, wardrobe

LEMMA FailureAway ==
    ASSUME IInv, NEW p \in Procs, FailQuery(p) \/ LoseWrite(p)
    PROVE  Away(p)
<1> USE DEF tables, people, wardrobe
<1>1. FailQuery(p) => Away(p)
  BY AnswerApart DEF FailQuery, Away
<1>2. LoseWrite(p) => Away(p)
  BY SettleApart DEF LoseWrite, Away
<1> QED BY <1>1, <1>2

(* Every step of the server is one of a few or leaves all that alone.      *)
LEMMA StepsApart ==
    ASSUME IInv, [Next]_vars
    PROVE  \/ UNCHANGED <<req, capes, bucket, scenario, posts>>
           \/ \E p \in Procs :
                 \/ SubmitCreateCape(p) \/ FindCape(p) \/ PutPicture(p) \/ CreateCape(p)
                 \/ ClearRoles(p) \/ CreateRole(p)
                 \/ Away(p)
<1>1. CASE Tick \/ UNCHANGED vars
  BY <1>1 DEF Tick, vars, tables, people, wardrobe
<1>2. ASSUME NEW p \in Procs, Step(p)
      PROVE  \/ FindCape(p) \/ PutPicture(p) \/ CreateCape(p)
             \/ ClearRoles(p) \/ CreateRole(p) \/ Away(p)
  BY <1>2, DepartamentAway, AccountAway, WearAway, CareerAway DEF Step, CapeStep
<1> QED
  BY <1>1, <1>2, SubmitAway, FailureAway DEF Next
-----------------------------------------------------------------------------
(***************************************************************************)
(* Capes.  What CapeShowsItsUpload needs of the uploads in flight: whoever *)
(* is about to create a row has put the picture where the row says, and,   *)
(* as long as clients take turns on a file, is alone with that file, which *)
(* no cape has.                                                            *)
(***************************************************************************)
Uploading(p) == req[p].stage \in UploadStages

UploadsAreCapes == \A p \in Procs : Uploading(p) => req[p].call.op = "createCape"

PutBeforeCreate == \A p \in Procs : At(p, "cape.create") => File(p) \in DOMAIN bucket

FilesApart ==
    \A p, q \in Procs : Uploading(p) /\ Uploading(q) /\ File(p) = File(q) => p = q

FilesFree ==
    \A p \in Procs : req[p].stage \in {"cape.put", "cape.create"} => ~ Taken(p)

PicturesOwn == \A p \in Procs : At(p, "cape.create") => bucket[File(p)] = Cape(p)

CapeInv ==
    /\ UploadsAreCapes /\ PutBeforeCreate
    /\ CapeShowsItsUpload
    /\ scenario.exclusive => FilesApart /\ FilesFree /\ PicturesOwn

LEMMA CapeInvElsewhere ==
    ASSUME CapeInv, NEW p \in Procs, UNCHANGED <<capes, bucket, scenario>>,
           req'[p].stage \notin UploadStages, \A q \in Procs \ {p} : req'[q] = req[q]
    PROVE  CapeInv'
<1>1. /\ ~ Uploading(p)' /\ UNCHANGED <<capes, bucket, scenario>>
      /\ \A q \in Procs \ {p} : req'[q] = req[q]
  BY DEF Uploading
<1>2. ASSUME NEW q \in Procs, Uploading(q)' PROVE q # p /\ req'[q] = req[q]
  BY <1>1, <1>2
<1>3. UploadsAreCapes'
  BY <1>2 DEF CapeInv, UploadsAreCapes, Uploading
<1>4. PutBeforeCreate'
  BY <1>1, <1>2 DEF CapeInv, PutBeforeCreate, Uploading, UploadStages, At, File
<1>5. CapeShowsItsUpload'
  BY <1>1 DEF CapeInv, CapeShowsItsUpload
<1>6. scenario.exclusive => (FilesApart /\ FilesFree /\ PicturesOwn)'
  BY <1>1, <1>2 DEF CapeInv, FilesApart, FilesFree, PicturesOwn, Uploading, UploadStages,
                    At, File, Taken, Cape
<1> QED BY <1>1, <1>3, <1>4, <1>5, <1>6 DEF CapeInv

LEMMA CapeInvAway ==
    ASSUME CapeInv, NEW p \in Procs, Away(p)
    PROVE  CapeInv'
BY CapeInvElsewhere DEF Away, Apart

LEMMA CapeInvSame ==
    ASSUME CapeInv, UNCHANGED <<req, capes, bucket, scenario>>
    PROVE  CapeInv'
BY DEF CapeInv, UploadsAreCapes, PutBeforeCreate, CapeShowsItsUpload, FilesApart,
       FilesFree, PicturesOwn, Uploading, At, File, Taken, Cape

(* A new upload is of a file no other upload in flight names.              *)
LEMMA CapeInvSubmit ==
    ASSUME IInv, CapeInv, NEW p \in Procs, SubmitCreateCape(p)
    PROVE  CapeInv'
<1>1. PICK call \in CallsOf("createCape") :
         Begin(p, call, "cape.find", Guarded(call.actor))
  BY DEF SubmitCreateCape
<1>2. /\ \A q \in Procs \ {p} : req'[q] = req[q]
      /\ req'[p].call = call /\ req'[p].stage = "cape.find"
      /\ UNCHANGED <<capes, bucket, scenario>>
  <2> DEFINE r == [Idle EXCEPT !.stage = "cape.find", !.call = call,
                               !.who = Guarded(call.actor)]
  <2>1. r.call = call /\ r.stage = "cape.find"
    BY DEF Idle
  <2> HIDE DEF r
  <2>2. req' = [req EXCEPT ![p] = r]
    BY <1>1 DEF Begin, r
  <2> QED BY <1>1, <2>1, <2>2 DEF Begin, IInv, TablesTyped, tables, wardrobe
<1>3. call.op = "createCape"
  BY DEF CallsOf
<1>4. ASSUME NEW q \in Procs \ {p}, scenario.exclusive, Uploading(q)
      PROVE  File(q) # call.file
  <2>1. Named(req[q].call) \cap Named(call) = {}
    BY <1>1, <1>4 DEF Begin, InTurn, At, Uploading, UploadStages
  <2>2. req[q].call.file \in Named(req[q].call)
    BY <1>4 DEF CapeInv, UploadsAreCapes, Named
  <2>3. call.file \in Named(call)
    BY <1>3 DEF Named
  <2> QED BY <2>1, <2>2, <2>3 DEF File
<1>5. UploadsAreCapes'
  BY <1>2, <1>3 DEF CapeInv, UploadsAreCapes, Uploading
<1>6. PutBeforeCreate'
  BY <1>2 DEF CapeInv, PutBeforeCreate, At, File
<1>7. CapeShowsItsUpload'
  BY <1>2 DEF CapeInv, CapeShowsItsUpload
<1>8. scenario.exclusive => FilesApart'
  BY <1>2, <1>4 DEF CapeInv, FilesApart, Uploading, File
<1>9. scenario.exclusive => (FilesFree /\ PicturesOwn)'
  BY <1>2 DEF CapeInv, FilesFree, PicturesOwn, At, File, Taken, Cape
<1> QED BY <1>2, <1>5, <1>6, <1>7, <1>8, <1>9 DEF CapeInv

LEMMA CapeInvUpload ==
    ASSUME IInv, CapeInv, NEW p \in Procs,
           FindCape(p) \/ PutPicture(p) \/ CreateCape(p)
    PROVE  CapeInv'
<1>0. req \in [Procs -> Request] /\ Uploading(p)
  BY DEF IInv, TablesTyped, FindCape, PutPicture, CreateCape, At, Uploading, UploadStages
<1>a. ASSUME Answer(p)
      PROVE  ~ Uploading(p)' /\ \A q \in Procs \ {p} : req'[q] = req[q]
  BY <1>a, AnswerApart DEF Apart, Uploading
<1>b. ASSUME NEW stage, Goto(p, stage)
      PROVE  /\ req'[p].stage = stage /\ req'[p].call = req[p].call
             /\ \A q \in Procs \ {p} : req'[q] = req[q]
  BY <1>0, <1>b DEF Goto, Request
<1>1. ASSUME FindCape(p) PROVE CapeInv'
  <2>1. UNCHANGED <<capes, bucket, scenario, posts>>
    BY <1>1 DEF FindCape, tables, people, wardrobe
  <2>2. CASE Answer(p)
    BY <2>1, <2>2, AnswerApart, CapeInvAway DEF Away
  <2>3. CASE ~ Taken(p) /\ Goto(p, "cape.put")
    <3>1. UploadsAreCapes' /\ PutBeforeCreate' /\ CapeShowsItsUpload'
      BY <1>0, <1>b, <2>1, <2>3 DEF CapeInv, UploadsAreCapes, PutBeforeCreate,
                            CapeShowsItsUpload, Uploading, UploadStages, At, File
    <3>2. scenario.exclusive => (FilesApart /\ FilesFree /\ PicturesOwn)'
      BY <1>0, <1>b, <2>1, <2>3 DEF CapeInv, FilesApart, FilesFree, PicturesOwn,
                            Uploading, UploadStages, At, File, Taken, Cape
    <3> QED BY <2>1, <3>1, <3>2 DEF CapeInv
  <2> QED BY <1>1, <2>2, <2>3 DEF FindCape
<1>2. ASSUME PutPicture(p) PROVE CapeInv'
  <2>1. /\ UNCHANGED <<capes, scenario>>
        /\ req'[p].stage = "cape.create" /\ req'[p].call = req[p].call
        /\ \A q \in Procs \ {p} : req'[q] = req[q]
    BY <1>2, <1>b DEF PutPicture
  <2>2. /\ DOMAIN bucket' = DOMAIN bucket \cup {File(p)}
        /\ bucket'[File(p)] = Cape(p)
        /\ \A f \in DOMAIN bucket \ {File(p)} : bucket'[f] = bucket[f]
    BY <1>2 DEF PutPicture
  <2>3. UploadsAreCapes'
    BY <1>0, <2>1 DEF CapeInv, UploadsAreCapes, Uploading, UploadStages
  <2>4. PutBeforeCreate'
    BY <2>1, <2>2 DEF CapeInv, PutBeforeCreate, At, File
  <2>5. scenario.exclusive => ~ Taken(p)
    BY <1>2 DEF CapeInv, FilesFree, PutPicture, At
  <2>6. CapeShowsItsUpload'
    BY <2>1, <2>2, <2>5 DEF CapeInv, CapeShowsItsUpload, Taken
  <2>7. scenario.exclusive => FilesApart' /\ FilesFree'
    BY <1>0, <2>1, <2>5 DEF CapeInv, FilesApart, FilesFree, Uploading, UploadStages,
                            File, Taken
  <2>8. scenario.exclusive => PicturesOwn'
    <3>1. ASSUME scenario.exclusive, NEW q \in Procs \ {p}, At(q, "cape.create")
          PROVE  File(q) \in DOMAIN bucket \ {File(p)} /\ bucket[File(q)] = Cape(q)
      BY <1>0, <3>1 DEF CapeInv, FilesApart, PicturesOwn, PutBeforeCreate, At,
                        Uploading, UploadStages
    <3> QED BY <2>1, <2>2, <3>1 DEF PicturesOwn, At, File, Cape
  <2> QED BY <2>1, <2>3, <2>4, <2>6, <2>7, <2>8 DEF CapeInv
<1>3. ASSUME CreateCape(p) PROVE CapeInv'
  <2>1. UNCHANGED <<bucket, scenario>> /\ ~ Uploading(p)'
        /\ \A q \in Procs \ {p} : req'[q] = req[q]
    BY <1>3, <1>a DEF CreateCape
  <2>2. At(p, "cape.create")
    BY <1>3 DEF CreateCape
  <2>3. capes' \subseteq capes \cup {[name |-> Cape(p), file |-> File(p)]}
    BY <1>3 DEF CreateCape
  <2>4. ASSUME NEW q \in Procs, Uploading(q)' PROVE q # p /\ req'[q] = req[q]
    BY <2>1, <2>4
  <2>5. UploadsAreCapes' /\ PutBeforeCreate'
    BY <2>1, <2>4 DEF CapeInv, UploadsAreCapes, PutBeforeCreate, Uploading, UploadStages,
                      At, File
  <2>6. CapeShowsItsUpload'
    <3>1. File(p) \in DOMAIN bucket /\ (scenario.exclusive => bucket[File(p)] = Cape(p))
      BY <2>2 DEF CapeInv, PutBeforeCreate, PicturesOwn
    <3> QED BY <2>1, <2>3, <3>1 DEF CapeInv, CapeShowsItsUpload
  <2>7. scenario.exclusive => FilesApart' /\ PicturesOwn'
    BY <2>1, <2>4 DEF CapeInv, FilesApart, PicturesOwn, Uploading, UploadStages, At, File, Cape
  <2>8. scenario.exclusive => FilesFree'
    <3>1. ASSUME scenario.exclusive, NEW q \in Procs \ {p},
                 req[q].stage \in {"cape.put", "cape.create"}
          PROVE  File(q) # File(p) /\ ~ Taken(q)
      BY <1>0, <3>1 DEF CapeInv, FilesApart, FilesFree, Uploading, UploadStages
    <3> QED BY <2>1, <2>3, <2>4, <3>1 DEF FilesFree, Taken, File, Uploading, UploadStages
  <2> QED BY <2>1, <2>5, <2>6, <2>7, <2>8 DEF CapeInv
<1> QED BY <1>1, <1>2, <1>3

LEMMA CapeInvNext ==
    ASSUME IInv, CapeInv, [Next]_vars
    PROVE  CapeInv'
<1> USE DEF tables, people, wardrobe
<1>1. ASSUME NEW p \in Procs, ClearRoles(p) \/ CreateRole(p) PROVE CapeInv'
  <2>1. UNCHANGED <<capes, bucket, scenario>>
    BY <1>1 DEF ClearRoles, CreateRole
  <2>2. req'[p].stage \notin UploadStages /\ \A q \in Procs \ {p} : req'[q] = req[q]
    <3>1. CASE Answer(p)
      BY <3>1, AnswerApart DEF Apart
    <3>2. CASE Goto(p, "role.create")
      BY <3>2 DEF Goto, IInv, TablesTyped, Request, UploadStages
    <3> QED BY <1>1, <3>1, <3>2 DEF ClearRoles, CreateRole
  <2> QED BY <2>1, <2>2, CapeInvElsewhere
<1> QED
  BY <1>1, StepsApart, CapeInvAway, CapeInvSame, CapeInvSubmit, CapeInvUpload

(***************************************************************************)
(* Every cape has its picture, whatever fails and whatever races, and when *)
(* clients take turns it is the picture uploaded with that cape: createCape*)
(* looks for the file, uploads and creates the row in three queries.       *)
(***************************************************************************)
THEOREM CapesShowTheirUploads == Spec => []CapeShowsItsUpload
<1>1. Init => CapeInv
  BY DEF Init, CapeInv, UploadsAreCapes, PutBeforeCreate, CapeShowsItsUpload, FilesApart,
         FilesFree, PicturesOwn, Uploading, UploadStages, At, Idle
<1>2. CapeInv => CapeShowsItsUpload
  BY DEF CapeInv
<1> QED
  BY <1>1, <1>2, InitInv, NextInv, CapeInvNext, PTL DEF Spec
-----------------------------------------------------------------------------
(***************************************************************************)
(* Departament roles.  A row that will be created is paid for while its    *)
(* request is in flight: the rows of a member in a departament and the     *)
(* requests about to create one are together no more than the requests     *)
(* there can be.                                                           *)
(***************************************************************************)
Creates(p, id, dept) ==
    At(p, "role.create") /\ req[p].target = id /\ DeptOf(About(p)) = dept

Creators(id, dept) == {p \in Procs : Creates(p, id, dept)}

PostsWithin(id, dept) ==
    /\ IsFiniteSet(PostsOf(id, dept))
    /\ Cardinality(PostsOf(id, dept)) + Cardinality(Creators(id, dept)) <= Cardinality(Procs)

PostsInv == \A id \in Nat, dept \in Departaments : PostsWithin(id, dept)

LEMMA CreatorsFinite ==
    ASSUME NEW id, NEW dept
    PROVE  /\ IsFiniteSet(Creators(id, dept)) /\ IsFiniteSet(Creators(id, dept)')
           /\ Cardinality(Creators(id, dept)) \in Nat
           /\ Cardinality(Creators(id, dept)') \in Nat
           /\ Cardinality(Creators(id, dept)') <= Cardinality(Procs)
           /\ Cardinality(Procs) \in Nat
BY ProcsAssumption, FS_Subset, FS_CardinalityType DEF Creators

(* Fewer rows and fewer requests about to create one.                      *)
LEMMA PostsWithinLess ==
    ASSUME NEW id, NEW dept, PostsWithin(id, dept),
           PostsOf(id, dept)' \subseteq PostsOf(id, dept),
           Creators(id, dept)' \subseteq Creators(id, dept)
    PROVE  PostsWithin(id, dept)'
<1>1. /\ IsFiniteSet(PostsOf(id, dept)')
      /\ Cardinality(PostsOf(id, dept)') <= Cardinality(PostsOf(id, dept))
      /\ Cardinality(PostsOf(id, dept)) \in Nat /\ Cardinality(PostsOf(id, dept)') \in Nat
  BY FS_Subset, FS_CardinalityType DEF PostsWithin
<1>2. Cardinality(Creators(id, dept)') <= Cardinality(Creators(id, dept))
  BY CreatorsFinite, FS_Subset
<1> QED BY <1>1, <1>2, CreatorsFinite DEF PostsWithin

(* Steps that neither create a row nor are about to.                       *)
LEMMA PostsInvAway ==
    ASSUME PostsInv, NEW p \in Procs, posts' \subseteq posts,
           req'[p].stage # "role.create", \A q \in Procs \ {p} : req'[q] = req[q]
    PROVE  PostsInv'
<1> SUFFICES ASSUME NEW id \in Nat, NEW dept \in Departaments
             PROVE  PostsWithin(id, dept)'
  BY DEF PostsInv
<1>1. PostsOf(id, dept)' \subseteq PostsOf(id, dept)
  BY DEF PostsOf
<1>2. Creators(id, dept)' \subseteq Creators(id, dept)
  BY DEF Creators, Creates, At, About
<1> QED BY <1>1, <1>2, PostsWithinLess DEF PostsInv

LEMMA PostsInvClear ==
    ASSUME IInv, PostsInv, NEW p \in Procs, ClearRoles(p)
    PROVE  PostsInv'
<1>1. /\ req'[p].stage = "role.create" /\ req'[p].target = req[p].target
      /\ req'[p].call = req[p].call
      /\ \A q \in Procs \ {p} : req'[q] = req[q]
      /\ posts' = Cleared(req[p].target, About(p))
  BY DEF ClearRoles, Goto, IInv, TablesTyped, Request
<1> SUFFICES ASSUME NEW id \in Nat, NEW dept \in Departaments
             PROVE  PostsWithin(id, dept)'
  BY DEF PostsInv
<1>2. CASE id = req[p].target /\ dept = DeptOf(About(p))
  <2>1. PostsOf(id, dept)' = {}
    BY <1>1, <1>2 DEF PostsOf, Cleared
  <2>2. IsFiniteSet({}) /\ Cardinality({}) = 0
    BY FS_EmptySet
  <2> QED BY <2>1, <2>2, CreatorsFinite DEF PostsWithin
<1>3. CASE ~ (id = req[p].target /\ dept = DeptOf(About(p)))
  <2>1. PostsOf(id, dept)' \subseteq PostsOf(id, dept)
    BY <1>1 DEF PostsOf, Cleared
  <2>2. Creators(id, dept)' \subseteq Creators(id, dept)
    BY <1>1, <1>3 DEF Creators, Creates, At, About
  <2> QED BY <2>1, <2>2, PostsWithinLess DEF PostsInv
<1> QED BY <1>2, <1>3

LEMMA PostsInvCreate ==
    ASSUME IInv, PostsInv, NEW p \in Procs, CreateRole(p)
    PROVE  PostsInv'
<1> DEFINE row == [user |-> req[p].target, role |-> About(p)]
<1>1. /\ req'[p].stage # "role.create"
      /\ \A q \in Procs \ {p} : req'[q] = req[q]
      /\ posts' \subseteq posts \cup {row}
      /\ At(p, "role.create")
  BY AnswerApart DEF CreateRole, Apart
<1>2. row.user = req[p].target /\ row.role = About(p)
  OBVIOUS
<1> HIDE DEF row
<1> SUFFICES ASSUME NEW id \in Nat, NEW dept \in Departaments
             PROVE  PostsWithin(id, dept)'
  BY DEF PostsInv
<1>3. CASE id = req[p].target /\ dept = DeptOf(About(p))
  <2>1. p \in Creators(id, dept) /\ Creators(id, dept)' \subseteq Creators(id, dept) \ {p}
    BY <1>1, <1>3 DEF Creators, Creates, At, About
  <2>2. PostsOf(id, dept)' \subseteq PostsOf(id, dept) \cup {row}
    BY <1>1 DEF PostsOf
  <2>3. /\ IsFiniteSet(PostsOf(id, dept)) /\ Cardinality(PostsOf(id, dept)) \in Nat
        /\ IsFiniteSet(PostsOf(id, dept) \cup {row})
        /\ Cardinality(PostsOf(id, dept) \cup {row}) \in Nat
        /\ Cardinality(PostsOf(id, dept) \cup {row}) <= Cardinality(PostsOf(id, dept)) + 1
    <3> DEFINE S == PostsOf(id, dept)
    <3>1. IsFiniteSet(S)
      BY DEF PostsInv, PostsWithin
    <3> HIDE DEF S
    <3>2. Cardinality(S) \in Nat
      BY <3>1, FS_CardinalityType
    <3>3. /\ IsFiniteSet(S \cup {row})
          /\ Cardinality(S \cup {row}) = IF row \in S THEN Cardinality(S) ELSE Cardinality(S) + 1
      BY <3>1, FS_AddElement
    <3>4. /\ Cardinality(S \cup {row}) \in Nat
          /\ Cardinality(S \cup {row}) <= Cardinality(S) + 1
      BY <3>2, <3>3
    <3> QED BY <3>1, <3>2, <3>3, <3>4 DEF S
  <2>4. /\ IsFiniteSet(PostsOf(id, dept)') /\ Cardinality(PostsOf(id, dept)') \in Nat
        /\ Cardinality(PostsOf(id, dept)') <= Cardinality(PostsOf(id, dept) \cup {row})
    BY <2>2, <2>3, FS_Subset, FS_CardinalityType
  <2>5. /\ IsFiniteSet(Creators(id, dept) \ {p})
        /\ Cardinality(Creators(id, dept) \ {p}) = Cardinality(Creators(id, dept)) - 1
        /\ Cardinality(Creators(id, dept)') <= Cardinality(Creators(id, dept) \ {p})
    BY <2>1, CreatorsFinite, FS_RemoveElement, FS_Subset
  <2>6. Cardinality(PostsOf(id, dept)) + Cardinality(Creators(id, dept))
          <= Cardinality(Procs)
    BY DEF PostsInv, PostsWithin
  <2> QED BY <2>3, <2>4, <2>5, <2>6, CreatorsFinite DEF PostsWithin
<1>4. CASE ~ (id = req[p].target /\ dept = DeptOf(About(p)))
  <2>1. PostsOf(id, dept)' \subseteq PostsOf(id, dept)
    BY <1>1, <1>2, <1>4 DEF PostsOf
  <2>2. Creators(id, dept)' \subseteq Creators(id, dept)
    BY <1>1 DEF Creators, Creates, At, About
  <2> QED BY <2>1, <2>2, PostsWithinLess DEF PostsInv
<1> QED BY <1>3, <1>4

LEMMA PostsInvNext ==
    ASSUME IInv, PostsInv, [Next]_vars
    PROVE  PostsInv'
<1> USE DEF tables, people, wardrobe
<1>1. CASE UNCHANGED <<req, capes, bucket, scenario, posts>>
  BY <1>1 DEF PostsInv, PostsWithin, PostsOf, Creators, Creates, At, About
<1>2. ASSUME NEW p \in Procs, SubmitCreateCape(p) PROVE PostsInv'
  <2>1. PICK call : Begin(p, call, "cape.find", Guarded(call.actor))
    BY <1>2 DEF SubmitCreateCape
  <2>2. req'[p].stage = "cape.find" /\ \A q \in Procs \ {p} : req'[q] = req[q]
    BY <2>1 DEF Begin, IInv, TablesTyped, Idle
  <2> QED BY <2>1, <2>2, PostsInvAway DEF Begin
<1>3. ASSUME NEW p \in Procs, FindCape(p) \/ PutPicture(p) \/ CreateCape(p)
      PROVE  PostsInv'
  <2>1. Answer(p) \/ Goto(p, "cape.put") \/ Goto(p, "cape.create")
    BY <1>3 DEF FindCape, PutPicture, CreateCape
  <2>2. req'[p].stage # "role.create" /\ \A q \in Procs \ {p} : req'[q] = req[q]
    BY <2>1, AnswerApart DEF Apart, Goto, IInv, TablesTyped, Request
  <2>3. UNCHANGED posts
    BY <1>3 DEF FindCape, PutPicture, CreateCape
  <2> QED BY <2>2, <2>3, PostsInvAway
<1>4. ASSUME NEW p \in Procs, Away(p) PROVE PostsInv'
  BY <1>4, PostsInvAway DEF Away, Apart
<1> QED
  BY <1>1, <1>2, <1>3, <1>4, StepsApart, PostsInvClear, PostsInvCreate

LEMMA PostsInvInit == Init => PostsInv
<1> SUFFICES ASSUME Init, NEW id \in Nat, NEW dept \in Departaments
             PROVE  PostsWithin(id, dept)
  BY DEF PostsInv
<1>1. Creators(id, dept) = {}
  BY DEF Init, Creators, Creates, At, Idle
<1>2. \A r, q \in PostsOf(id, dept) : r = q
  BY OnePostAssumption DEF Init, PostsOf
<1>3. Cardinality(Procs) \in Nat /\ Cardinality(Procs) >= 1
  BY ProcsAssumption, FS_EmptySet, FS_CardinalityType
<1>4. CASE PostsOf(id, dept) = {}
  BY <1>1, <1>3, <1>4, FS_EmptySet DEF PostsWithin
<1>5. CASE PostsOf(id, dept) # {}
  <2>1. PICK r : PostsOf(id, dept) = {r}
    BY <1>2, <1>5
  <2>2. IsFiniteSet({r}) /\ Cardinality({r}) = 1 /\ Cardinality({}) = 0
    BY FS_EmptySet, FS_Singleton
  <2>3. Cardinality({r}) + Cardinality({}) <= Cardinality(Procs)
    BY <1>3, <2>2
  <2> QED BY <1>1, <2>1, <2>2, <2>3 DEF PostsWithin
<1> QED BY <1>4, <1>5

(***************************************************************************)
(* However many calls of setUserRole race on a member, whichever of their  *)
(* queries fail, the member ends with no more roles of one departament     *)
(* than requests were in flight together.                                  *)
(***************************************************************************)
THEOREM PostsBoundedByRequests == Spec => []PostsUnderRaces
<1>1. IInv /\ PostsInv => PostsUnderRaces
  <2> SUFFICES ASSUME IInv, PostsInv, NEW id \in DOMAIN member, NEW dept \in Departaments
               PROVE  Cardinality(PostsOf(id, dept)) <= Cardinality(Procs)
    BY DEF PostsUnderRaces
  <2>1. PostsWithin(id, dept)
    BY DEF PostsInv, IInv, TablesTyped
  <2>2. Cardinality(PostsOf(id, dept)) \in Nat
    BY <2>1, FS_CardinalityType DEF PostsWithin
  <2> QED BY <2>1, <2>2, CreatorsFinite DEF PostsWithin
<1> QED
  BY <1>1, InitInv, NextInv, PostsInvInit, PostsInvNext, PTL DEF Spec
-----------------------------------------------------------------------------
(***************************************************************************)
(* Whom a request is about.  While a call is in flight its nicks do not    *)
(* change, so clients who take turns when they call take turns until the   *)
(* answer.                                                                 *)
(***************************************************************************)
Keeps(p) ==
    /\ ~ At(p, "idle")
    /\ \A q \in Procs \ {p} : req'[q] = req[q]
    /\ \/ req'[p] = Idle
       \/ /\ req'[p].who = req[p].who
          /\ req'[p].call.op = req[p].call.op       /\ req'[p].call.actor = req[p].call.actor
          /\ req'[p].call.nicks = req[p].call.nicks /\ req'[p].call.file = req[p].call.file

LEMMA KeepsChange ==
    ASSUME IInv, NEW p \in Procs, NEW r, req' = [req EXCEPT ![p] = r],
           r = Idle \/ (r.who = req[p].who /\ r.call = req[p].call), ~ At(p, "idle")
    PROVE  Keeps(p)
BY DEF IInv, TablesTyped, Keeps

LEMMA AnswerKeeps ==
    ASSUME IInv, NEW p \in Procs, Answer(p), ~ At(p, "idle")
    PROVE  Keeps(p)
BY KeepsChange DEF Answer

LEMMA GotoKeeps ==
    ASSUME IInv, NEW p \in Procs, NEW stage, Goto(p, stage), ~ At(p, "idle")
    PROVE  Keeps(p)
BY DEF IInv, TablesTyped, Keeps, Goto, Request

LEMMA TargetKeeps ==
    ASSUME IInv, NEW p \in Procs, NEW stage, NEW id, ~ At(p, "idle"),
           req' = [req EXCEPT ![p].stage = stage, ![p].target = id]
    PROVE  Keeps(p)
BY DEF IInv, TablesTyped, Keeps, Request

LEMMA SettleKeeps ==
    ASSUME IInv, NEW p \in Procs, NEW w, Settle(p, w), req[p].stage \in Settling
    PROVE  Keeps(p)
<1>1. ~ At(p, "idle")
  BY DEF At, Settling
<1>2. CASE Answer(p)
  BY <1>1, <1>2, AnswerKeeps
<1>3. CASE req' = [req EXCEPT ![p].todo = @ \ {w}]
  BY <1>1, <1>3 DEF IInv, TablesTyped, Keeps, Request
<1> QED BY <1>2, <1>3 DEF Settle

LEMMA OnwardKeeps ==
    ASSUME IInv, NEW p \in Procs, NEW again, NEW next
    PROVE  /\ Onward(p, again, next).who = req[p].who
           /\ Onward(p, again, next).call = req[p].call
BY DEF Onward, IInv, TablesTyped, Request

LEMMA DepartamentKeeps ==
    ASSUME IInv, NEW p \in Procs, DepartamentStep(p)
    PROVE  Keeps(p)
<1>0. req \in [Procs -> Request]
  BY DEF IInv, TablesTyped
<1>1. CASE FindForRole(p)
  <2>1. ~ At(p, "idle")
    BY <1>1 DEF FindForRole, At
  <2>2. Answer(p) \/ \E id : req' = [req EXCEPT ![p].stage = "role.clear", ![p].target = id]
    BY <1>1 DEF FindForRole
  <2> QED BY <2>1, <2>2, AnswerKeeps, TargetKeeps
<1>2. CASE ClearRoles(p)
  BY <1>2, GotoKeeps DEF ClearRoles, At
<1>3. CASE CreateRole(p) \/ RemoveRole(p)
  BY <1>3, AnswerKeeps DEF CreateRole, RemoveRole, At
<1>4. CASE FindForRemoval(p)
  <2>1. ~ At(p, "idle")
    BY <1>4 DEF FindForRemoval, At
  <2>2. Answer(p) \/ \E r : req' = [req EXCEPT ![p].stage = "drop.delete", ![p].target = r.user,
                                               ![p].call.about = r.role]
    BY <1>4 DEF FindForRemoval
  <2>3. ASSUME NEW r, req' = [req EXCEPT ![p].stage = "drop.delete", ![p].target = r.user,
                                         ![p].call.about = r.role]
        PROVE  Keeps(p)
    <3> DEFINE c == [req[p].call EXCEPT !.about = r.role]
               n == [req[p] EXCEPT !.stage = "drop.delete", !.target = r.user, !.call = c]
    <3>1. req[p].call \in Call
      BY <1>0 DEF Request
    <3>2. /\ c.op = req[p].call.op /\ c.actor = req[p].call.actor
          /\ c.nicks = req[p].call.nicks /\ c.file = req[p].call.file
      BY <3>1 DEF Call
    <3>3. req' = [req EXCEPT ![p] = n] /\ n.who = req[p].who /\ n.call = c
      BY <1>0, <2>3 DEF Request
    <3>4. req'[p] = n /\ \A q \in Procs \ {p} : req'[q] = req[q]
      BY <1>0, <3>3
    <3> HIDE DEF n, c
    <3> QED BY <2>1, <3>2, <3>3, <3>4 DEF Keeps
  <2> QED BY <2>1, <2>2, <2>3, AnswerKeeps
<1>5. CASE CheckApproved(p)
  <2> DEFINE o == Onward(p, "class.check", AfterCheck(About(p)))
  <2>1. Answer(p) \/ req' = [req EXCEPT ![p] = o]
    BY <1>5 DEF CheckApproved
  <2>2. o.who = req[p].who /\ o.call = req[p].call
    BY OnwardKeeps
  <2> HIDE DEF o
  <2> QED BY <1>5, <2>1, <2>2, AnswerKeeps, KeepsChange DEF CheckApproved, At
<1>6. CASE FindToEnlist(p)
  BY <1>6, TargetKeeps DEF FindToEnlist, At
<1>7. CASE Enlist(p)
  <2> DEFINE o == Onward(p, "class.enrol", "class.collect")
             r == [o EXCEPT !.target = NoId]
  <2>1. Answer(p) \/ req' = [req EXCEPT ![p] = r]
    BY <1>7 DEF Enlist
  <2>2. r.who = req[p].who /\ r.call = req[p].call
    BY <1>0, OnwardKeeps DEF Onward, Request
  <2> HIDE DEF r, o
  <2> QED BY <1>7, <2>1, <2>2, AnswerKeeps, KeepsChange DEF Enlist, At
<1>8. CASE CollectApproved(p)
  <2> DEFINE o == Onward(p, "class.collect", "class.settle")
             r == [o EXCEPT !.ids  = Append(@, Find(Canon[Reached(p)])),
                            !.todo = {"permissions", "log", "class"}]
  <2>1. Answer(p) \/ req' = [req EXCEPT ![p] = r]
    BY <1>8 DEF CollectApproved
  <2>2. r.who = req[p].who /\ r.call = req[p].call
    BY <1>0, OnwardKeeps DEF Onward, Request
  <2> HIDE DEF r, o
  <2> QED BY <1>8, <2>1, <2>2, AnswerKeeps, KeepsChange DEF CollectApproved, At
<1>9. CASE GiveCourses(p) \/ LogApproved(p) \/ RecordClass(p)
  BY <1>9, SettleKeeps DEF GiveCourses, LogApproved, RecordClass, At, Settling
<1> QED
  BY <1>1, <1>2, <1>3, <1>4, <1>5, <1>6, <1>7, <1>8, <1>9 DEF DepartamentStep

LEMMA AccountKeeps ==
    ASSUME IInv, NEW p \in Procs, AccountStep(p)
    PROVE  Keeps(p)
<1>0. req \in [Procs -> Request]
  BY DEF IInv, TablesTyped
<1>1. CASE FindToFire(p)
  <2>1. Answer(p) \/ \E id : req' = [req EXCEPT ![p].stage = "fire.settle", ![p].target = id,
                                                ![p].todo = FireWrites]
    BY <1>1 DEF FindToFire
  <2>2. ~ At(p, "idle")
    BY <1>1 DEF FindToFire, At
  <2>3. ASSUME NEW id, req' = [req EXCEPT ![p].stage = "fire.settle", ![p].target = id,
                                          ![p].todo = FireWrites]
        PROVE  Keeps(p)
    BY <1>0, <2>2, <2>3 DEF Keeps, Request
  <2> QED BY <2>1, <2>2, <2>3, AnswerKeeps
<1>2. CASE Dismiss(p) \/ LogDismissal(p) \/ TakePermissions(p) \/ TakePosts(p)
  BY <1>2, SettleKeeps DEF Dismiss, LogDismissal, TakePermissions, TakePosts, At, Settling
<1>3. CASE FindToContract(p)
  BY <1>3, TargetKeeps DEF FindToContract, At
<1>4. CASE ContractWrite(p)
  BY <1>4, TargetKeeps, GotoKeeps, AnswerKeeps DEF ContractWrite, At
<1>5. CASE FindPrevious(p)
  <2>1. Answer(p) \/ \E id : req' = [req EXCEPT ![p].stage = "nick.new", ![p].target = id]
    BY <1>5 DEF FindPrevious
  <2> QED BY <1>5, <2>1, TargetKeeps, AnswerKeeps DEF FindPrevious, At
<1>6. CASE FindNew(p)
  <2>1. \/ Answer(p) \/ Goto(p, "nick.update")
        \/ \E id : req' = [req EXCEPT ![p].stage = "nick.move", ![p].other = id]
    BY <1>6 DEF FindNew
  <2>2. ~ At(p, "idle")
    BY <1>6 DEF FindNew, At
  <2>3. ASSUME NEW id, req' = [req EXCEPT ![p].stage = "nick.move", ![p].other = id]
        PROVE  Keeps(p)
    BY <1>0, <2>2, <2>3 DEF Keeps, Request
  <2> QED BY <2>1, <2>2, <2>3, GotoKeeps, AnswerKeeps
<1>7. CASE MoveHistory(p) \/ DeleteMember(p) \/ Rename(p)
  BY <1>7, GotoKeeps, AnswerKeeps DEF MoveHistory, DeleteMember, Rename, At
<1>8. CASE LogContract(p) \/ LogRename(p) \/ CreateSession(p) \/ Unlock(p)
  BY <1>8, AnswerKeeps DEF LogContract, LogRename, CreateSession, Unlock, At
<1>9. CASE FindToUnlock(p)
  <2>1. Answer(p) \/ \E id : req' = [req EXCEPT ![p].stage = "code.session", ![p].target = id]
    BY <1>9 DEF FindToUnlock
  <2> QED BY <1>9, <2>1, TargetKeeps, AnswerKeeps DEF FindToUnlock, At
<1>10. CASE ReadSession(p)
  BY <1>10, GotoKeeps, AnswerKeeps DEF ReadSession, At
<1> QED
  BY <1>1, <1>2, <1>3, <1>4, <1>5, <1>6, <1>7, <1>8, <1>9, <1>10 DEF AccountStep

LEMMA CapeKeeps ==
    ASSUME IInv, NEW p \in Procs, CapeStep(p)
    PROVE  Keeps(p)
<1>1. CASE FindCape(p) \/ PutPicture(p) \/ CreateCape(p) \/ GiveCape(p) \/ WearCape(p)
  BY <1>1, GotoKeeps, AnswerKeeps DEF FindCape, PutPicture, CreateCape, GiveCape, WearCape, At
<1>2. CASE FindToGive(p)
  <2>1. Answer(p) \/ \E id : req' = [req EXCEPT ![p].stage = "give.create", ![p].target = id]
    BY <1>2 DEF FindToGive
  <2> QED BY <1>2, <2>1, TargetKeeps, AnswerKeeps DEF FindToGive, At
<1> QED BY <1>1, <1>2 DEF CapeStep

(* Every step of a request in flight keeps its call, or ends it.           *)
LEMMA StepKeeps ==
    ASSUME IInv, NEW p \in Procs, Step(p) \/ FailQuery(p) \/ LoseWrite(p)
    PROVE  Keeps(p)
<1>1. FailQuery(p) => Keeps(p)
  BY AnswerKeeps DEF FailQuery, At
<1>2. LoseWrite(p) => Keeps(p)
  BY SettleKeeps DEF LoseWrite
<1>3. CareerStep(p) => Keeps(p)
  BY RankGoesOn, AnswerKeeps DEF Keeps, At, RankStages
<1> QED BY <1>1, <1>2, <1>3, DepartamentKeeps, AccountKeeps, CapeKeeps DEF Step
-----------------------------------------------------------------------------
(***************************************************************************)
(* The stages whose requests have read something by nick that they, or the *)
(* properties below, count on later, and the steps that lead there.        *)
(***************************************************************************)
FireStages == {"fire.find", "fire.settle"}
CodeStages == {"code.user", "code.session", "code.update"}
Watched == RoleStages \cup FireStages \cup CodeStages \cup NickStages
              \cup {"contract.find", "contract.write", "class.enlist", "wear.update",
                    "rank.find", "rank.cfo", "rank.settle"}

Off(p) == req'[p].stage \notin Watched

\* The same request, with less to do.
Dismissing(p) ==
    /\ req[p].stage = "fire.settle"
    /\ req'[p].stage = "fire.settle" /\ req'[p].target = req[p].target
    /\ req'[p].call = req[p].call /\ req'[p].at = req[p].at

\* A change of rank that has read whom it is about, or goes on.
Reranks(p) ==
    /\ req[p].stage \in RankStages /\ req'[p].stage \in {"rank.cfo", "rank.settle"}
    /\ req'[p].call.nicks = req[p].call.nicks
    /\ \/ /\ req[p].stage = "rank.find"
          /\ req'[p].target = Find(Spelled(req[p].call.nicks[1]))
          /\ req'[p].target \in DOMAIN member
          /\ UNCHANGED member
       \/ /\ req[p].stage \in {"rank.cfo", "rank.settle"}
          /\ req'[p].target = req[p].target

Leading(p) ==
    \/ FindForRole(p) \/ ClearRoles(p) \/ FindToEnlist(p) \/ FindToFire(p) \/ Dismissing(p)
    \/ FindToContract(p) \/ FindPrevious(p) \/ FindNew(p) \/ MoveHistory(p) \/ DeleteMember(p)
    \/ Rename(p) \/ FindToUnlock(p) \/ ReadSession(p)

LEMMA OffTo ==
    ASSUME IInv, NEW p \in Procs
    PROVE  /\ Answer(p) => Off(p)
           /\ \A r : req' = [req EXCEPT ![p] = r] /\ r.stage \notin Watched => Off(p)
           /\ \A stage : Goto(p, stage) /\ stage \notin Watched => Off(p)
           /\ \A stage, id : /\ req' = [req EXCEPT ![p].stage = stage, ![p].target = id]
                             /\ stage \notin Watched
                             => Off(p)
<1>0. req \in [Procs -> Request]
  BY DEF IInv, TablesTyped
<1>1. Answer(p) => Off(p)
  BY <1>0 DEF Answer, Idle, Off, Watched, RoleStages, FireStages, CodeStages, NickStages
<1>2. ASSUME NEW r, req' = [req EXCEPT ![p] = r], r.stage \notin Watched
      PROVE  Off(p)
  BY <1>0, <1>2 DEF Off
<1>3. ASSUME NEW stage, Goto(p, stage), stage \notin Watched
      PROVE  Off(p)
  BY <1>0, <1>3 DEF Off, Goto, Request
<1>4. ASSUME NEW stage, NEW id, stage \notin Watched,
             req' = [req EXCEPT ![p].stage = stage, ![p].target = id]
      PROVE  Off(p)
  BY <1>0, <1>4 DEF Off, Request
<1> QED BY <1>1, <1>2, <1>3, <1>4

LEMMA OffSettle ==
    ASSUME IInv, NEW p \in Procs, NEW w, Settle(p, w), req[p].stage \in Settling
    PROVE  Off(p) \/ Dismissing(p) \/ Reranks(p)
<1>0. req \in [Procs -> Request]
  BY DEF IInv, TablesTyped
<1>1. CASE Answer(p)
  BY <1>1, OffTo
<1>2. CASE req' = [req EXCEPT ![p].todo = @ \ {w}]
  <2>1. /\ req'[p].stage = req[p].stage /\ req'[p].target = req[p].target
        /\ req'[p].call = req[p].call /\ req'[p].at = req[p].at
    BY <1>0, <1>2 DEF Request
  <2>2. "class.settle" \notin Watched
    BY DEF Watched, RoleStages, FireStages, CodeStages, NickStages
  <2> QED BY <2>1, <2>2 DEF Off, Dismissing, Reranks, RankStages, Settling
<1> QED BY <1>1, <1>2 DEF Settle

LEMMA DepartamentLeads ==
    ASSUME IInv, NEW p \in Procs, DepartamentStep(p)
    PROVE  Off(p) \/ Leading(p)
<1>0. req \in [Procs -> Request]
  BY DEF IInv, TablesTyped
<1>1. {"class.check", "class.enrol", "class.collect", "class.settle", "drop.delete"}
        \cap Watched = {}
  BY DEF Watched, RoleStages, FireStages, CodeStages, NickStages
<1>2. CASE CreateRole(p) \/ RemoveRole(p)
  BY <1>2, OffTo DEF CreateRole, RemoveRole
<1>3. CASE FindForRemoval(p)
  <2>1. Answer(p) \/ \E r : req' = [req EXCEPT ![p].stage = "drop.delete", ![p].target = r.user,
                                               ![p].call.about = r.role]
    BY <1>3 DEF FindForRemoval
  <2>2. ASSUME NEW r, req' = [req EXCEPT ![p].stage = "drop.delete", ![p].target = r.user,
                                         ![p].call.about = r.role]
        PROVE  Off(p)
    BY <1>0, <1>1, <2>2 DEF Off, Request
  <2> QED BY <2>1, <2>2, OffTo
<1>4. ASSUME NEW again, NEW next
      PROVE  Onward(p, again, next).stage \in {again, next}
  BY <1>0 DEF Onward, Request
<1>5. CASE CheckApproved(p)
  <2> DEFINE o == Onward(p, "class.check", AfterCheck(About(p)))
  <2>1. Answer(p) \/ req' = [req EXCEPT ![p] = o]
    BY <1>5 DEF CheckApproved
  <2>2. o.stage \in {"class.check", "class.enrol", "class.collect"}
    BY <1>4 DEF AfterCheck
  <2> HIDE DEF o
  <2> QED BY <1>1, <2>1, <2>2, OffTo
<1>6. CASE Enlist(p)
  <2> DEFINE o == Onward(p, "class.enrol", "class.collect")
             r == [o EXCEPT !.target = NoId]
  <2>1. Answer(p) \/ req' = [req EXCEPT ![p] = r]
    BY <1>6 DEF Enlist
  <2>2. o.stage \in {"class.enrol", "class.collect"}
    BY <1>4
  <2>3. r.stage = o.stage
    BY <1>0 DEF Onward, Request
  <2> HIDE DEF r, o
  <2> QED BY <1>1, <2>1, <2>2, <2>3, OffTo
<1>7. CASE CollectApproved(p)
  <2> DEFINE o == Onward(p, "class.collect", "class.settle")
             r == [o EXCEPT !.ids  = Append(@, Find(Canon[Reached(p)])),
                            !.todo = {"permissions", "log", "class"}]
  <2>1. Answer(p) \/ req' = [req EXCEPT ![p] = r]
    BY <1>7 DEF CollectApproved
  <2>2. o.stage \in {"class.collect", "class.settle"}
    BY <1>4
  <2>3. r.stage = o.stage
    BY <1>0 DEF Onward, Request
  <2> HIDE DEF r, o
  <2> QED BY <1>1, <2>1, <2>2, <2>3, OffTo
<1>8. CASE GiveCourses(p) \/ LogApproved(p) \/ RecordClass(p)
  <2>1. PICK w : Settle(p, w)
    BY <1>8 DEF GiveCourses, LogApproved, RecordClass
  <2> QED BY <1>8, <2>1, OffSettle
         DEF GiveCourses, LogApproved, RecordClass, At, Settling, Leading, Reranks, RankStages
<1> QED
  BY <1>2, <1>3, <1>5, <1>6, <1>7, <1>8 DEF DepartamentStep, Leading

LEMMA AccountLeads ==
    ASSUME IInv, NEW p \in Procs, AccountStep(p)
    PROVE  Off(p) \/ Leading(p)
<1>1. CASE Dismiss(p) \/ LogDismissal(p) \/ TakePermissions(p) \/ TakePosts(p)
  <2>1. PICK w : Settle(p, w)
    BY <1>1 DEF Dismiss, LogDismissal, TakePermissions, TakePosts
  <2> QED BY <1>1, <2>1, OffSettle
         DEF Dismiss, LogDismissal, TakePermissions, TakePosts, At, Settling, Leading, Reranks,
             RankStages
<1>2. CASE ContractWrite(p)
  <2>1. "contract.log" \notin Watched
    BY DEF Watched, RoleStages, FireStages, CodeStages, NickStages
  <2> QED BY <1>2, <2>1, OffTo DEF ContractWrite
<1>3. CASE LogContract(p) \/ LogRename(p) \/ CreateSession(p) \/ Unlock(p)
  BY <1>3, OffTo DEF LogContract, LogRename, CreateSession, Unlock
<1> QED
  BY <1>1, <1>2, <1>3 DEF AccountStep, Leading

LEMMA CapeLeads ==
    ASSUME IInv, NEW p \in Procs, CapeStep(p)
    PROVE  Off(p)
<1>1. {"cape.put", "cape.create", "give.create"} \cap Watched = {}
  BY DEF Watched, RoleStages, FireStages, CodeStages, NickStages
<1>2. CASE FindCape(p) \/ PutPicture(p) \/ CreateCape(p) \/ GiveCape(p) \/ WearCape(p)
  BY <1>1, <1>2, OffTo DEF FindCape, PutPicture, CreateCape, GiveCape, WearCape
<1>3. CASE FindToGive(p)
  <2>1. Answer(p) \/ \E id : req' = [req EXCEPT ![p].stage = "give.create", ![p].target = id]
    BY <1>3 DEF FindToGive
  <2> QED BY <1>1, <2>1, OffTo
<1> QED BY <1>2, <1>3 DEF CapeStep

LEMMA CareerLeads ==
    ASSUME IInv, NEW p \in Procs, CareerStep(p)
    PROVE  Off(p) \/ Reranks(p)
<1>0. req \in [Procs -> Request]
  BY DEF IInv, TablesTyped
<1>1. CASE FindToRank(p)
  <2>1. CASE Answer(p)
    BY <2>1, OffTo
  <2>2. ASSUME NEW stage \in {"rank.cfo", "rank.settle"}, NEW id, NEW role,
               Ranking(p, stage, id, role), id \in DOMAIN member,
               id = Find(Spelled(req[p].call.nicks[1]))
        PROVE  Reranks(p)
    <3> DEFINE c == [req[p].call EXCEPT !.about = role]
    <3>a. c.nicks = req[p].call.nicks
      BY <1>0 DEF Request, Call
    <3>b. req'[p] = [req[p] EXCEPT !.stage = stage, !.target = id, !.call = c,
                                   !.todo = RankWrites]
      BY <1>0, <2>2 DEF Ranking
    <3>c. req[p] \in Request
      BY <1>0
    <3> HIDE DEF c
    <3>1. /\ req'[p].stage = stage /\ req'[p].target = id
          /\ req'[p].call.nicks = req[p].call.nicks
      BY <3>a, <3>b, <3>c DEF Request
    <3>2. req[p].stage = "rank.find" /\ UNCHANGED member
      BY <1>1 DEF FindToRank, At, tables, people
    <3> QED BY <2>2, <3>1, <3>2 DEF Reranks, RankStages
  <2> QED BY <1>1, <2>1, <2>2, RankFound DEF MayRank
<1>2. CASE RevokeCfo(p)
  BY <1>0, <1>2 DEF RevokeCfo, At, Goto, Reranks, RankStages, Request
<1>3. CASE Rerank(p) \/ LogRank(p) \/ TakeCourses(p)
  <2>1. req[p].stage = "rank.settle" /\ \E w : Settle(p, w)
    BY <1>3 DEF Rerank, LogRank, TakeCourses, At
  <2> QED BY <2>1, OffSettle DEF Settling, Dismissing
<1> QED BY <1>1, <1>2, <1>3 DEF CareerStep

LEMMA StepLeads ==
    ASSUME IInv, NEW p \in Procs, Step(p) \/ FailQuery(p) \/ LoseWrite(p)
    PROVE  Off(p) \/ Leading(p) \/ Reranks(p)
<1>1. FailQuery(p) => Off(p)
  BY OffTo DEF FailQuery
<1>2. LoseWrite(p) => Off(p) \/ Leading(p) \/ Reranks(p)
  BY OffSettle DEF LoseWrite, Leading
<1> QED BY <1>1, <1>2, DepartamentLeads, AccountLeads, CapeLeads, CareerLeads DEF Step
-----------------------------------------------------------------------------
(***************************************************************************)
(* Nicks.  Nobody ever has the nick of another, whatever races: a row is   *)
(* created and a nick changed only when the nick is free at that moment.   *)
(***************************************************************************)
NicksUnique == \A i, j \in DOMAIN member : member[i].nick = member[j].nick => i = j

LEMMA FindIs ==
    ASSUME IInv, NicksUnique, NEW nick, NEW id
    PROVE  /\ id \in WithNick(nick) => /\ Find(nick) = id /\ id # NoId
                                       /\ id \in DOMAIN member /\ member[id].nick = nick
           /\ Find(nick) = id /\ id # NoId => id \in WithNick(nick)
<1>1. DOMAIN member \subseteq Nat \ {0}
  BY DEF IInv, TablesTyped
<1>2. WithNick(nick) # {} => Find(nick) \in WithNick(nick)
  BY DEF Find
<1>3. WithNick(nick) = {} => Find(nick) = NoId
  BY DEF Find
<1> QED
  BY <1>1, <1>2, <1>3 DEF WithNick, NicksUnique, NoId

LEMMA SameFind ==
    ASSUME NEW nick, WithNick(nick)' = WithNick(nick)
    PROVE  Find(nick)' = Find(nick)
BY DEF Find

(* What a step may do to the User table: a row is written anew under the   *)
(* nick it has, a member joins under a free nick, one leaves, or one takes *)
(* a free nick.                                                            *)
Rewrites(id) ==
    /\ id \in DOMAIN member /\ DOMAIN member' = DOMAIN member
    /\ member'[id].nick = member[id].nick
    /\ \A i \in DOMAIN member \ {id} : member'[i] = member[i]

Joins(nick) ==
    /\ created + 1 \notin DOMAIN member /\ Find(nick) = NoId
    /\ DOMAIN member' = DOMAIN member \cup {created + 1}
    /\ member'[created + 1].nick = nick
    /\ \A i \in DOMAIN member : member'[i] = member[i]

Leaves(id) ==
    /\ DOMAIN member' = DOMAIN member \ {id}
    /\ \A i \in DOMAIN member \ {id} : member'[i] = member[i]

Renames(id, nick) ==
    /\ id \in DOMAIN member /\ DOMAIN member' = DOMAIN member
    /\ member'[id].nick = nick /\ WithNick(nick) \subseteq {id}
    /\ \A i \in DOMAIN member \ {id} : member'[i] = member[i]

LEMMA JoinedJoins ==
    ASSUME IInv, NEW row, member' = Joined(row), Find(row.nick) = NoId
    PROVE  Joins(row.nick)
<1>1. created \in Nat /\ DOMAIN member \subseteq 1..created
  BY DEF IInv, TablesTyped
<1>2. created + 1 \notin DOMAIN member
  BY <1>1
<1> QED BY <1>1, <1>2 DEF Joined, Joins

LEMMA AccountRows ==
    ASSUME IInv, NEW p \in Procs, AccountStep(p)
    PROVE  \/ UNCHANGED member
           \/ Unlock(p) /\ Rewrites(Find(req[p].call.nicks[1]))
           \/ Dismiss(p) /\ Rewrites(Find(Spelled(req[p].call.nicks[1])))
           \/ ContractWrite(p) /\ req[p].target # NoId /\ Rewrites(req[p].target)
           \/ ContractWrite(p) /\ Joins(NickIn(p, 1))
           \/ DeleteMember(p) /\ Leaves(req[p].other)
           \/ Rename(p) /\ Renames(Find(NickIn(p, 1)), NickIn(p, 2))
<1>0. member \in [DOMAIN member -> MemberRow]
  BY DEF IInv, TablesTyped
<1> USE DEF tables, people, wardrobe
<1>1. CASE Unlock(p)
  <2> DEFINE id == Find(req[p].call.nicks[1])
  <2>1. id # NoId => id \in DOMAIN member
    BY FindType
  <2>2. UNCHANGED member \/ (id # NoId /\ member' = [member EXCEPT ![id].isAccountActive = TRUE])
    BY <1>1 DEF Unlock
  <2> HIDE DEF id
  <2>3. UNCHANGED member \/ Rewrites(id)
    BY <1>0, <2>1, <2>2 DEF Rewrites, MemberRow
  <2> QED BY <1>1, <2>3 DEF id
<1>2. CASE Dismiss(p)
  <2> DEFINE id == Find(Spelled(req[p].call.nicks[1]))
  <2>1. id # NoId => id \in DOMAIN member
    BY FindType
  <2>2. UNCHANGED member \/ (id # NoId /\ member' = [member EXCEPT ![id] = Dismissed(@)])
    BY <1>2 DEF Dismiss
  <2> HIDE DEF id
  <2>3. UNCHANGED member \/ Rewrites(id)
    BY <1>0, <2>1, <2>2 DEF Rewrites, MemberRow, Dismissed
  <2> QED BY <1>2, <2>3 DEF id
<1>3. CASE ContractWrite(p)
  <2>1. CASE /\ member' = Joined(NewRow(NickIn(p, 1), Role(p)))
             /\ Find(NickIn(p, 1)) = NoId
    <3>1. NewRow(NickIn(p, 1), Role(p)).nick = NickIn(p, 1)
      BY DEF NewRow
    <3>2. Joins(NickIn(p, 1))
      BY <2>1, <3>1, JoinedJoins
    <3> QED BY <1>3, <3>2
  <2>2. CASE /\ req[p].target \in DOMAIN member /\ req[p].target # NoId
             /\ member' = [member EXCEPT ![req[p].target].roleName = Role(p)]
    BY <1>0, <1>3, <2>2 DEF Rewrites, MemberRow
  <2>3. CASE UNCHANGED member
    BY <2>3
  <2> QED BY <1>3, <2>1, <2>2, <2>3 DEF ContractWrite
<1>4. CASE DeleteMember(p)
  <2>1. \/ UNCHANGED member
        \/ /\ req[p].other \in DOMAIN member
           /\ member' = Restrict(member, DOMAIN member \ {req[p].other})
    BY <1>4 DEF DeleteMember
  <2> QED BY <1>4, <2>1 DEF Leaves, Restrict
<1>5. CASE Rename(p)
  <2> DEFINE id == Find(NickIn(p, 1))
             nick == NickIn(p, 2)
  <2>1. id # NoId => id \in DOMAIN member
    BY FindType
  <2>2. \/ UNCHANGED member
        \/ /\ id # NoId /\ WithNick(nick) \subseteq {id}
           /\ member' = [member EXCEPT ![id].nick = nick]
    BY <1>5 DEF Rename, ToRename
  <2> HIDE DEF id, nick
  <2>3. UNCHANGED member \/ Renames(id, nick)
    BY <1>0, <2>1, <2>2 DEF Renames, MemberRow
  <2> QED BY <1>5, <2>3 DEF id, nick
<1>6. CASE LogDismissal(p) \/ TakePermissions(p) \/ TakePosts(p) \/ LogContract(p)
           \/ MoveHistory(p) \/ LogRename(p) \/ FindToFire(p) \/ FindToContract(p)
           \/ FindPrevious(p) \/ FindNew(p) \/ CreateSession(p) \/ FindToUnlock(p)
           \/ ReadSession(p)
  BY <1>6 DEF LogDismissal, TakePermissions, TakePosts, LogContract, MoveHistory, LogRename,
              FindToFire, FindToContract, FindPrevious, FindNew, CreateSession, FindToUnlock,
              ReadSession
<1> QED
  BY <1>1, <1>2, <1>3, <1>4, <1>5, <1>6 DEF AccountStep

LEMMA OtherRows ==
    ASSUME IInv, NEW p \in Procs, DepartamentStep(p) \/ CapeStep(p)
    PROVE  \/ UNCHANGED member
           \/ WearCape(p) /\ Rewrites(Find(req[p].who.nick))
           \/ Enlist(p) /\ req[p].target # NoId /\ Rewrites(Find(Canon[Reached(p)]))
           \/ Enlist(p) /\ Joins(Canon[Reached(p)])
<1>0. member \in [DOMAIN member -> MemberRow]
  BY DEF IInv, TablesTyped
<1> USE DEF tables, people, wardrobe
<1>1. CASE WearCape(p)
  <2> DEFINE id == Find(req[p].who.nick)
  <2>1. id # NoId => id \in DOMAIN member
    BY FindType
  <2>2. UNCHANGED member \/ (id # NoId /\ member' = [member EXCEPT ![id].capeSelected = Cape(p)])
    BY <1>1 DEF WearCape
  <2> HIDE DEF id
  <2>3. UNCHANGED member \/ Rewrites(id)
    BY <1>0, <2>1, <2>2 DEF Rewrites, MemberRow
  <2> QED BY <1>1, <2>3 DEF id
<1>2. CASE Enlist(p)
  <2> DEFINE nick == Canon[Reached(p)]
             id   == Find(nick)
  <2>1. id # NoId => id \in DOMAIN member
    BY FindType
  <2>2. \/ UNCHANGED member
        \/ id = NoId /\ member' = Joined(NewRow(nick, "Soldado"))
        \/ req[p].target # NoId /\ id # NoId /\ member' = [member EXCEPT ![id] = EnlistedRow(@)]
    BY <1>2 DEF Enlist
  <2>3. CASE id = NoId /\ member' = Joined(NewRow(nick, "Soldado"))
    <3>1. NewRow(nick, "Soldado").nick = nick
      BY DEF NewRow
    <3>2. Joins(nick)
      BY <2>3, <3>1, JoinedJoins
    <3> QED BY <1>2, <3>2
  <2>4. CASE req[p].target # NoId /\ id # NoId /\ member' = [member EXCEPT ![id] = EnlistedRow(@)]
    <3> HIDE DEF id
    <3>1. Rewrites(id)
      BY <1>0, <2>1, <2>4 DEF Rewrites, MemberRow, EnlistedRow
    <3> QED BY <1>2, <2>4, <3>1 DEF id
  <2> QED BY <2>2, <2>3, <2>4
<1>3. CASE FindForRole(p) \/ ClearRoles(p) \/ CreateRole(p) \/ FindForRemoval(p)
           \/ RemoveRole(p) \/ CheckApproved(p) \/ FindToEnlist(p) \/ CollectApproved(p)
           \/ GiveCourses(p) \/ LogApproved(p) \/ RecordClass(p)
  BY <1>3 DEF FindForRole, ClearRoles, CreateRole, FindForRemoval, RemoveRole, CheckApproved,
              FindToEnlist, CollectApproved, GiveCourses, LogApproved, RecordClass
<1>4. CASE FindCape(p) \/ PutPicture(p) \/ CreateCape(p) \/ FindToGive(p) \/ GiveCape(p)
  BY <1>4 DEF FindCape, PutPicture, CreateCape, FindToGive, GiveCape
<1> QED
  BY <1>1, <1>2, <1>3, <1>4 DEF DepartamentStep, CapeStep

LEMMA CareerRows ==
    ASSUME IInv, NEW p \in Procs, CareerStep(p)
    PROVE  \/ UNCHANGED member
           \/ Rerank(p) /\ Rewrites(Find(Spelled(req[p].call.nicks[1])))
<1>0. member \in [DOMAIN member -> MemberRow]
  BY DEF IInv, TablesTyped
<1> DEFINE id == Find(Spelled(req[p].call.nicks[1]))
<1>1. id # NoId => id \in DOMAIN member
  BY FindType
<1>2. Rerank(p) => \/ UNCHANGED member
                   \/ id # NoId /\ member' = [member EXCEPT ![id].roleName = Role(p)]
  BY DEF Rerank
<1> HIDE DEF id
<1>3. Rerank(p) => UNCHANGED member \/ Rewrites(id)
  BY <1>0, <1>1, <1>2 DEF Rewrites, MemberRow
<1>4. UNCHANGED member \/ Rerank(p)
  BY RankEffects
<1> QED BY <1>3, <1>4 DEF id

LEMMA QuietRows ==
    ASSUME NEW p \in Procs, Submit(p) \/ FailQuery(p) \/ LoseWrite(p)
    PROVE  UNCHANGED <<member, scenario>>
<1> USE DEF tables, people, wardrobe
<1>1. CASE Submit(p)
  BY <1>1 DEF Submit, DepartamentSubmit, AccountSubmit, CapeSubmit, SubmitSetUserRole,
              SubmitDeleteUserRole, SubmitPostClass, SubmitFireUser, SubmitContractUser,
              SubmitChangeUserNick, SubmitSession, SubmitCode, SubmitCreateCape,
              SubmitAtributeCape, SubmitChangeUserCape, SubmitRankCall, Begin
<1> QED BY <1>1 DEF FailQuery, LoseWrite

LEMMA RewritesNicks ==
    ASSUME NEW id, Rewrites(id), NEW nick
    PROVE  WithNick(nick)' = WithNick(nick)
BY DEF Rewrites, WithNick

LEMMA NicksUniqueNext ==
    ASSUME IInv, NicksUnique, [Next]_vars
    PROVE  NicksUnique'
<1>1. CASE UNCHANGED member
  BY <1>1 DEF NicksUnique
<1>2. ASSUME NEW id, Rewrites(id) PROVE NicksUnique'
  BY <1>2 DEF Rewrites, NicksUnique
<1>3. ASSUME NEW nick, Joins(nick) PROVE NicksUnique'
  <2>1. WithNick(nick) = {}
    <3>1. DOMAIN member \subseteq Nat \ {0}
      BY DEF IInv, TablesTyped
    <3> QED BY <1>3, <3>1 DEF Joins, Find, WithNick, NoId
  <2> QED BY <1>3, <2>1 DEF Joins, NicksUnique, WithNick
<1>4. ASSUME NEW id, Leaves(id) PROVE NicksUnique'
  BY <1>4 DEF Leaves, NicksUnique
<1>5. ASSUME NEW id, NEW nick, Renames(id, nick) PROVE NicksUnique'
  BY <1>5 DEF Renames, NicksUnique, WithNick
<1>6. CASE Tick \/ UNCHANGED vars
  BY <1>1, <1>6 DEF Tick, vars, tables, people
<1>7. ASSUME NEW p \in Procs, Step(p) PROVE NicksUnique'
  BY <1>1, <1>2, <1>3, <1>4, <1>5, <1>7, AccountRows, OtherRows, CareerRows DEF Step
<1> QED
  BY <1>1, <1>6, <1>7, QuietRows DEF Next
-----------------------------------------------------------------------------
LEMMA ScenarioStays ==
    ASSUME IInv, [Next]_vars
    PROVE  scenario' = scenario
BY StepsApart
   DEF Away, SubmitCreateCape, Begin, FindCape, PutPicture, CreateCape, ClearRoles, CreateRole

(* What the steps that lead to a watched stage have read.                  *)
LEMMA LeadingTo ==
    ASSUME IInv, NEW p \in Procs, Leading(p), ~ Off(p)
    PROVE  /\ req'[p].call = req[p].call /\ req'[p].at = req[p].at
           /\ FindForRole(p) =>
                 /\ At(p, "role.find") /\ req'[p].stage = "role.clear"
                 /\ req'[p].target = Find(Nick(p)) /\ Find(Nick(p)) # NoId
                 /\ member[Find(Nick(p))].roleName # "Recruta"
                 /\ UNCHANGED member
           /\ ClearRoles(p) =>
                 /\ At(p, "role.clear") /\ req'[p].stage = "role.create"
                 /\ req'[p].target = req[p].target
                 /\ UNCHANGED member
           /\ FindToEnlist(p) =>
                 /\ At(p, "class.enrol") /\ req'[p].stage = "class.enlist"
                 /\ req'[p].target = Find(Canon[Reached(p)])
                 /\ UNCHANGED member
           /\ FindToFire(p) =>
                 /\ At(p, "fire.find") /\ req'[p].stage = "fire.settle"
                 /\ req'[p].target = Find(Spelled(req[p].call.nicks[1]))
                 /\ req'[p].target \in DOMAIN member /\ req'[p].todo = FireWrites
                 /\ UNCHANGED member
           /\ FindToContract(p) =>
                 /\ At(p, "contract.find") /\ req'[p].stage = "contract.write"
                 /\ req'[p].target = Find(NickIn(p, 1))
                 /\ UNCHANGED member
           /\ FindPrevious(p) =>
                 /\ At(p, "nick.prev") /\ req'[p].stage = "nick.new"
                 /\ req'[p].target = Find(NickIn(p, 1)) /\ Find(NickIn(p, 1)) # NoId
                 /\ UNCHANGED member
           /\ FindNew(p) =>
                 /\ At(p, "nick.new") /\ req'[p].target = req[p].target
                 /\ \/ req'[p].stage = "nick.update"
                    \/ /\ req'[p].stage = "nick.move"
                       /\ req'[p].other = Find(NickIn(p, 2)) /\ Find(NickIn(p, 2)) # NoId
                       /\ member[Find(NickIn(p, 2))].roleName = "Recruta"
                 /\ UNCHANGED member
           /\ MoveHistory(p) =>
                 /\ At(p, "nick.move") /\ req'[p].stage = "nick.delete"
                 /\ req'[p].target = req[p].target /\ req'[p].other = req[p].other
                 /\ UNCHANGED member
           /\ DeleteMember(p) =>
                 /\ At(p, "nick.delete") /\ req'[p].stage = "nick.update"
                 /\ req'[p].target = req[p].target
                 /\ Leaves(req[p].other)
           /\ Rename(p) => At(p, "nick.update") /\ req'[p].stage = "nick.log"
           /\ FindToUnlock(p) =>
                 /\ At(p, "code.user") /\ req'[p].stage = "code.session"
                 /\ req'[p].target = Find(req[p].call.nicks[1])
                 /\ WaitsForCode(Find(req[p].call.nicks[1]), req[p].call.op)
                 /\ UNCHANGED member
           /\ ReadSession(p) =>
                 /\ At(p, "code.session") /\ req'[p].stage = "code.update"
                 /\ req'[p].target = req[p].target
                 /\ UNCHANGED member
<1>0. req \in [Procs -> Request]
  BY DEF IInv, TablesTyped
<1>1. ~ Answer(p)
  BY OffTo
<1> USE DEF tables, people
<1>2. CASE FindForRole(p)
  <2>1. At(p, "role.find") /\ UNCHANGED member
    BY <1>2 DEF FindForRole
  <2>2. PICK id : /\ req' = [req EXCEPT ![p].stage = "role.clear", ![p].target = id]
                  /\ id = Find(Nick(p)) /\ id # NoId /\ member[id].roleName # "Recruta"
    BY <1>1, <1>2 DEF FindForRole, MayReceive
  <2>3. /\ req'[p].stage = "role.clear" /\ req'[p].target = id /\ req'[p].call = req[p].call
        /\ req'[p].at = req[p].at
    BY <1>0, <2>2 DEF Request
  <2> QED BY <2>1, <2>2, <2>3 DEF At, ClearRoles, FindToEnlist, FindToFire, FindToContract,
             FindPrevious, FindNew, MoveHistory, DeleteMember, Rename, FindToUnlock, ReadSession
<1>3. CASE ClearRoles(p)
  <2>1. /\ At(p, "role.clear") /\ UNCHANGED member /\ req'[p].stage = "role.create"
        /\ req'[p].target = req[p].target /\ req'[p].call = req[p].call
        /\ req'[p].at = req[p].at
    BY <1>0, <1>3 DEF ClearRoles, Goto, Request
  <2> QED BY <2>1 DEF At, FindForRole, FindToEnlist, FindToFire, FindToContract,
             FindPrevious, FindNew, MoveHistory, DeleteMember, Rename, FindToUnlock, ReadSession
<1>4. CASE FindToEnlist(p)
  <2> DEFINE id == Find(Canon[Reached(p)])
  <2>1. /\ At(p, "class.enrol") /\ UNCHANGED member
        /\ req' = [req EXCEPT ![p].stage = "class.enlist", ![p].target = id]
    BY <1>4 DEF FindToEnlist
  <2> HIDE DEF id
  <2>2. /\ req'[p].stage = "class.enlist" /\ req'[p].target = id /\ req'[p].call = req[p].call
        /\ req'[p].at = req[p].at
    BY <1>0, <2>1 DEF Request
  <2> QED BY <2>1, <2>2 DEF id, At, FindForRole, ClearRoles, FindToFire, FindToContract,
             FindPrevious, FindNew, MoveHistory, DeleteMember, Rename, FindToUnlock, ReadSession
<1>5. CASE FindToFire(p)
  <2> DEFINE id == Find(Spelled(req[p].call.nicks[1]))
  <2>1. /\ At(p, "fire.find") /\ UNCHANGED member /\ id \in DOMAIN member
        /\ req' = [req EXCEPT ![p].stage = "fire.settle", ![p].target = id,
                              ![p].todo = FireWrites]
    BY <1>1, <1>5 DEF FindToFire, MayFire
  <2> HIDE DEF id
  <2>2. /\ req'[p].stage = "fire.settle" /\ req'[p].target = id /\ req'[p].call = req[p].call
        /\ req'[p].at = req[p].at /\ req'[p].todo = FireWrites
    BY <1>0, <2>1 DEF Request
  <2> QED BY <2>1, <2>2 DEF id, At, FindForRole, ClearRoles, FindToEnlist, FindToContract,
             FindPrevious, FindNew, MoveHistory, DeleteMember, Rename, FindToUnlock, ReadSession
<1>6. CASE FindToContract(p)
  <2> DEFINE id == Find(NickIn(p, 1))
  <2>1. /\ At(p, "contract.find") /\ UNCHANGED member
        /\ req' = [req EXCEPT ![p].stage = "contract.write", ![p].target = id]
    BY <1>6 DEF FindToContract
  <2> HIDE DEF id
  <2>2. /\ req'[p].stage = "contract.write" /\ req'[p].target = id /\ req'[p].call = req[p].call
        /\ req'[p].at = req[p].at
    BY <1>0, <2>1 DEF Request
  <2> QED BY <2>1, <2>2 DEF id, At, FindForRole, ClearRoles, FindToEnlist, FindToFire,
             FindPrevious, FindNew, MoveHistory, DeleteMember, Rename, FindToUnlock, ReadSession
<1>7. CASE FindPrevious(p)
  <2> DEFINE id == Find(NickIn(p, 1))
  <2>1. /\ At(p, "nick.prev") /\ UNCHANGED member /\ id # NoId
        /\ req' = [req EXCEPT ![p].stage = "nick.new", ![p].target = id]
    BY <1>1, <1>7 DEF FindPrevious
  <2> HIDE DEF id
  <2>2. /\ req'[p].stage = "nick.new" /\ req'[p].target = id /\ req'[p].call = req[p].call
        /\ req'[p].at = req[p].at
    BY <1>0, <2>1 DEF Request
  <2> QED BY <2>1, <2>2 DEF id, At, FindForRole, ClearRoles, FindToEnlist, FindToFire,
             FindToContract, FindNew, MoveHistory, DeleteMember, Rename, FindToUnlock, ReadSession
<1>8. CASE FindNew(p)
  <2> DEFINE id == Find(NickIn(p, 2))
  <2>1. At(p, "nick.new") /\ UNCHANGED member
    BY <1>8 DEF FindNew
  <2>2. \/ Goto(p, "nick.update")
        \/ /\ id # NoId /\ member[id].roleName = "Recruta"
           /\ req' = [req EXCEPT ![p].stage = "nick.move", ![p].other = id]
    BY <1>1, <1>8 DEF FindNew, GivesWay
  <2> HIDE DEF id
  <2>3. /\ req'[p].target = req[p].target /\ req'[p].call = req[p].call
        /\ req'[p].at = req[p].at
        /\ \/ req'[p].stage = "nick.update"
           \/ /\ req'[p].stage = "nick.move" /\ req'[p].other = id
              /\ id # NoId /\ member[id].roleName = "Recruta"
    BY <1>0, <2>2 DEF Goto, Request
  <2> QED BY <2>1, <2>3 DEF id, At, FindForRole, ClearRoles, FindToEnlist, FindToFire,
             FindToContract, FindPrevious, MoveHistory, DeleteMember, Rename, FindToUnlock,
             ReadSession
<1>9. CASE MoveHistory(p)
  <2>1. At(p, "nick.move") /\ UNCHANGED member /\ Goto(p, "nick.delete")
    BY <1>1, <1>9 DEF MoveHistory
  <2>2. /\ req'[p].stage = "nick.delete" /\ req'[p].target = req[p].target
        /\ req'[p].other = req[p].other /\ req'[p].call = req[p].call
        /\ req'[p].at = req[p].at
    BY <1>0, <2>1 DEF Goto, Request
  <2> QED BY <2>1, <2>2 DEF At, FindForRole, ClearRoles, FindToEnlist, FindToFire,
             FindToContract, FindPrevious, FindNew, DeleteMember, Rename, FindToUnlock, ReadSession
<1>10. CASE DeleteMember(p)
  <2>1. /\ At(p, "nick.delete") /\ Goto(p, "nick.update")
        /\ member' = Restrict(member, DOMAIN member \ {req[p].other})
    BY <1>1, <1>10 DEF DeleteMember
  <2>2. /\ req'[p].stage = "nick.update" /\ req'[p].target = req[p].target
        /\ req'[p].call = req[p].call /\ req'[p].at = req[p].at
    BY <1>0, <2>1 DEF Goto, Request
  <2>3. Leaves(req[p].other)
    BY <2>1 DEF Leaves, Restrict
  <2> QED BY <2>1, <2>2, <2>3 DEF At, FindForRole, ClearRoles, FindToEnlist, FindToFire,
             FindToContract, FindPrevious, FindNew, MoveHistory, Rename, FindToUnlock, ReadSession
<1>11. CASE Rename(p)
  <2>1. At(p, "nick.update") /\ Goto(p, "nick.log")
    BY <1>1, <1>11 DEF Rename
  <2>2. req'[p].stage = "nick.log" /\ req'[p].call = req[p].call /\ req'[p].at = req[p].at
    BY <1>0, <2>1 DEF Goto, Request
  <2> QED BY <2>1, <2>2 DEF At, FindForRole, ClearRoles, FindToEnlist, FindToFire,
             FindToContract, FindPrevious, FindNew, MoveHistory, DeleteMember, FindToUnlock,
             ReadSession
<1>12. CASE FindToUnlock(p)
  <2> DEFINE id == Find(req[p].call.nicks[1])
  <2>1. /\ At(p, "code.user") /\ UNCHANGED member /\ WaitsForCode(id, req[p].call.op)
        /\ req' = [req EXCEPT ![p].stage = "code.session", ![p].target = id]
    BY <1>1, <1>12 DEF FindToUnlock
  <2> HIDE DEF id
  <2>2. /\ req'[p].stage = "code.session" /\ req'[p].target = id /\ req'[p].call = req[p].call
        /\ req'[p].at = req[p].at
    BY <1>0, <2>1 DEF Request
  <2> QED BY <2>1, <2>2 DEF id, At, FindForRole, ClearRoles, FindToEnlist, FindToFire,
             FindToContract, FindPrevious, FindNew, MoveHistory, DeleteMember, Rename, ReadSession
<1>13. CASE ReadSession(p)
  <2>1. At(p, "code.session") /\ UNCHANGED member /\ Goto(p, "code.update")
    BY <1>1, <1>13 DEF ReadSession
  <2>2. /\ req'[p].stage = "code.update" /\ req'[p].target = req[p].target
        /\ req'[p].call = req[p].call /\ req'[p].at = req[p].at
    BY <1>0, <2>1 DEF Goto, Request
  <2> QED BY <2>1, <2>2 DEF At, FindForRole, ClearRoles, FindToEnlist, FindToFire,
             FindToContract, FindPrevious, FindNew, MoveHistory, DeleteMember, Rename, FindToUnlock
<1>14. CASE Dismissing(p)
  <2>1. /\ At(p, "fire.settle") /\ req'[p].call = req[p].call
        /\ req'[p].at = req[p].at
    BY <1>14 DEF At, Dismissing
  <2> QED BY <2>1 DEF At, FindForRole, ClearRoles, FindToEnlist, FindToFire, FindToContract,
             FindPrevious, FindNew, MoveHistory, DeleteMember, Rename, FindToUnlock, ReadSession
<1> QED
  BY <1>2, <1>3, <1>4, <1>5, <1>6, <1>7, <1>8, <1>9, <1>10, <1>11, <1>12, <1>13, <1>14
     DEF Leading
-----------------------------------------------------------------------------
(***************************************************************************)
(* What a request knows of its call, whatever races.                       *)
(***************************************************************************)
Addressed(r) ==
    /\ r.stage \in RoleStages \cup FireStages \cup CodeStages \cup RankStages =>
          1 \in DOMAIN r.call.nicks
    /\ r.stage \in CodeStages \ {"code.user"} => Canon[r.call.nicks[1]] = r.call.nicks[1]
    /\ r.stage = "wear.update" => r.call.op = "changeUserCape" /\ r.who.nick = r.call.actor
    /\ r.stage \in NickStages => CallsOf("changeUserNick") # {}

AllAddressed == \A p \in Procs : Addressed(req[p])

LEMMA NickOfMember ==
    ASSUME IInv, NEW nick, Find(nick) # NoId
    PROVE  nick \in Nicks /\ Canon[nick] = nick /\ nick # NoNick
<1>1. Find(nick) \in WithNick(nick)
  BY DEF Find
<1>2. member \in [DOMAIN member -> MemberRow]
  BY DEF IInv, TablesTyped
<1> QED
  BY <1>1, <1>2, MembersAssumption DEF WithNick, MemberRow

LEMMA BegunAddressed ==
    ASSUME IInv, NEW p \in Procs, Submit(p)
    PROVE  Addressed(req'[p])
<1> USE DEF RoleStages, FireStages, CodeStages, NickStages, RankStages
<1>0. req \in [Procs -> Request]
  BY DEF IInv, TablesTyped
<1>1. ASSUME NEW call, NEW stage, NEW who, Begin(p, call, stage, who)
      PROVE  req'[p].stage = stage /\ req'[p].call = call /\ req'[p].who = who
  BY <1>0, <1>1 DEF Begin, Idle
<1>2. CASE SubmitSetUserRole(p)
  <2>1. PICK call \in CallsOf("setUserRole") : Begin(p, call, "role.find", Guarded(call.actor))
    BY <1>2 DEF SubmitSetUserRole
  <2>2. 1 \in DOMAIN call.nicks
    BY CallType DEF CallFits, Ops
  <2> QED BY <1>1, <2>1, <2>2 DEF Addressed
<1>3. CASE SubmitFireUser(p)
  <2>1. PICK call \in CallsOf("fireUser") : Begin(p, call, "fire.find", Guarded(call.actor))
    BY <1>3 DEF SubmitFireUser
  <2>2. 1 \in DOMAIN call.nicks
    BY CallType DEF CallFits, Ops
  <2> QED BY <1>1, <2>1, <2>2 DEF Addressed
<1>4. CASE SubmitCode(p)
  <2>1. PICK op \in CodeOps : \E call \in CallsOf(op) : Begin(p, call, "code.user", Nobody)
    BY <1>4 DEF SubmitCode
  <2>2. PICK call \in CallsOf(op) : Begin(p, call, "code.user", Nobody)
    BY <2>1
  <2>3. 1 \in DOMAIN call.nicks
    BY <2>1, CallType DEF CallFits, Ops, CodeOps
  <2> QED BY <1>1, <2>2, <2>3 DEF Addressed
<1>5. CASE SubmitChangeUserNick(p)
  <2>1. PICK call \in CallsOf("changeUserNick") :
           Begin(p, call, "nick.prev", Guarded(call.actor))
    BY <1>5 DEF SubmitChangeUserNick
  <2> QED BY <1>1, <2>1 DEF Addressed
<1>6. CASE SubmitChangeUserCape(p)
  <2>1. PICK call \in CallsOf("changeUserCape") :
           Begin(p, call, "wear.update", Guarded(call.actor))
    BY <1>6 DEF SubmitChangeUserCape
  <2>2. call.op = "changeUserCape" /\ Guarded(call.actor).nick = call.actor
    BY DEF CallsOf, Guarded
  <2> HIDE DEF Guarded
  <2> QED BY <1>1, <2>1, <2>2 DEF Addressed
<1>8. CASE SubmitRankCall(p)
  <2>1. PICK op \in RankOps : \E call \in CallsOf(op) :
           Begin(p, call, "rank.find", Guarded(call.actor))
    BY <1>8 DEF SubmitRankCall
  <2>2. PICK call \in CallsOf(op) : Begin(p, call, "rank.find", Guarded(call.actor))
    BY <2>1
  <2>3. 1 \in DOMAIN call.nicks
    BY <2>1, CallType DEF CallFits, Ops, RankOps
  <2> QED BY <1>1, <2>2, <2>3 DEF Addressed
<1>7. CASE \/ SubmitDeleteUserRole(p) \/ SubmitPostClass(p) \/ SubmitContractUser(p)
           \/ SubmitSession(p) \/ SubmitCreateCape(p) \/ SubmitAtributeCape(p)
  <2>1. PICK stage \in {"drop.find", "class.check", "contract.find", "session.create",
                        "cape.find", "give.find"} :
           \E call, who : Begin(p, call, stage, who)
    BY <1>7 DEF SubmitDeleteUserRole, SubmitPostClass, SubmitContractUser, SubmitSession,
                SubmitCreateCape, SubmitAtributeCape
  <2>2. req'[p].stage = stage
    BY <1>1, <2>1
  <2> QED BY <2>1, <2>2 DEF Addressed
<1> QED
  BY <1>2, <1>3, <1>4, <1>5, <1>6, <1>7, <1>8
     DEF Submit, DepartamentSubmit, AccountSubmit, CapeSubmit

LEMMA SubmitOthers ==
    ASSUME IInv, NEW p \in Procs, Submit(p)
    PROVE  \A q \in Procs \ {p} : req'[q] = req[q]
<1>1. SubmitCreateCape(p) \/ Apart(p)
  BY SubmitAway DEF Away
<1>2. CASE SubmitCreateCape(p)
  <2>1. PICK call : Begin(p, call, "cape.find", Guarded(call.actor))
    BY <1>2 DEF SubmitCreateCape
  <2> QED BY <2>1 DEF Begin, IInv, TablesTyped
<1> QED BY <1>1, <1>2 DEF Apart

LEMMA IdleAddressed == Addressed(Idle)
BY DEF Addressed, Idle, RoleStages, FireStages, CodeStages, NickStages, RankStages

LEMMA StepAddressed ==
    ASSUME IInv, NEW p \in Procs, Addressed(req[p]),
           Step(p) \/ FailQuery(p) \/ LoseWrite(p)
    PROVE  Addressed(req'[p])
<1> USE DEF RoleStages, FireStages, CodeStages, NickStages, RankStages
<1>1. CASE Off(p)
  BY <1>1 DEF Off, Watched, Addressed
<1>3. CASE Reranks(p)
  BY <1>3 DEF Reranks, Addressed
<1>2. CASE Leading(p) /\ ~ Off(p)
  <2> DEFINE r == req[p]
             s == req'[p]
  <2>0. s.call = r.call
    BY <1>2, LeadingTo
  <2>1. FindForRole(p) => s.stage = "role.clear" /\ r.stage = "role.find"
    BY <1>2, LeadingTo DEF At
  <2>2. ClearRoles(p) => s.stage = "role.create" /\ r.stage = "role.clear"
    BY <1>2, LeadingTo DEF At
  <2>3. FindToEnlist(p) => s.stage = "class.enlist"
    BY <1>2, LeadingTo DEF At
  <2>4. FindToFire(p) \/ Dismissing(p) => s.stage = "fire.settle" /\ r.stage \in FireStages
    BY <1>2, LeadingTo DEF At, Dismissing
  <2>5. FindToContract(p) => s.stage = "contract.write"
    BY <1>2, LeadingTo DEF At
  <2>6. FindPrevious(p) \/ FindNew(p) \/ MoveHistory(p) \/ DeleteMember(p) \/ Rename(p)
        => s.stage \in NickStages /\ r.stage \in NickStages
    BY <1>2, LeadingTo DEF At
  <2>7. FindToUnlock(p) => /\ s.stage = "code.session" /\ r.stage = "code.user"
                           /\ Find(r.call.nicks[1]) # NoId
    BY <1>2, LeadingTo DEF At, WaitsForCode
  <2>8. ReadSession(p) => s.stage = "code.update" /\ r.stage = "code.session"
    BY <1>2, LeadingTo DEF At
  <2>9. Find(r.call.nicks[1]) # NoId => Canon[r.call.nicks[1]] = r.call.nicks[1]
    BY NickOfMember
  <2> HIDE DEF r, s
  <2>10. Addressed(r)
    BY DEF r
  <2>11. Addressed(s)
    BY <1>2, <2>0, <2>1, <2>2, <2>3, <2>4, <2>5, <2>6, <2>7, <2>8, <2>9, <2>10
       DEF Addressed, Leading
  <2> QED BY <2>11 DEF s
<1> QED BY <1>1, <1>2, <1>3, StepLeads

LEMMA AddressedNext ==
    ASSUME IInv, AllAddressed, [Next]_vars
    PROVE  AllAddressed'
<1>0. scenario' = scenario
  BY ScenarioStays
<1>1. ASSUME NEW r, Addressed(r) PROVE Addressed(r)'
  BY <1>0, <1>1 DEF Addressed, CallsOf
<1>2. \A q \in Procs : Addressed(req'[q])
  <2>1. CASE UNCHANGED req
    BY <2>1 DEF AllAddressed
  <2>2. ASSUME NEW p \in Procs, Submit(p) PROVE \A q \in Procs : Addressed(req'[q])
    BY <2>2, BegunAddressed, SubmitOthers DEF AllAddressed
  <2>3. ASSUME NEW p \in Procs, Step(p) \/ FailQuery(p) \/ LoseWrite(p)
        PROVE  \A q \in Procs : Addressed(req'[q])
    BY <2>3, StepAddressed, StepKeeps DEF AllAddressed, Keeps
  <2> QED BY <2>1, <2>2, <2>3 DEF Next, Tick, vars
<1>3. \A q \in Procs : Addressed(req[q])'
  <2> SUFFICES ASSUME NEW q \in Procs PROVE Addressed(req[q])'
    OBVIOUS
  <2>1. PICK r : r = req'[q]
    OBVIOUS
  <2>2. Addressed(r)'
    BY <1>1, <1>2, <2>1
  <2> QED BY <2>1, <2>2 DEF Addressed, CallsOf
<1> QED BY <1>3 DEF AllAddressed

LEMMA AddressedInit == Init => AllAddressed
BY IdleAddressed DEF Init, AllAddressed
-----------------------------------------------------------------------------
(***************************************************************************)
(* What a request has read still holds when it writes, as long as clients  *)
(* take turns, or nobody changes a nick: the member it found under a nick  *)
(* is still the one with that nick.                                        *)
(***************************************************************************)
Calm == scenario.exclusive \/ CallsOf("changeUserNick") = {}

AboutStages == {"role.clear", "role.create", "fire.settle", "nick.new", "nick.move",
                "nick.delete", "code.session", "code.update", "rank.cfo", "rank.settle"}

StillRead(r) ==
    /\ r.stage \in AboutStages =>
          r.target # NoId /\ Find(Canon[r.call.nicks[1]]) = r.target
    /\ r.stage = "contract.write" /\ r.target # NoId =>
          Find(Canon[r.call.nicks[1]]) = r.target
    /\ r.stage = "nick.update" =>
          r.target # NoId /\ Find(Canon[r.call.nicks[1]]) \in {NoId, r.target}
    /\ r.stage = "class.enlist" /\ r.target # NoId =>
          Find(Canon[r.call.nicks[r.at]]) = r.target
    /\ r.stage = "wear.update" =>
          r.who.id # NoId /\ Find(r.who.nick) = r.who.id

StillThere(r) ==
    r.stage \in {"nick.move", "nick.delete"} =>
        r.other # NoId /\ Find(Canon[r.call.nicks[2]]) = r.other

TurnsApart ==
    \A p, q \in Procs :
        p # q => \/ At(p, "idle") \/ At(q, "idle")
                 \/ Named(req[p].call) \cap Named(req[q].call) = {}

CalmInv ==
    /\ NicksUnique /\ AllAddressed
    /\ Calm => \A p \in Procs : StillRead(req[p])
    /\ scenario.exclusive => TurnsApart /\ \A p \in Procs : StillThere(req[p])

LEMMA NamedIn ==
    ASSUME NEW call, NEW i \in DOMAIN call.nicks
    PROVE  Canon[call.nicks[i]] \in Named(call)
BY DEF Named

LEMMA SameNamed ==
    ASSUME NEW c, NEW d, d.op = c.op, d.actor = c.actor, d.nicks = c.nicks, d.file = c.file
    PROVE  Named(d) = Named(c)
BY DEF Named

(* Whose row a step writes, whose nick is taken and given: one the call    *)
(* names.                                                                  *)
LEMMA WritesNamed ==
    ASSUME IInv, CalmInv, Calm, NEW p \in Procs, Step(p)
    PROVE  \/ UNCHANGED member
           \/ \E nick \in Named(req[p].call) :
                 Find(nick) # NoId /\ Rewrites(Find(nick))
           \/ \E nick \in Named(req[p].call) : Joins(nick)
           \/ /\ scenario.exclusive
              /\ \E nick \in Named(req[p].call) :
                    Find(nick) # NoId /\ Leaves(Find(nick))
           \/ /\ scenario.exclusive
              /\ \E nick, new \in Named(req[p].call) :
                    Find(nick) # NoId /\ Renames(Find(nick), new)
<1>0. /\ req[p] \in Request /\ RequestSound(req[p]) /\ Addressed(req[p]) /\ StillRead(req[p])
      /\ DOMAIN member \subseteq Nat \ {0}
  BY DEF IInv, TablesTyped, RequestsSound, CalmInv, AllAddressed
<1>a. \A id : Rewrites(id) \/ Renames(id, NickIn(p, 2)) => id # NoId
  BY <1>0 DEF Rewrites, Renames, NoId
<1>1. CASE Unlock(p) /\ Rewrites(Find(req[p].call.nicks[1]))
  <2>1. req[p].stage = "code.update"
    BY <1>1 DEF Unlock, At
  <2>2. 1 \in DOMAIN req[p].call.nicks /\ Canon[req[p].call.nicks[1]] = req[p].call.nicks[1]
    BY <1>0, <2>1 DEF Addressed, CodeStages
  <2>3. req[p].call.nicks[1] \in Named(req[p].call)
    BY <2>2, NamedIn
  <2> QED BY <1>1, <1>a, <2>3
<1>2. CASE Dismiss(p) /\ Rewrites(Find(Spelled(req[p].call.nicks[1])))
  <2>1. 1 \in DOMAIN req[p].call.nicks
    BY <1>0, <1>2 DEF Dismiss, At, Addressed, FireStages
  <2>2. Spelled(req[p].call.nicks[1]) = Canon[req[p].call.nicks[1]]
    BY <1>2, <1>a, NickOfMember DEF Spelled
  <2>3. Spelled(req[p].call.nicks[1]) \in Named(req[p].call)
    BY <2>1, <2>2, NamedIn
  <2> QED BY <1>2, <1>a, <2>3
<1>3. CASE ContractWrite(p) /\ req[p].target # NoId /\ Rewrites(req[p].target)
  <2>1. req[p].stage = "contract.write"
    BY <1>3 DEF ContractWrite, At
  <2>2. Find(Canon[req[p].call.nicks[1]]) = req[p].target
    BY <1>0, <1>3, <2>1 DEF StillRead
  <2>3. 1 \in DOMAIN req[p].call.nicks
    BY <1>0, <2>1 DEF RequestSound, HireStages, Known
  <2>4. Canon[req[p].call.nicks[1]] \in Named(req[p].call)
    BY <2>3, NamedIn
  <2> QED BY <1>3, <2>2, <2>4
<1>4. CASE ContractWrite(p) /\ Joins(NickIn(p, 1))
  <2>1. 1 \in DOMAIN req[p].call.nicks
    BY <1>0, <1>4 DEF ContractWrite, At, RequestSound, HireStages, Known
  <2>2. NickIn(p, 1) \in Named(req[p].call)
    BY <2>1, NamedIn DEF NickIn
  <2> QED BY <1>4, <2>2
<1>b. ASSUME req[p].stage \in NickStages PROVE scenario.exclusive
  BY <1>0, <1>b DEF Addressed, Calm
<1>5. CASE DeleteMember(p) /\ Leaves(req[p].other)
  <2>1. req[p].stage = "nick.delete" /\ req[p].stage \in NickStages
    BY <1>5 DEF DeleteMember, At, NickStages
  <2>2. StillThere(req[p])
    BY <1>b, <2>1 DEF CalmInv
  <2>3. req[p].other # NoId /\ Find(Canon[req[p].call.nicks[2]]) = req[p].other
    BY <2>1, <2>2 DEF StillThere
  <2>4. Canon[req[p].call.nicks[2]] \in Named(req[p].call)
    BY <1>0, <2>1, NamedIn DEF RequestSound, Known
  <2> QED BY <1>5, <1>b, <2>1, <2>3, <2>4
<1>6. CASE Rename(p) /\ Renames(Find(NickIn(p, 1)), NickIn(p, 2))
  <2>1. req[p].stage \in NickStages
    BY <1>6 DEF Rename, At, NickStages
  <2>2. NickIn(p, 1) \in Named(req[p].call) /\ NickIn(p, 2) \in Named(req[p].call)
    BY <1>0, <2>1, NamedIn DEF RequestSound, Known, NickIn
  <2> QED BY <1>6, <1>a, <1>b, <2>1, <2>2
<1>7. CASE WearCape(p) /\ Rewrites(Find(req[p].who.nick))
  <2>1. req[p].who.nick \in Named(req[p].call)
    BY <1>0, <1>7 DEF WearCape, At, Addressed, Named
  <2> QED BY <1>7, <1>a, <2>1
<1>8. CASE Enlist(p) /\ (Rewrites(Find(Canon[Reached(p)])) \/ Joins(Canon[Reached(p)]))
  <2>1. req[p].stage \in ClassStages
    BY <1>8 DEF Enlist, At, ClassStages
  <2>2. Canon[Reached(p)] \in Named(req[p].call)
    BY <2>1, ClassRequest, NamedIn DEF Reached
  <2> QED BY <1>8, <1>a, <2>2
<1>9. CASE Rerank(p) /\ Rewrites(Find(Spelled(req[p].call.nicks[1])))
  <2>1. 1 \in DOMAIN req[p].call.nicks
    BY <1>0, <1>9 DEF Rerank, At, Addressed, RankStages
  <2>2. Spelled(req[p].call.nicks[1]) = Canon[req[p].call.nicks[1]]
    BY <1>9, <1>a, NickOfMember DEF Spelled
  <2>3. Spelled(req[p].call.nicks[1]) \in Named(req[p].call)
    BY <2>1, <2>2, NamedIn
  <2> QED BY <1>9, <1>a, <2>3
<1> QED
  BY <1>1, <1>2, <1>3, <1>4, <1>5, <1>6, <1>7, <1>8, <1>9, AccountRows, OtherRows, CareerRows
     DEF Step

(* A step leaves alone whom its call does not name; and if nobody changes  *)
(* nicks, who is found under a nick stays found.                           *)
LEMMA Elsewhere ==
    ASSUME IInv, CalmInv, Calm, NEW p \in Procs, Step(p), NEW n,
           scenario.exclusive => n \notin Named(req[p].call)
    PROVE  /\ scenario.exclusive => /\ WithNick(n)' = WithNick(n)
                                    /\ \A i \in WithNick(n) : member'[i] = member[i]
           /\ Find(n) # NoId => Find(n)' = Find(n)
<1>0. NicksUnique
  BY DEF CalmInv
<1>1. CASE UNCHANGED member
  <2>1. WithNick(n)' = WithNick(n)
    BY <1>1 DEF WithNick
  <2> QED BY <1>1, <2>1, SameFind
<1>2. CASE \E nick \in Named(req[p].call) : Find(nick) # NoId /\ Rewrites(Find(nick))
  <2>a. PICK nick \in Named(req[p].call) : Find(nick) # NoId /\ Rewrites(Find(nick))
    BY <1>2
  <2>b. PICK id : id = Find(nick)
    OBVIOUS
  <2>1. id = Find(nick) /\ id # NoId /\ Rewrites(id)
    BY <2>a, <2>b
  <2>2. WithNick(n)' = WithNick(n)
    BY <2>1, RewritesNicks
  <2>3. id \in WithNick(nick)
    BY <1>0, <2>1, FindIs
  <2>4. scenario.exclusive => id \notin WithNick(n)
    BY <2>1, <2>3 DEF WithNick
  <2>5. scenario.exclusive => \A i \in WithNick(n) : member'[i] = member[i]
    BY <2>1, <2>4 DEF Rewrites, WithNick
  <2> QED BY <2>2, <2>5, SameFind
<1>3. CASE \E nick \in Named(req[p].call) : Joins(nick)
  <2>1. PICK nick \in Named(req[p].call) : Joins(nick)
    BY <1>3
  <2>2. scenario.exclusive \/ Find(n) # NoId => n # nick
    BY <2>1 DEF Joins
  <2>3. n # nick => WithNick(n)' = WithNick(n)
    BY <2>1 DEF Joins, WithNick
  <2>4. \A i \in WithNick(n) : member'[i] = member[i]
    BY <2>1 DEF Joins, WithNick
  <2> QED BY <2>2, <2>3, <2>4, SameFind
<1>4. CASE /\ scenario.exclusive
           /\ \E nick \in Named(req[p].call) : Find(nick) # NoId /\ Leaves(Find(nick))
  <2>a. PICK nick \in Named(req[p].call) : Find(nick) # NoId /\ Leaves(Find(nick))
    BY <1>4
  <2>b. PICK id : id = Find(nick)
    OBVIOUS
  <2>1. id = Find(nick) /\ id # NoId /\ Leaves(id)
    BY <2>a, <2>b
  <2>2. id \in WithNick(nick)
    BY <1>0, <2>1, FindIs
  <2>3. id \notin WithNick(n)
    BY <1>4, <2>1, <2>2 DEF WithNick
  <2>4. /\ WithNick(n)' = WithNick(n)
        /\ \A i \in WithNick(n) : member'[i] = member[i]
    BY <2>1, <2>3 DEF Leaves, WithNick
  <2> QED BY <2>4, SameFind
<1>5. CASE /\ scenario.exclusive
           /\ \E nick, new \in Named(req[p].call) :
                 Find(nick) # NoId /\ Renames(Find(nick), new)
  <2>a. PICK nick, new \in Named(req[p].call) :
           Find(nick) # NoId /\ Renames(Find(nick), new)
    BY <1>5
  <2>b. PICK id : id = Find(nick)
    OBVIOUS
  <2>1. id = Find(nick) /\ id # NoId /\ Renames(id, new)
    BY <2>a, <2>b
  <2>2. id \in WithNick(nick)
    BY <1>0, <2>1, FindIs
  <2>3. id \notin WithNick(n) /\ new # n
    BY <1>5, <2>1, <2>2 DEF WithNick
  <2>4. /\ WithNick(n)' = WithNick(n)
        /\ \A i \in WithNick(n) : member'[i] = member[i]
    BY <2>1, <2>3 DEF Renames, WithNick
  <2> QED BY <2>4, SameFind
<1> QED
  BY <1>1, <1>2, <1>3, <1>4, <1>5, WritesNamed

(* What another request has read still holds.                              *)
LEMMA StillReadElsewhere ==
    ASSUME IInv, CalmInv, Calm, NEW p \in Procs, Step(p), NEW r \in Request,
           RequestSound(r), Addressed(r), StillRead(r), scenario.exclusive => StillThere(r),
           scenario.exclusive => Named(r.call) \cap Named(req[p].call) = {}
    PROVE  StillRead(r)' /\ (scenario.exclusive => StillThere(r)')
<1>1. ASSUME NEW n, n \in Named(r.call)
      PROVE  /\ Find(n) # NoId => Find(n)' = Find(n)
             /\ scenario.exclusive => Find(n)' = Find(n)
  <2>1. /\ Find(n) # NoId => Find(n)' = Find(n)
        /\ scenario.exclusive => WithNick(n)' = WithNick(n)
    BY <1>1, Elsewhere
  <2> QED BY <2>1, SameFind
<1> DEFINE c == r.call
           one == Canon[c.nicks[1]]
           two == Canon[c.nicks[2]]
<1>2. r.stage \in AboutStages \cup {"contract.write", "nick.update"} => one \in Named(c)
  <2>1. r.stage \in AboutStages \cup {"contract.write", "nick.update"} => 1 \in DOMAIN c.nicks
    BY DEF AboutStages, Addressed, RequestSound, RoleStages, FireStages, CodeStages,
           NickStages, HireStages, RankStages, Known
  <2> QED BY <2>1, NamedIn
<1>3. r.stage \in NickStages => two \in Named(c) /\ (scenario.exclusive)
  <2>1. r.stage \in NickStages => 2 \in DOMAIN c.nicks /\ scenario.exclusive
    BY DEF RequestSound, Known, Addressed, Calm
  <2> QED BY <2>1, NamedIn
<1>4. r.stage = "class.enlist" => Canon[c.nicks[r.at]] \in Named(c)
  <2>1. r.stage = "class.enlist" => r.at \in DOMAIN c.nicks
    BY DEF RequestSound, ClassStages
  <2> QED BY <2>1, NamedIn
<1>5. r.stage = "wear.update" => r.who.nick \in Named(c)
  BY DEF Addressed, Named
<1>6. \A n \in Named(c) : /\ Find(n) # NoId => Find(n)' = Find(n)
                          /\ scenario.exclusive => Find(n)' = Find(n)
  BY <1>1
<1> HIDE DEF c, one, two
<1>7. ASSUME r.stage \in AboutStages
      PROVE  (r.target # NoId /\ Find(Canon[r.call.nicks[1]]) = r.target)'
  <2>1. r.target # NoId /\ Find(one) = r.target
    BY <1>7 DEF StillRead, one, c
  <2> QED BY <1>2, <1>6, <1>7, <2>1 DEF one, c
<1>8. ASSUME r.stage = "contract.write", r.target # NoId
      PROVE  (Find(Canon[r.call.nicks[1]]) = r.target)'
  <2>1. Find(one) = r.target
    BY <1>8 DEF StillRead, one, c
  <2> QED BY <1>2, <1>6, <1>8, <2>1 DEF one, c
<1>9. ASSUME r.stage = "nick.update"
      PROVE  (r.target # NoId /\ Find(Canon[r.call.nicks[1]]) \in {NoId, r.target})'
  <2>1. r.target # NoId /\ Find(one) \in {NoId, r.target}
    BY <1>9 DEF StillRead, one, c
  <2>2. r.stage \in NickStages
    BY <1>9 DEF NickStages
  <2> QED BY <1>2, <1>3, <1>6, <1>9, <2>1, <2>2 DEF one, c
<1>10. ASSUME r.stage = "class.enlist", r.target # NoId
       PROVE  (Find(Canon[r.call.nicks[r.at]]) = r.target)'
  <2>1. Find(Canon[r.call.nicks[r.at]]) = r.target
    BY <1>10 DEF StillRead
  <2> QED BY <1>4, <1>6, <1>10, <2>1 DEF c
<1>11. ASSUME r.stage = "wear.update"
       PROVE  (r.who.id # NoId /\ Find(r.who.nick) = r.who.id)'
  <2>1. r.who.id # NoId /\ Find(r.who.nick) = r.who.id
    BY <1>11 DEF StillRead
  <2> QED BY <1>5, <1>6, <1>11, <2>1
<1>12. ASSUME scenario.exclusive, r.stage \in {"nick.move", "nick.delete"}
       PROVE  (r.other # NoId /\ Find(Canon[r.call.nicks[2]]) = r.other)'
  <2>1. r.other # NoId /\ Find(two) = r.other
    BY <1>12 DEF StillThere, two, c
  <2>2. r.stage \in NickStages
    BY <1>12 DEF NickStages
  <2> QED BY <1>3, <1>6, <1>12, <2>1, <2>2 DEF two, c
<1> QED
  BY <1>7, <1>8, <1>9, <1>10, <1>11, <1>12 DEF StillRead, StillThere

LEMMA SubmitBegins ==
    ASSUME NEW p \in Procs, Submit(p)
    PROVE  \E call, stage, who : Begin(p, call, stage, who)
BY DEF Submit, DepartamentSubmit, AccountSubmit, CapeSubmit, SubmitSetUserRole,
       SubmitDeleteUserRole, SubmitPostClass, SubmitFireUser, SubmitContractUser,
       SubmitChangeUserNick, SubmitSession, SubmitCode, SubmitCreateCape, SubmitAtributeCape,
       SubmitChangeUserCape, SubmitRankCall

LEMMA TurnsApartNext ==
    ASSUME IInv, scenario.exclusive, TurnsApart, [Next]_vars
    PROVE  TurnsApart'
<1>0. req \in [Procs -> Request]
  BY DEF IInv, TablesTyped
<1>1. CASE UNCHANGED req
  BY <1>1 DEF TurnsApart, At
<1>2. ASSUME NEW p \in Procs, Submit(p) PROVE TurnsApart'
  <2>1. PICK call, stage, who : Begin(p, call, stage, who)
    BY <1>2, SubmitBegins
  <2>2. req'[p].call = call /\ \A q \in Procs \ {p} : req'[q] = req[q]
    BY <1>0, <2>1 DEF Begin, Idle
  <2>3. \A q \in Procs : At(q, "idle") \/ Named(req[q].call) \cap Named(call) = {}
    BY <2>1 DEF Begin, InTurn
  <2> QED BY <2>2, <2>3 DEF TurnsApart, At
<1>3. ASSUME NEW p \in Procs, Step(p) \/ FailQuery(p) \/ LoseWrite(p) PROVE TurnsApart'
  <2>1. /\ ~ At(p, "idle")
        /\ \A q \in Procs \ {p} : req'[q] = req[q]
        /\ req'[p].stage = "idle" \/ Named(req'[p].call) = Named(req[p].call)
    BY <1>3, StepKeeps, SameNamed DEF Keeps, Idle
  <2> QED BY <2>1 DEF TurnsApart, At
<1> QED BY <1>1, <1>2, <1>3 DEF Next, Tick, vars

(* The steps of a change of rank are its own.                              *)
LEMMA StepOfRank ==
    ASSUME NEW p \in Procs, req[p].stage \in RankStages, Step(p) \/ FailQuery(p) \/ LoseWrite(p)
    PROVE  CareerStep(p) \/ FailQuery(p) \/ LoseWrite(p)
<1> USE DEF At, RankStages
<1>1. ~ DepartamentStep(p)
  BY DEF DepartamentStep, FindForRole, ClearRoles, CreateRole, FindForRemoval, RemoveRole,
         CheckApproved, FindToEnlist, Enlist, CollectApproved, GiveCourses, LogApproved,
         RecordClass
<1>2. ~ AccountStep(p)
  BY DEF AccountStep, FindToFire, Dismiss, LogDismissal, TakePermissions, TakePosts,
         FindToContract, ContractWrite, LogContract, FindPrevious, FindNew, MoveHistory,
         DeleteMember, Rename, LogRename, CreateSession, FindToUnlock, ReadSession, Unlock
<1>3. ~ CapeStep(p)
  BY DEF CapeStep, FindCape, PutPicture, CreateCape, FindToGive, GiveCape, WearCape
<1> QED BY <1>1, <1>2, <1>3 DEF Step

(* What a request has just read holds.                                     *)
LEMMA JustRead ==
    ASSUME IInv, CalmInv, Calm, NEW p \in Procs, NEW s, s = req'[p],
           Step(p) \/ FailQuery(p) \/ LoseWrite(p)
    PROVE  StillRead(s)' /\ (scenario.exclusive => StillThere(s)')
<1> USE DEF AboutStages
<1>1. CASE Off(p)
  BY <1>1 DEF Off, Watched, RoleStages, FireStages, CodeStages, NickStages, StillRead,
              StillThere
<1>2. CASE Leading(p) /\ ~ Off(p)
  <2>0. PICK r : r = req[p]
    OBVIOUS
  <2> DEFINE c == r.call
             one == Canon[c.nicks[1]]
             two == Canon[c.nicks[2]]
             reached == Canon[c.nicks[r.at]]
  <2>1. /\ StillRead(r) /\ (scenario.exclusive => StillThere(r)) /\ Addressed(r)
        /\ s.call = c /\ s.at = r.at
    BY <1>2, <2>0, LeadingTo DEF CalmInv, AllAddressed
  <2>2. ASSUME \A n : WithNick(n)' = WithNick(n) PROVE \A n : Find(n)' = Find(n)
    BY <2>2, SameFind
  <2>3. UNCHANGED member => \A n : Find(n)' = Find(n)
    BY <2>2 DEF WithNick
  <2>4. \A n : Find(n) # NoId => Canon[n] = n /\ n # NoNick
    BY NickOfMember
  <2>5. CASE FindForRole(p)
    <3>1. /\ s.stage = "role.clear" /\ s.target = Find(c.nicks[1]) /\ s.target # NoId
          /\ UNCHANGED member
      BY <1>2, <2>0, <2>5, LeadingTo DEF Nick
    <3>2. s.target # NoId /\ Find(one)' = s.target
      BY <2>3, <2>4, <3>1
    <3> QED BY <2>1, <3>1, <3>2 DEF StillRead, StillThere
  <2>6. CASE ClearRoles(p)
    <3>1. /\ r.stage = "role.clear" /\ s.stage = "role.create" /\ s.target = r.target
          /\ UNCHANGED member
      BY <1>2, <2>0, <2>6, LeadingTo DEF At
    <3>2. s.target # NoId /\ Find(one)' = s.target
      BY <2>1, <2>3, <3>1 DEF StillRead
    <3> QED BY <2>1, <3>1, <3>2 DEF StillRead, StillThere
  <2>7. CASE FindToEnlist(p)
    <3>1. s.stage = "class.enlist" /\ s.target = Find(reached) /\ UNCHANGED member
      BY <1>2, <2>0, <2>7, LeadingTo DEF Reached
    <3>2. Find(reached)' = s.target
      BY <2>3, <3>1
    <3> QED BY <2>1, <3>1, <3>2 DEF StillRead, StillThere
  <2>8. CASE FindToFire(p)
    <3>1. /\ s.stage = "fire.settle" /\ s.target = Find(Spelled(c.nicks[1]))
          /\ s.target \in DOMAIN member /\ UNCHANGED member
      BY <1>2, <2>0, <2>8, LeadingTo
    <3>2. s.target # NoId
      BY <3>1 DEF IInv, TablesTyped, NoId
    <3>3. Spelled(c.nicks[1]) = one
      BY <2>4, <3>1, <3>2 DEF Spelled
    <3>4. Find(one)' = s.target
      BY <2>3, <3>1, <3>3
    <3> QED BY <2>1, <3>1, <3>2, <3>4 DEF StillRead, StillThere
  <2>9. CASE FindToContract(p)
    <3>1. s.stage = "contract.write" /\ s.target = Find(one) /\ UNCHANGED member
      BY <1>2, <2>0, <2>9, LeadingTo DEF NickIn
    <3>2. Find(one)' = s.target
      BY <2>3, <3>1
    <3> QED BY <2>1, <3>1, <3>2 DEF StillRead, StillThere
  <2>10. CASE FindPrevious(p)
    <3>1. /\ s.stage = "nick.new" /\ s.target = Find(one) /\ s.target # NoId
          /\ UNCHANGED member
      BY <1>2, <2>0, <2>10, LeadingTo DEF NickIn
    <3>2. Find(one)' = s.target
      BY <2>3, <3>1
    <3> QED BY <2>1, <3>1, <3>2 DEF StillRead, StillThere
  <2>11. CASE FindNew(p)
    <3>1. /\ r.stage = "nick.new" /\ s.target = r.target /\ UNCHANGED member
          /\ \/ s.stage = "nick.update"
             \/ s.stage = "nick.move" /\ s.other = Find(two) /\ s.other # NoId
      BY <1>2, <2>0, <2>11, LeadingTo DEF NickIn, At
    <3>2. s.target # NoId /\ Find(one)' = s.target
      BY <2>1, <2>3, <3>1 DEF StillRead
    <3>3. Find(two)' = Find(two)
      BY <2>3, <3>1
    <3> QED BY <2>1, <3>1, <3>2, <3>3 DEF StillRead, StillThere
  <2>12. CASE MoveHistory(p)
    <3>1. /\ r.stage = "nick.move" /\ s.stage = "nick.delete" /\ UNCHANGED member
          /\ s.target = r.target /\ s.other = r.other
      BY <1>2, <2>0, <2>12, LeadingTo DEF At
    <3>2. s.target # NoId /\ Find(one)' = s.target
      BY <2>1, <2>3, <3>1 DEF StillRead
    <3>3. scenario.exclusive => s.other # NoId /\ Find(two)' = s.other
      BY <2>1, <2>3, <3>1 DEF StillThere
    <3> QED BY <2>1, <3>1, <3>2, <3>3 DEF StillRead, StillThere
  <2>13. CASE DeleteMember(p)
    <3>1. /\ r.stage = "nick.delete" /\ s.stage = "nick.update" /\ s.target = r.target
          /\ Leaves(r.other)
      BY <1>2, <2>0, <2>13, LeadingTo DEF At
    <3>2. s.target # NoId /\ Find(one) = s.target
      BY <2>1, <3>1 DEF StillRead
    <3>3. WithNick(one)' \subseteq WithNick(one)
      BY <3>1 DEF Leaves, WithNick
    <3>4. \A i \in WithNick(one) : i = s.target
      BY <3>2, FindIs DEF CalmInv
    <3>5. Find(one)' \in {NoId, s.target}
      BY <3>3, <3>4 DEF Find
    <3> QED BY <2>1, <3>1, <3>2, <3>5 DEF StillRead, StillThere
  <2>14. CASE Rename(p)
    <3>1. s.stage = "nick.log"
      BY <1>2, <2>14, LeadingTo
    <3> QED BY <3>1 DEF StillRead, StillThere
  <2>15. CASE FindToUnlock(p)
    <3>1. /\ s.stage = "code.session" /\ s.target = Find(c.nicks[1]) /\ s.target # NoId
          /\ UNCHANGED member
      BY <1>2, <2>0, <2>15, LeadingTo DEF WaitsForCode
    <3>2. Find(one)' = s.target
      BY <2>3, <2>4, <3>1
    <3> QED BY <2>1, <3>1, <3>2 DEF StillRead, StillThere
  <2>16. CASE ReadSession(p)
    <3>1. /\ r.stage = "code.session" /\ s.stage = "code.update" /\ s.target = r.target
          /\ UNCHANGED member
      BY <1>2, <2>0, <2>16, LeadingTo DEF At
    <3>2. s.target # NoId /\ Find(one)' = s.target
      BY <2>1, <2>3, <3>1 DEF StillRead
    <3> QED BY <2>1, <3>1, <3>2 DEF StillRead, StillThere
  <2>17. CASE Dismissing(p)
    <3>1. r.stage = "fire.settle" /\ s.stage = "fire.settle" /\ s.target = r.target
      BY <2>0, <2>17 DEF Dismissing
    <3>2. UNCHANGED member \/ \E id : Rewrites(id)
      BY <2>0, <3>1, AccountRows, OtherRows, CareerRows, QuietRows
         DEF Step, Unlock, ContractWrite, DeleteMember, Rename, Enlist, At
    <3>3. \A n : WithNick(n)' = WithNick(n)
      BY <3>2, RewritesNicks DEF WithNick
    <3>4. s.target # NoId /\ Find(one)' = s.target
      BY <2>1, <2>2, <3>1, <3>3 DEF StillRead
    <3> QED BY <2>1, <3>1, <3>4 DEF StillRead, StillThere
  <2> QED
    BY <1>2, <2>5, <2>6, <2>7, <2>8, <2>9, <2>10, <2>11, <2>12, <2>13, <2>14, <2>15, <2>16,
       <2>17 DEF Leading
<1>3. CASE Reranks(p)
  <2>0. PICK r : r = req[p]
    OBVIOUS
  <2>1. StillRead(r) /\ Addressed(r)
    BY <1>3, <2>0 DEF CalmInv, AllAddressed
  <2>2. s.stage \in {"rank.cfo", "rank.settle"} /\ s.call.nicks = r.call.nicks
    BY <1>3, <2>0 DEF Reranks
  <2> DEFINE one == Canon[s.call.nicks[1]]
  <2>3. \A n : Find(n) # NoId => Canon[n] = n /\ n # NoNick
    BY NickOfMember
  <2>4. s.target # NoId /\ Find(one) = s.target
    <3>1. CASE r.stage = "rank.find"
      <4>1. s.target = Find(Spelled(s.call.nicks[1])) /\ s.target \in DOMAIN member
        BY <1>3, <2>0, <2>2, <3>1 DEF Reranks
      <4>2. s.target # NoId
        BY <4>1 DEF IInv, TablesTyped, NoId
      <4>3. Spelled(s.call.nicks[1]) = one
        BY <2>3, <4>1, <4>2 DEF Spelled
      <4> QED BY <4>1, <4>2, <4>3
    <3>2. CASE r.stage # "rank.find"
      <4>1. r.stage \in {"rank.cfo", "rank.settle"} /\ s.target = r.target
        BY <1>3, <2>0, <3>2 DEF Reranks
      <4> QED BY <2>1, <2>2, <4>1 DEF StillRead
    <3> QED BY <3>1, <3>2
  <2>5. UNCHANGED member \/ \E id : Rewrites(id)
    <3>1. CareerStep(p) \/ FailQuery(p) \/ LoseWrite(p)
      BY <1>3, StepOfRank DEF Reranks
    <3> QED BY <3>1, CareerRows, QuietRows
  <2>6. \A n : WithNick(n)' = WithNick(n)
    BY <2>5, RewritesNicks DEF WithNick
  <2>7. Find(one)' = s.target
    BY <2>4, <2>6, SameFind
  <2> QED BY <2>2, <2>4, <2>7 DEF StillRead, StillThere
<1> QED BY <1>1, <1>2, <1>3, StepLeads

LEMMA StillReadSame ==
    ASSUME NEW r, StillRead(r), scenario.exclusive => StillThere(r), UNCHANGED member
    PROVE  StillRead(r)' /\ (scenario.exclusive => StillThere(r)')
<1>1. \A n : WithNick(n)' = WithNick(n)
  BY DEF WithNick
<1>2. \A n : Find(n)' = Find(n)
  BY <1>1, SameFind
<1> QED BY <1>2 DEF StillRead, StillThere

LEMMA BegunRead ==
    ASSUME IInv, NEW p \in Procs, NEW s, s = req'[p], Submit(p)
    PROVE  StillRead(s) /\ StillThere(s)
<1> USE DEF AboutStages
<1>1. ASSUME NEW call, NEW stage, NEW who, Begin(p, call, stage, who)
      PROVE  s.stage = stage /\ s.who = who
  BY <1>1 DEF Begin, Idle, IInv, TablesTyped
<1>2. CASE SubmitChangeUserCape(p)
  <2>1. PICK call \in CallsOf("changeUserCape") :
           Admitted(call) /\ Begin(p, call, "wear.update", Guarded(call.actor))
    BY <1>2 DEF SubmitChangeUserCape
  <2>2. /\ Guarded(call.actor).nick = call.actor
        /\ Guarded(call.actor).id = Find(call.actor) /\ Find(call.actor) # NoId
    BY <2>1 DEF Guarded, Admitted
  <2> HIDE DEF Guarded
  <2> QED BY <1>1, <2>1, <2>2 DEF StillRead, StillThere
<1>3. CASE ~ SubmitChangeUserCape(p)
  <2>1. PICK stage \in {"role.find", "drop.find", "class.check", "fire.find", "contract.find",
                        "nick.prev", "session.create", "code.user", "cape.find", "give.find",
                        "rank.find"} :
           \E call, who : Begin(p, call, stage, who)
    BY <1>3 DEF Submit, DepartamentSubmit, AccountSubmit, CapeSubmit, SubmitSetUserRole,
       SubmitDeleteUserRole, SubmitPostClass, SubmitFireUser, SubmitContractUser,
       SubmitChangeUserNick, SubmitSession, SubmitCode, SubmitCreateCape, SubmitAtributeCape,
       SubmitRankCall
  <2>2. s.stage = stage
    BY <1>1, <2>1
  <2> QED BY <2>1, <2>2 DEF StillRead, StillThere
<1> QED BY <1>2, <1>3

LEMMA CalmInvInit == Init => CalmInv
<1> SUFFICES ASSUME Init PROVE CalmInv
  OBVIOUS
<1>1. NicksUnique
  BY MembersAssumption DEF Init, NicksUnique
<1>2. \A p \in Procs : req[p] = Idle
  BY DEF Init
<1>3. Idle.stage = "idle"
  BY DEF Idle
<1>4. StillRead(Idle) /\ StillThere(Idle)
  BY <1>3 DEF StillRead, StillThere, AboutStages
<1>5. TurnsApart
  BY <1>2, <1>3 DEF TurnsApart, At
<1> QED BY <1>1, <1>2, <1>4, <1>5, AddressedInit DEF CalmInv

LEMMA CalmInvNext ==
    ASSUME IInv, CalmInv, [Next]_vars
    PROVE  CalmInv'
<1>0. scenario' = scenario
  BY ScenarioStays
<1>1. Calm' = Calm /\ scenario.exclusive' = scenario.exclusive
  BY <1>0 DEF Calm, CallsOf
<1>2. scenario.exclusive => TurnsApart'
  BY TurnsApartNext DEF CalmInv
<1>3. ASSUME Calm, NEW q \in Procs, NEW s, s = req'[q]
      PROVE  StillRead(s)' /\ (scenario.exclusive => StillThere(s)')
  <2>0. PICK r : r = req[q]
    OBVIOUS
  <2>1. /\ r \in Request /\ RequestSound(r) /\ Addressed(r) /\ StillRead(r)
        /\ scenario.exclusive => StillThere(r)
    BY <1>3, <2>0 DEF IInv, TablesTyped, RequestsSound, CalmInv, AllAddressed
  <2>2. CASE UNCHANGED <<req, member>>
    BY <1>3, <2>0, <2>1, <2>2, StillReadSame
  <2>3. ASSUME NEW p \in Procs, Submit(p)
        PROVE  StillRead(s)' /\ (scenario.exclusive => StillThere(s)')
    <3>1. UNCHANGED member
      BY <2>3, QuietRows
    <3>2. StillRead(s) /\ (scenario.exclusive => StillThere(s))
      BY <1>3, <2>0, <2>1, <2>3, BegunRead, SubmitOthers
    <3> QED BY <3>1, <3>2, StillReadSame
  <2>4. ASSUME NEW p \in Procs, Step(p) \/ FailQuery(p) \/ LoseWrite(p)
        PROVE  StillRead(s)' /\ (scenario.exclusive => StillThere(s)')
    <3>1. CASE p = q
      BY <1>3, <2>4, <3>1, JustRead
    <3>2. CASE p # q
      <4>1. ~ At(p, "idle") /\ s = r
        BY <1>3, <2>0, <2>4, <3>2, StepKeeps DEF Keeps
      <4>2. CASE r.stage = "idle"
        BY <4>1, <4>2 DEF StillRead, StillThere, AboutStages
      <4>3. CASE r.stage # "idle"
        <5>1. scenario.exclusive => Named(r.call) \cap Named(req[p].call) = {}
          BY <2>0, <3>2, <4>1, <4>3 DEF CalmInv, TurnsApart, At
        <5>2. CASE Step(p)
          BY <1>3, <2>1, <4>1, <5>1, <5>2, StillReadElsewhere
        <5>3. CASE FailQuery(p) \/ LoseWrite(p)
          BY <2>1, <4>1, <5>3, QuietRows, StillReadSame
        <5> QED BY <2>4, <5>2, <5>3
      <4> QED BY <4>2, <4>3
    <3> QED BY <3>1, <3>2
  <2> QED BY <2>2, <2>3, <2>4 DEF Next, Tick, vars, tables, people
<1>4. ASSUME Calm, NEW q \in Procs
      PROVE  StillRead(req[q])' /\ (scenario.exclusive => StillThere(req[q])')
  <2>1. PICK s : s = req'[q]
    OBVIOUS
  <2>2. StillRead(s)' /\ (scenario.exclusive => StillThere(s)')
    BY <1>3, <1>4, <2>1
  <2> QED BY <2>1, <2>2 DEF StillRead, StillThere, Find, WithNick
<1>5. scenario.exclusive => Calm
  BY DEF Calm
<1> QED
  BY <1>1, <1>2, <1>4, <1>5, NicksUniqueNext, AddressedNext DEF CalmInv

(* A request in flight changes by its own steps only.                      *)
LEMMA OwnStep ==
    ASSUME IInv, [Next]_vars, NEW p \in Procs, ~ At(p, "idle"), req'[p] # req[p]
    PROVE  Step(p) \/ FailQuery(p) \/ LoseWrite(p)
<1>1. \A q \in Procs \ {p} : ~ (Submit(q) \/ Step(q) \/ FailQuery(q) \/ LoseWrite(q))
  BY SubmitOthers, StepKeeps DEF Keeps
<1>2. ~ Submit(p)
  BY SubmitBegins DEF Begin
<1> QED BY <1>1, <1>2 DEF Next, Tick, vars

(***************************************************************************)
(* The handlers that read a row by nick and update by nick after an await  *)
(* write the row they have read, unless a change of nick races with them:  *)
(* with clients who take turns, or where nobody changes nicks, whichever   *)
(* queries fail.                                                           *)
(***************************************************************************)
LEMMA UpdatesTheRowRead ==
    ASSUME IInv, CalmInv, Calm, [Next]_vars, NEW p \in Procs,
           req[p].stage \in UpdatesByNick, req'[p] # req[p],
           NEW id \in DOMAIN member \ {RowRead(p)}
    PROVE  member'[id] = member[id]
<1>0. PICK r : r = req[p]
  OBVIOUS
<1>1. /\ RequestSound(r) /\ Addressed(r) /\ StillRead(r)
      /\ DOMAIN member \subseteq Nat \ {0}
  BY <1>0 DEF IInv, TablesTyped, RequestsSound, CalmInv, AllAddressed
<1>2. Step(p) \/ FailQuery(p) \/ LoseWrite(p)
  BY OwnStep DEF At, UpdatesByNick
<1>3. ASSUME NEW i, i # NoId => i = RowRead(p), Rewrites(i) \/ \E nick : Renames(i, nick)
      PROVE  member'[id] = member[id]
  BY <1>1, <1>3 DEF Rewrites, Renames, NoId
<1>4. r.stage # "wear.update" => RowRead(p) = r.target
  BY <1>0 DEF RowRead, At
<1>5. CASE UNCHANGED member
  BY <1>5
<1>6. CASE Unlock(p) /\ Rewrites(Find(req[p].call.nicks[1]))
  <2>1. r.stage = "code.update"
    BY <1>0, <1>6 DEF Unlock, At
  <2>2. Find(r.call.nicks[1]) = RowRead(p)
    BY <1>1, <1>4, <2>1 DEF Addressed, StillRead, CodeStages, AboutStages
  <2> QED BY <1>0, <1>3, <1>6, <2>2
<1>7. CASE Dismiss(p) /\ Rewrites(Find(Spelled(req[p].call.nicks[1])))
  <2>1. r.stage = "fire.settle"
    BY <1>0, <1>7 DEF Dismiss, At
  <2>2. Find(Canon[r.call.nicks[1]]) = RowRead(p)
    BY <1>1, <1>4, <2>1 DEF StillRead, AboutStages
  <2>3. Find(Spelled(r.call.nicks[1])) # NoId => Spelled(r.call.nicks[1]) = Canon[r.call.nicks[1]]
    BY NickOfMember DEF Spelled
  <2> QED BY <1>0, <1>3, <1>7, <2>2, <2>3
<1>8. CASE Rename(p) /\ Renames(Find(NickIn(p, 1)), NickIn(p, 2))
  <2>1. r.stage = "nick.update"
    BY <1>0, <1>8 DEF Rename, At
  <2>2. Find(NickIn(p, 1)) # NoId => Find(NickIn(p, 1)) = RowRead(p)
    BY <1>0, <1>1, <1>4, <2>1 DEF StillRead, NickIn
  <2> QED BY <1>3, <1>8, <2>2
<1>9. CASE WearCape(p) /\ Rewrites(Find(req[p].who.nick))
  <2>1. r.stage = "wear.update"
    BY <1>0, <1>9 DEF WearCape, At
  <2>2. Find(r.who.nick) = RowRead(p)
    BY <1>0, <1>1, <2>1 DEF StillRead, RowRead, At
  <2> QED BY <1>0, <1>3, <1>9, <2>2
<1>10. CASE Enlist(p) /\ req[p].target # NoId /\ Rewrites(Find(Canon[Reached(p)]))
  <2>1. r.stage = "class.enlist"
    BY <1>0, <1>10 DEF Enlist, At
  <2>2. Find(Canon[Reached(p)]) = RowRead(p)
    BY <1>0, <1>1, <1>4, <1>10, <2>1 DEF StillRead, Reached
  <2> QED BY <1>3, <1>10, <2>2
<1>13. CASE Rerank(p) /\ Rewrites(Find(Spelled(req[p].call.nicks[1])))
  <2>1. r.stage = "rank.settle"
    BY <1>0, <1>13 DEF Rerank, At
  <2>2. Find(Canon[r.call.nicks[1]]) = RowRead(p)
    BY <1>1, <1>4, <2>1 DEF StillRead, AboutStages
  <2>3. Find(Spelled(r.call.nicks[1])) # NoId => Spelled(r.call.nicks[1]) = Canon[r.call.nicks[1]]
    BY NickOfMember DEF Spelled
  <2> QED BY <1>0, <1>3, <1>13, <2>2, <2>3
<1>11. ASSUME NEW nick, Joins(nick) PROVE member'[id] = member[id]
  BY <1>11 DEF Joins
<1>12. ~ ContractWrite(p) /\ ~ DeleteMember(p)
  BY DEF ContractWrite, DeleteMember, At, UpdatesByNick
<1> QED
  BY <1>2, <1>5, <1>6, <1>7, <1>8, <1>9, <1>10, <1>11, <1>12, <1>13, AccountRows, OtherRows,
     CareerRows, QuietRows DEF Step

(***************************************************************************)
(* Handlers find a member under a nick and, queries later, update whoever  *)
(* has that nick by then: fireUser, promoteUser, demoteUser, postClass,    *)
(* activateUser, changeUserNick and changeUserCape.  When clients take     *)
(* turns, or nobody changes nicks, that is the member they read, whichever *)
(* queries fail.                                                           *)
(***************************************************************************)
THEOREM UpdatesReachTheRowRead == Spec => WritesReachTheRowRead
<1>1. ASSUME IInv, CalmInv, [Next]_vars
      PROVE  [scenario.exclusive \/ CallsOf("changeUserNick") = {} =>
                \A p \in Procs :
                    req[p].stage \in UpdatesByNick /\ req'[p] # req[p] =>
                        \A id \in DOMAIN member \ {RowRead(p)} :
                            member'[id] = member[id]]_vars
  BY <1>1, UpdatesTheRowRead DEF Calm
<1> QED
  BY <1>1, InitInv, NextInv, CalmInvInit, CalmInvNext, PTL DEF Spec, WritesReachTheRowRead
-----------------------------------------------------------------------------
(***************************************************************************)
(* One role per departament.  Who is about to create a role has cleared    *)
(* the departament, and nobody else is about to create one for the same    *)
(* member: both would have the member under a nick their calls name.       *)
(***************************************************************************)
Rivals(r, id, post) == r.user = id /\ DeptOf(r.role) = DeptOf(post)

OneInv ==
    /\ \A r, q \in posts : Rivals(r, q.user, q.role) => r = q
    /\ \A p \in Procs : At(p, "role.create") =>
          \A r \in posts : ~ Rivals(r, req[p].target, About(p))

LEMMA OneInvLess ==
    ASSUME OneInv, NEW p \in Procs, posts' \subseteq posts,
           req'[p].stage # "role.create", \A q \in Procs \ {p} : req'[q] = req[q]
    PROVE  OneInv'
<1>1. (\A r, q \in posts : Rivals(r, q.user, q.role) => r = q)'
  BY DEF OneInv, Rivals
<1>2. (\A q \in Procs : At(q, "role.create") =>
          \A r \in posts : ~ Rivals(r, req[q].target, About(q)))'
  BY DEF OneInv, Rivals, At, About
<1> QED BY <1>1, <1>2 DEF OneInv

LEMMA OneInvClear ==
    ASSUME IInv, OneInv, NEW p \in Procs, ClearRoles(p)
    PROVE  OneInv'
<1>1. /\ req'[p].target = req[p].target /\ req'[p].call = req[p].call
      /\ \A q \in Procs \ {p} : req'[q] = req[q]
      /\ posts' = Cleared(req[p].target, About(p))
  BY DEF ClearRoles, Goto, IInv, TablesTyped, Request
<1>2. posts' \subseteq posts
  BY <1>1 DEF Cleared
<1>3. \A r \in posts' : ~ Rivals(r, req'[p].target, About(p)')
  BY <1>1 DEF Cleared, Rivals, About
<1>4. \A r, q \in posts' : Rivals(r, q.user, q.role) => r = q
  BY <1>2 DEF OneInv
<1>5. ASSUME NEW q \in Procs, At(q, "role.create")'
      PROVE  \A r \in posts' : ~ Rivals(r, req'[q].target, About(q)')
  BY <1>1, <1>2, <1>3, <1>5 DEF OneInv, At, About
<1> QED BY <1>4, <1>5 DEF OneInv, Rivals

LEMMA OneInvCreate ==
    ASSUME IInv, CalmInv, scenario.exclusive, OneInv, NEW p \in Procs, CreateRole(p)
    PROVE  OneInv'
<1> DEFINE row == [user |-> req[p].target, role |-> About(p)]
<1>1. /\ req'[p].stage # "role.create" /\ At(p, "role.create")
      /\ \A q \in Procs \ {p} : req'[q] = req[q]
      /\ posts' \subseteq posts \cup {row}
  BY AnswerApart DEF CreateRole, Apart
<1>2. row.user = req[p].target /\ row.role = About(p)
  OBVIOUS
<1> HIDE DEF row
<1>3. ASSUME NEW r \in posts'
      PROVE  r = row \/ (r \in posts /\ ~ Rivals(r, row.user, row.role))
  BY <1>1, <1>2, <1>3 DEF OneInv
<1>4. ASSUME NEW r \in posts', NEW q \in posts', Rivals(r, q.user, q.role)
      PROVE  r = q
  <2>1. CASE r \in posts /\ q \in posts
    BY <1>4, <2>1 DEF OneInv
  <2>2. CASE ~ (r \in posts /\ q \in posts)
    BY <1>3, <1>4, <2>2 DEF Rivals
  <2> QED BY <2>1, <2>2
<1>5. ASSUME NEW q \in Procs, q # p, At(q, "role.create")
      PROVE  req[q].target # req[p].target
  <2>1. /\ StillRead(req[p]) /\ StillRead(req[q])
        /\ Named(req[p].call) \cap Named(req[q].call) = {}
    BY <1>1, <1>5 DEF CalmInv, Calm, TurnsApart, At
  <2>2. /\ req[p].target # NoId /\ Find(Canon[req[p].call.nicks[1]]) = req[p].target
        /\ req[q].target # NoId /\ Find(Canon[req[q].call.nicks[1]]) = req[q].target
    BY <1>1, <1>5, <2>1 DEF StillRead, AboutStages, At
  <2>3. /\ Canon[req[p].call.nicks[1]] \in Named(req[p].call)
        /\ Canon[req[q].call.nicks[1]] \in Named(req[q].call)
    BY <1>1, <1>5, NamedIn DEF CalmInv, AllAddressed, Addressed, RoleStages, At
  <2>4. /\ req[p].target \in WithNick(Canon[req[p].call.nicks[1]])
        /\ req[q].target \in WithNick(Canon[req[q].call.nicks[1]])
    BY <2>2, FindIs DEF CalmInv
  <2> QED BY <2>1, <2>3, <2>4 DEF WithNick
<1>6. ASSUME NEW q \in Procs, At(q, "role.create")'
      PROVE  \A r \in posts' : ~ Rivals(r, req'[q].target, About(q)')
  <2>1. q # p /\ req'[q] = req[q] /\ At(q, "role.create")
    BY <1>1, <1>6 DEF At
  <2>2. ~ Rivals(row, req[q].target, About(q))
    BY <1>2, <1>5, <2>1 DEF Rivals
  <2>3. \A r \in posts : ~ Rivals(r, req[q].target, About(q))
    BY <2>1 DEF OneInv
  <2> QED BY <1>1, <2>1, <2>2, <2>3 DEF About
<1> QED BY <1>4, <1>6 DEF OneInv, Rivals

LEMMA OneInvNext ==
    ASSUME IInv, CalmInv, scenario.exclusive, OneInv, [Next]_vars
    PROVE  OneInv'
<1> USE DEF tables, people, wardrobe
<1>1. CASE UNCHANGED <<req, capes, bucket, scenario, posts>>
  BY <1>1 DEF OneInv, Rivals, At, About
<1>2. ASSUME NEW p \in Procs, SubmitCreateCape(p) PROVE OneInv'
  <2>1. PICK call : Begin(p, call, "cape.find", Guarded(call.actor))
    BY <1>2 DEF SubmitCreateCape
  <2>2. req'[p].stage = "cape.find" /\ \A q \in Procs \ {p} : req'[q] = req[q]
    BY <2>1 DEF Begin, IInv, TablesTyped, Idle
  <2> QED BY <2>1, <2>2, OneInvLess DEF Begin
<1>3. ASSUME NEW p \in Procs, FindCape(p) \/ PutPicture(p) \/ CreateCape(p) PROVE OneInv'
  <2>1. Answer(p) \/ Goto(p, "cape.put") \/ Goto(p, "cape.create")
    BY <1>3 DEF FindCape, PutPicture, CreateCape
  <2>2. req'[p].stage # "role.create" /\ \A q \in Procs \ {p} : req'[q] = req[q]
    BY <2>1, AnswerApart DEF Apart, Goto, IInv, TablesTyped, Request
  <2>3. UNCHANGED posts
    BY <1>3 DEF FindCape, PutPicture, CreateCape
  <2> QED BY <2>2, <2>3, OneInvLess
<1>4. ASSUME NEW p \in Procs, Away(p) PROVE OneInv'
  BY <1>4, OneInvLess DEF Away, Apart
<1> QED
  BY <1>1, <1>2, <1>3, <1>4, StepsApart, OneInvClear, OneInvCreate

LEMMA OneInvInit == Init => OneInv
BY OnePostAssumption DEF Init, OneInv, Rivals, At, Idle

(***************************************************************************)
(* setUserRole clears a departament in one query and creates the role in   *)
(* the next; clients who take turns on a member never leave that member    *)
(* two roles of one departament, whichever queries fail.                   *)
(***************************************************************************)
THEOREM OneRoleEach == Spec => []OneRolePerDepartament
<1> DEFINE J == scenario.exclusive => OneInv
<1>1. IInv /\ J => OneRolePerDepartament
  <2> SUFFICES ASSUME OneInv, NEW id, NEW dept
               PROVE  Cardinality(PostsOf(id, dept)) <= 1
    BY DEF OneRolePerDepartament
  <2>1. \A r, q \in PostsOf(id, dept) : r = q
    BY DEF OneInv, Rivals, PostsOf
  <2>2. PostsOf(id, dept) = {} \/ \E r : PostsOf(id, dept) = {r}
    BY <2>1
  <2>3. CASE PostsOf(id, dept) = {}
    BY <2>3, FS_EmptySet
  <2>4. ASSUME NEW r, PostsOf(id, dept) = {r}
        PROVE  Cardinality(PostsOf(id, dept)) <= 1
    <3>1. Cardinality({r}) = 1
      BY FS_Singleton
    <3> QED BY <2>4, <3>1
  <2> QED BY <2>2, <2>3, <2>4
<1>2. IInv /\ CalmInv /\ J /\ [Next]_vars => J'
  BY OneInvNext, ScenarioStays
<1>3. Init => J
  BY OneInvInit
<1> HIDE DEF J
<1> QED
  BY <1>1, <1>2, <1>3, InitInv, NextInv, CalmInvInit, CalmInvNext, PTL DEF Spec
-----------------------------------------------------------------------------
(***************************************************************************)
(* Membership.  What a handler has checked of the member it found still    *)
(* holds when it writes, because nobody else writes that row meanwhile;    *)
(* and a contract is for the role its call gives.                          *)
(***************************************************************************)
Checked(r) ==
    /\ r.stage \in {"code.session", "code.update"} =>
          /\ member[r.target].roleName # "Recruta"
          /\ member[r.target].isAccountActive = (r.call.op = "changeUserPassword")
    /\ r.stage \in {"nick.move", "nick.delete"} => member[r.other].roleName = "Recruta"
    /\ r.stage \in {"role.clear", "role.create"} => member[r.target].roleName # "Recruta"

Hiring(r) ==
    r.stage \in {"contract.find", "contract.write"} => r.call \in CallsOf("contractUser")

ChecksHold == \A p \in Procs : Checked(req[p]) /\ Hiring(req[p])

LEMMA CheckedElsewhere ==
    ASSUME IInv, CalmInv, scenario.exclusive, NEW p \in Procs, Step(p), NEW r \in Request,
           RequestSound(r), Addressed(r), StillRead(r), StillThere(r), Checked(r),
           Named(r.call) \cap Named(req[p].call) = {}
    PROVE  Checked(r)'
<1> DEFINE one == Canon[r.call.nicks[1]]
           two == Canon[r.call.nicks[2]]
<1>1. ASSUME NEW n \in Named(r.call), NEW id, id # NoId, Find(n) = id
      PROVE  member'[id] = member[id]
  <2>1. id \in WithNick(n)
    BY <1>1, FindIs DEF CalmInv
  <2> QED BY <1>1, <2>1, Elsewhere DEF Calm
<1>2. ASSUME r.stage \in {"code.session", "code.update", "role.clear", "role.create"}
      PROVE  member'[r.target] = member[r.target]
  <2>1. r.target # NoId /\ Find(one) = r.target
    BY <1>2 DEF StillRead, AboutStages
  <2>2. one \in Named(r.call)
    <3>1. 1 \in DOMAIN r.call.nicks
      BY <1>2 DEF Addressed, RoleStages, CodeStages
    <3> QED BY <3>1, NamedIn
  <2> QED BY <1>1, <2>1, <2>2
<1>3. ASSUME r.stage \in {"nick.move", "nick.delete"}
      PROVE  member'[r.other] = member[r.other]
  <2>1. r.other # NoId /\ Find(two) = r.other
    BY <1>3 DEF StillThere
  <2>2. two \in Named(r.call)
    <3>1. 2 \in DOMAIN r.call.nicks
      BY <1>3 DEF RequestSound, NickStages, Known
    <3> QED BY <3>1, NamedIn
  <2> QED BY <1>1, <2>1, <2>2
<1> QED BY <1>2, <1>3 DEF Checked

LEMMA JustChecked ==
    ASSUME IInv, NEW p \in Procs, NEW s, s = req'[p],
           Checked(req[p]), Hiring(req[p]), Step(p) \/ FailQuery(p) \/ LoseWrite(p)
    PROVE  Checked(s)' /\ Hiring(s)
<1>0. PICK r : r = req[p]
  OBVIOUS
<1>1. CASE Off(p)
  BY <1>1 DEF Off, Watched, RoleStages, CodeStages, NickStages, Checked, Hiring
<1>2. CASE Leading(p) /\ ~ Off(p)
  <2>1. /\ s.call = r.call /\ Checked(r) /\ Hiring(r)
    BY <1>0, <1>2, LeadingTo
  <2>2. CASE FindForRole(p)
    <3>1. /\ s.stage = "role.clear" /\ UNCHANGED member
          /\ member[s.target].roleName # "Recruta"
      BY <1>2, <2>2, LeadingTo
    <3> QED BY <3>1 DEF Checked, Hiring
  <2>3. CASE ClearRoles(p)
    <3>1. /\ r.stage = "role.clear" /\ s.stage = "role.create" /\ s.target = r.target
          /\ UNCHANGED member
      BY <1>0, <1>2, <2>3, LeadingTo DEF At
    <3> QED BY <2>1, <3>1 DEF Checked, Hiring
  <2>4. CASE FindNew(p)
    <3>1. /\ UNCHANGED member
          /\ \/ s.stage = "nick.update"
             \/ s.stage = "nick.move" /\ member[s.other].roleName = "Recruta"
      BY <1>2, <2>4, LeadingTo
    <3> QED BY <3>1 DEF Checked, Hiring
  <2>5. CASE MoveHistory(p)
    <3>1. /\ r.stage = "nick.move" /\ s.stage = "nick.delete" /\ s.other = r.other
          /\ UNCHANGED member
      BY <1>0, <1>2, <2>5, LeadingTo DEF At
    <3> QED BY <2>1, <3>1 DEF Checked, Hiring
  <2>6. CASE FindToUnlock(p)
    <3>1. /\ s.stage = "code.session" /\ UNCHANGED member
          /\ s.target = Find(r.call.nicks[1]) /\ WaitsForCode(s.target, r.call.op)
      BY <1>0, <1>2, <2>6, LeadingTo
    <3> QED BY <2>1, <3>1 DEF Checked, Hiring, WaitsForCode
  <2>7. CASE ReadSession(p)
    <3>1. /\ r.stage = "code.session" /\ s.stage = "code.update" /\ s.target = r.target
          /\ UNCHANGED member
      BY <1>0, <1>2, <2>7, LeadingTo DEF At
    <3> QED BY <2>1, <3>1 DEF Checked, Hiring
  <2>8. CASE FindToContract(p)
    <3>1. r.stage = "contract.find" /\ s.stage = "contract.write"
      BY <1>0, <1>2, <2>8, LeadingTo DEF At
    <3> QED BY <2>1, <3>1 DEF Checked, Hiring
  <2>9. CASE \/ FindToEnlist(p) \/ FindToFire(p) \/ Dismissing(p) \/ FindPrevious(p)
             \/ DeleteMember(p) \/ Rename(p)
    <3>1. s.stage \in {"class.enlist", "fire.settle", "nick.new", "nick.update", "nick.log"}
      BY <1>2, <2>9, LeadingTo DEF Dismissing
    <3> QED BY <3>1 DEF Checked, Hiring
  <2> QED
    BY <1>2, <2>2, <2>3, <2>4, <2>5, <2>6, <2>7, <2>8, <2>9 DEF Leading
<1>3. CASE Reranks(p)
  <2>1. s.stage \in {"rank.cfo", "rank.settle"}
    BY <1>3 DEF Reranks
  <2> QED BY <2>1 DEF Checked, Hiring
<1> QED BY <1>1, <1>2, <1>3, StepLeads

LEMMA BegunChecked ==
    ASSUME IInv, NEW p \in Procs, NEW s, s = req'[p], Submit(p)
    PROVE  Checked(s)' /\ Hiring(s)
<1>1. ASSUME NEW call, NEW stage, NEW who, Begin(p, call, stage, who)
      PROVE  s.stage = stage /\ s.call = call
  BY <1>1 DEF Begin, Idle, IInv, TablesTyped
<1>2. CASE SubmitContractUser(p)
  <2>1. PICK call \in CallsOf("contractUser") :
           Begin(p, call, "contract.find", Guarded(call.actor))
    BY <1>2 DEF SubmitContractUser
  <2> QED BY <1>1, <2>1 DEF Checked, Hiring
<1>3. CASE ~ SubmitContractUser(p)
  <2>1. PICK stage \in {"role.find", "drop.find", "class.check", "fire.find", "nick.prev",
                        "session.create", "code.user", "cape.find", "give.find",
                        "wear.update", "rank.find"} :
           \E call, who : Begin(p, call, stage, who)
    BY <1>3 DEF Submit, DepartamentSubmit, AccountSubmit, CapeSubmit, SubmitSetUserRole,
       SubmitDeleteUserRole, SubmitPostClass, SubmitFireUser, SubmitChangeUserNick,
       SubmitSession, SubmitCode, SubmitCreateCape, SubmitAtributeCape, SubmitChangeUserCape,
       SubmitRankCall
  <2>2. s.stage = stage
    BY <1>1, <2>1
  <2> QED BY <2>1, <2>2 DEF Checked, Hiring
<1> QED BY <1>2, <1>3

LEMMA ChecksHoldNext ==
    ASSUME IInv, CalmInv, scenario.exclusive, ChecksHold, [Next]_vars
    PROVE  ChecksHold'
<1>0. scenario' = scenario
  BY ScenarioStays
<1>1. ASSUME NEW r, Checked(r), UNCHANGED member PROVE Checked(r)'
  BY <1>1 DEF Checked
<1>3. ASSUME NEW q \in Procs, NEW s, s = req'[q]
      PROVE  Checked(s)' /\ Hiring(s)
  <2>0. PICK r : r = req[q]
    OBVIOUS
  <2>1. /\ r \in Request /\ RequestSound(r) /\ Addressed(r) /\ StillRead(r) /\ StillThere(r)
        /\ Checked(r) /\ Hiring(r)
    BY <2>0 DEF IInv, TablesTyped, RequestsSound, CalmInv, AllAddressed, Calm, ChecksHold
  <2>2. CASE UNCHANGED <<req, member>>
    BY <1>1, <1>3, <2>0, <2>1, <2>2
  <2>3. ASSUME NEW p \in Procs, Submit(p)
        PROVE  Checked(s)' /\ Hiring(s)
    <3>1. CASE p = q
      BY <1>3, <2>3, <3>1, BegunChecked
    <3>2. CASE p # q
      BY <1>1, <1>3, <2>0, <2>1, <2>3, <3>2, SubmitOthers, QuietRows
    <3> QED BY <3>1, <3>2
  <2>4. ASSUME NEW p \in Procs, Step(p) \/ FailQuery(p) \/ LoseWrite(p)
        PROVE  Checked(s)' /\ Hiring(s)
    <3>1. CASE p = q
      BY <1>3, <2>0, <2>1, <2>4, <3>1, JustChecked
    <3>2. CASE p # q
      <4>1. ~ At(p, "idle") /\ s = r
        BY <1>3, <2>0, <2>4, <3>2, StepKeeps DEF Keeps
      <4>2. CASE r.stage = "idle"
        BY <4>1, <4>2 DEF Checked, Hiring
      <4>3. CASE r.stage # "idle"
        <5>1. Named(r.call) \cap Named(req[p].call) = {}
          BY <2>0, <3>2, <4>1, <4>3 DEF CalmInv, TurnsApart, At
        <5>2. CASE Step(p)
          BY <2>1, <4>1, <5>1, <5>2, CheckedElsewhere
        <5>3. CASE FailQuery(p) \/ LoseWrite(p)
          BY <1>1, <2>1, <4>1, <5>3, QuietRows
        <5> QED BY <2>4, <5>2, <5>3
      <4> QED BY <4>2, <4>3
    <3> QED BY <3>1, <3>2
  <2> QED BY <2>2, <2>3, <2>4 DEF Next, Tick, vars, tables, people
<1>4. ASSUME NEW q \in Procs PROVE Checked(req[q])' /\ Hiring(req[q])'
  <2>1. PICK s : s = req'[q]
    OBVIOUS
  <2>2. Checked(s)' /\ Hiring(s)
    BY <1>3, <2>1
  <2> QED BY <1>0, <2>1, <2>2 DEF Checked, Hiring, CallsOf
<1> QED BY <1>4 DEF ChecksHold

LEMMA ChecksHoldInit == Init => ChecksHold
BY DEF Init, ChecksHold, Checked, Hiring, Idle

(* The steps of a member from phase to phase.                              *)
Onto(old, new) ==
    \/ PhaseOf(new) = PhaseOf(old)
    \/ PhaseOf(old) = "recruta"  /\ PhaseOf(new) = "enlisted"
    \/ PhaseOf(old) = "enlisted" /\ PhaseOf(new) = "active"
    \/ PhaseOf(old) # "recruta"  /\ PhaseOf(new) = "recruta"

Passes(id) ==
    /\ id \in DOMAIN member /\ DOMAIN member' = DOMAIN member
    /\ Onto(member[id], member'[id])
    /\ \A i \in DOMAIN member \ {id} : member'[i] = member[i]

Enters(id) ==
    /\ id \notin DOMAIN member /\ DOMAIN member' = DOMAIN member \cup {id}
    /\ PhaseOf(member'[id]) = "enlisted"
    /\ \A i \in DOMAIN member : member'[i] = member[i]

Departs(id) ==
    /\ id \in DOMAIN member /\ PhaseOf(member[id]) = "recruta" /\ Leaves(id)

InPhase == \A id \in DOMAIN member : PhaseOf(member[id]) \in Life!Phases

LEMMA EntersByJoining ==
    ASSUME IInv, NEW row, member' = Joined(row), PhaseOf(row) = "enlisted"
    PROVE  Enters(created + 1)
<1>1. created \in Nat /\ DOMAIN member \subseteq 1..created
  BY DEF IInv, TablesTyped
<1>2. created + 1 \notin DOMAIN member
  BY <1>1
<1> QED BY <1>2 DEF Joined, Enters

LEMMA PhaseSteps ==
    ASSUME IInv, CalmInv, scenario.exclusive, ContractsEnlist, ChecksHold, InPhase,
           NEW p \in Procs, Step(p)
    PROVE  UNCHANGED member \/ \E id : Passes(id) \/ Enters(id) \/ Departs(id)
<1>0. /\ member \in [DOMAIN member -> MemberRow]
      /\ req[p] \in Request /\ StillRead(req[p]) /\ StillThere(req[p]) /\ Addressed(req[p])
      /\ Checked(req[p]) /\ Hiring(req[p])
  BY DEF IInv, TablesTyped, CalmInv, Calm, AllAddressed, ChecksHold
<1>1. \A id \in DOMAIN member :
         /\ member[id].isAccountActive \in BOOLEAN
         /\ member[id].roleName = "Recruta" => member[id].isAccountActive = FALSE
  BY <1>0 DEF InPhase, PhaseOf, Life!Phases, MemberRow
<1>2. \A id : id \in DOMAIN member \/ id = NoId \/ \A n : Find(n) # id
  BY FindType
<1>3. CASE Unlock(p) /\ Rewrites(Find(req[p].call.nicks[1]))
  <2> DEFINE id == Find(req[p].call.nicks[1])
  <2>1. req[p].stage = "code.update"
    BY <1>3 DEF Unlock, At
  <2>2. Canon[req[p].call.nicks[1]] = req[p].call.nicks[1] /\ id = req[p].target
    BY <1>0, <2>1 DEF Addressed, StillRead, CodeStages, AboutStages
  <2>3. /\ member[id].roleName # "Recruta"
        /\ member[id].isAccountActive = (req[p].call.op = "changeUserPassword")
    BY <1>0, <2>1, <2>2 DEF Checked
  <2>4. \/ UNCHANGED member
        \/ /\ req[p].call.op # "changeUserPassword" /\ id \in DOMAIN member
           /\ member' = [member EXCEPT ![id].isAccountActive = TRUE]
    BY <1>3 DEF Unlock, Rewrites
  <2> HIDE DEF id
  <2>5. CASE /\ req[p].call.op # "changeUserPassword" /\ id \in DOMAIN member
             /\ member' = [member EXCEPT ![id].isAccountActive = TRUE]
    <3>1. member'[id].roleName = member[id].roleName /\ member'[id].isAccountActive = TRUE
      BY <1>0, <2>5 DEF MemberRow
    <3>2. Onto(member[id], member'[id])
      BY <2>3, <2>5, <3>1 DEF Onto, PhaseOf
    <3>3. Passes(id)
      BY <2>5, <3>2 DEF Passes
    <3> QED BY <3>3
  <2> QED BY <2>4, <2>5
<1>4. CASE Dismiss(p) /\ Rewrites(Find(Spelled(req[p].call.nicks[1])))
  <2> DEFINE id == Find(Spelled(req[p].call.nicks[1]))
  <2>1. \/ UNCHANGED member
        \/ id \in DOMAIN member /\ member' = [member EXCEPT ![id] = Dismissed(@)]
    BY <1>4 DEF Dismiss, Rewrites
  <2> HIDE DEF id
  <2>2. CASE id \in DOMAIN member /\ member' = [member EXCEPT ![id] = Dismissed(@)]
    <3>1. member'[id].roleName = "Recruta" /\ member'[id].isAccountActive = FALSE
      BY <1>0, <2>2 DEF MemberRow, Dismissed
    <3>2. Onto(member[id], member'[id])
      BY <3>1 DEF Onto, PhaseOf
    <3>3. Passes(id)
      BY <2>2, <3>2 DEF Passes
    <3> QED BY <3>3
  <2> QED BY <2>1, <2>2
<1>5. CASE ContractWrite(p)
  <2>1. Role(p) # "Recruta"
    BY <1>0, <1>5 DEF ContractWrite, At, Hiring, ContractsEnlist, Role
  <2> DEFINE id == req[p].target
  <2>2. \/ UNCHANGED member
        \/ member' = Joined(NewRow(NickIn(p, 1), Role(p)))
        \/ id \in DOMAIN member /\ member' = [member EXCEPT ![id].roleName = Role(p)]
    BY <1>5 DEF ContractWrite
  <2>3. PhaseOf(NewRow(NickIn(p, 1), Role(p))) = "enlisted"
    BY <2>1 DEF PhaseOf, NewRow
  <2> HIDE DEF id
  <2>4. CASE id \in DOMAIN member /\ member' = [member EXCEPT ![id].roleName = Role(p)]
    <3>1. /\ member'[id].roleName = Role(p)
          /\ member'[id].isAccountActive = member[id].isAccountActive
      BY <1>0, <2>4 DEF MemberRow
    <3>2. Onto(member[id], member'[id])
      BY <1>1, <2>1, <2>4, <3>1 DEF Onto, PhaseOf
    <3>3. Passes(id)
      BY <2>4, <3>2 DEF Passes
    <3> QED BY <3>3
  <2> QED BY <2>2, <2>3, <2>4, EntersByJoining
<1>6. CASE DeleteMember(p)
  <2>1. req[p].stage = "nick.delete"
    BY <1>6 DEF DeleteMember, At
  <2>2. \/ UNCHANGED member
        \/ /\ req[p].other \in DOMAIN member
           /\ member' = Restrict(member, DOMAIN member \ {req[p].other})
    BY <1>6 DEF DeleteMember
  <2>3. member[req[p].other].roleName = "Recruta"
    BY <1>0, <2>1 DEF Checked
  <2>4. CASE /\ req[p].other \in DOMAIN member
             /\ member' = Restrict(member, DOMAIN member \ {req[p].other})
    <3>1. Leaves(req[p].other)
      BY <2>4 DEF Leaves, Restrict
    <3>2. PhaseOf(member[req[p].other]) = "recruta"
      BY <1>1, <2>3, <2>4 DEF PhaseOf
    <3> QED BY <2>4, <3>1, <3>2 DEF Departs
  <2> QED BY <2>2, <2>4
<1>7. CASE Rename(p) /\ Renames(Find(NickIn(p, 1)), NickIn(p, 2))
  <2> DEFINE id == Find(NickIn(p, 1))
  <2>1. \/ UNCHANGED member
        \/ id \in DOMAIN member /\ member' = [member EXCEPT ![id].nick = NickIn(p, 2)]
    BY <1>7 DEF Rename, ToRename, Renames
  <2> HIDE DEF id
  <2>2. CASE id \in DOMAIN member /\ member' = [member EXCEPT ![id].nick = NickIn(p, 2)]
    <3>1. /\ member'[id].roleName = member[id].roleName
          /\ member'[id].isAccountActive = member[id].isAccountActive
      BY <1>0, <2>2 DEF MemberRow
    <3>2. Onto(member[id], member'[id])
      BY <3>1 DEF Onto, PhaseOf
    <3>3. Passes(id)
      BY <2>2, <3>2 DEF Passes
    <3> QED BY <3>3
  <2> QED BY <2>1, <2>2
<1>8. CASE WearCape(p) /\ Rewrites(Find(req[p].who.nick))
  <2> DEFINE id == Find(req[p].who.nick)
  <2>1. \/ UNCHANGED member
        \/ id \in DOMAIN member /\ member' = [member EXCEPT ![id].capeSelected = Cape(p)]
    BY <1>8 DEF WearCape, Rewrites
  <2> HIDE DEF id
  <2>2. CASE id \in DOMAIN member /\ member' = [member EXCEPT ![id].capeSelected = Cape(p)]
    <3>1. /\ member'[id].roleName = member[id].roleName
          /\ member'[id].isAccountActive = member[id].isAccountActive
      BY <1>0, <2>2 DEF MemberRow
    <3>2. Onto(member[id], member'[id])
      BY <3>1 DEF Onto, PhaseOf
    <3>3. Passes(id)
      BY <2>2, <3>2 DEF Passes
    <3> QED BY <3>3
  <2> QED BY <2>1, <2>2
<1>9. CASE Enlist(p)
  <2> DEFINE nick == Canon[Reached(p)]
             id   == Find(nick)
  <2>1. \/ UNCHANGED member
        \/ member' = Joined(NewRow(nick, "Soldado"))
        \/ id \in DOMAIN member /\ member' = [member EXCEPT ![id] = EnlistedRow(@)]
    BY <1>2, <1>9 DEF Enlist
  <2>2. PhaseOf(NewRow(nick, "Soldado")) = "enlisted"
    BY DEF PhaseOf, NewRow
  <2> HIDE DEF id, nick
  <2>3. CASE id \in DOMAIN member /\ member' = [member EXCEPT ![id] = EnlistedRow(@)]
    <3>1. /\ member'[id].roleName = "Soldado"
          /\ member'[id].isAccountActive = member[id].isAccountActive
      BY <1>0, <2>3 DEF MemberRow, EnlistedRow
    <3>2. Onto(member[id], member'[id])
      BY <1>1, <2>3, <3>1 DEF Onto, PhaseOf
    <3>3. Passes(id)
      BY <2>3, <3>2 DEF Passes
    <3> QED BY <3>3
  <2> QED BY <2>1, <2>2, <2>3, EntersByJoining
<1>10. CASE Rerank(p) /\ Rewrites(Find(Spelled(req[p].call.nicks[1])))
  <2> DEFINE id == Find(Spelled(req[p].call.nicks[1]))
  <2>1. Role(p) # "Recruta"
    BY <1>10 DEF Rerank, At, Role, IInv, RequestsSound, RequestSound
  <2>2. \/ UNCHANGED member
        \/ id \in DOMAIN member /\ member' = [member EXCEPT ![id].roleName = Role(p)]
    BY <1>10 DEF Rerank, Rewrites
  <2> HIDE DEF id
  <2>3. CASE id \in DOMAIN member /\ member' = [member EXCEPT ![id].roleName = Role(p)]
    <3>1. /\ member'[id].roleName = Role(p)
          /\ member'[id].isAccountActive = member[id].isAccountActive
      BY <1>0, <2>3 DEF MemberRow
    <3>2. Onto(member[id], member'[id])
      BY <1>1, <2>1, <2>3, <3>1 DEF Onto, PhaseOf
    <3>3. Passes(id)
      BY <2>3, <3>2 DEF Passes
    <3> QED BY <3>3
  <2> QED BY <2>2, <2>3
<1> QED
  BY <1>3, <1>4, <1>5, <1>6, <1>7, <1>8, <1>9, <1>10, AccountRows, OtherRows, CareerRows
     DEF Step

(* Each of them is a step of Membership, and leaves everybody in a phase.  *)
LEMMA PhaseStepsAreLife ==
    ASSUME InPhase,
           UNCHANGED member \/ \E id : Passes(id) \/ Enters(id) \/ Departs(id)
    PROVE  InPhase' /\ [Life!Next]_PhasesOf
<1>1. CASE UNCHANGED member
  BY <1>1 DEF InPhase, PhasesOf
<1>2. ASSUME NEW id, Passes(id)
      PROVE  InPhase' /\ [Life!Next]_PhasesOf
  <2>1. PhaseOf(member[id]) \in Life!Phases /\ Onto(member[id], member'[id])
    BY <1>2 DEF InPhase, Passes
  <2>2. PhaseOf(member'[id]) \in Life!Phases
    BY <2>1 DEF Onto, Life!Phases
  <2>3. InPhase'
    BY <1>2, <2>2 DEF InPhase, Passes
  <2>4. /\ id \in DOMAIN PhasesOf /\ PhasesOf[id] = PhaseOf(member[id])
        /\ PhasesOf' = [PhasesOf EXCEPT ![id] = PhaseOf(member'[id])]
    BY <1>2 DEF PhasesOf, Passes
  <2>5. CASE PhaseOf(member'[id]) = PhaseOf(member[id])
    <3>1. PhasesOf' = PhasesOf
      BY <2>4, <2>5 DEF PhasesOf
    <3> QED BY <2>3, <3>1
  <2>6. CASE PhaseOf(member'[id]) # PhaseOf(member[id])
    <3>1. Life!Enlist(id) \/ Life!Open(id) \/ Life!Dismiss(id)
      BY <2>1, <2>4, <2>6 DEF Onto, Life!Enlist, Life!Open, Life!Dismiss, Life!Become
    <3> QED BY <2>3, <2>4, <3>1 DEF Life!Next
  <2> QED BY <2>5, <2>6
<1>3. ASSUME NEW id, Enters(id)
      PROVE  InPhase' /\ [Life!Next]_PhasesOf
  <2>1. InPhase'
    BY <1>3 DEF InPhase, Enters, Life!Phases
  <2>2. Life!Join(id) /\ id \in DOMAIN PhasesOf'
    BY <1>3 DEF Enters, PhasesOf, Life!Join
  <2> QED BY <2>1, <2>2 DEF Life!Next
<1>4. ASSUME NEW id, Departs(id)
      PROVE  InPhase' /\ [Life!Next]_PhasesOf
  <2>1. InPhase'
    BY <1>4 DEF InPhase, Departs, Leaves
  <2>2. Life!Leave(id) /\ id \in DOMAIN PhasesOf
    BY <1>4 DEF Departs, Leaves, PhasesOf, Life!Leave, Life!Restrict
  <2> QED BY <2>1, <2>2 DEF Life!Next
<1> QED BY <1>1, <1>2, <1>3, <1>4

LEMMA MembershipNext ==
    ASSUME IInv, CalmInv, scenario.exclusive, ContractsEnlist, ChecksHold, InPhase,
           [Next]_vars
    PROVE  InPhase' /\ [Life!Next]_PhasesOf
<1>1. CASE UNCHANGED member
  BY <1>1, PhaseStepsAreLife
<1>2. ASSUME NEW p \in Procs, Step(p) PROVE InPhase' /\ [Life!Next]_PhasesOf
  BY <1>2, PhaseSteps, PhaseStepsAreLife
<1> QED BY <1>1, <1>2, QuietRows DEF Next, Tick, vars, tables, people

(***************************************************************************)
(* Whatever dismissals, contracts, classes, activations and changes of     *)
(* nick come in turn, and whichever of their queries fail, members pass    *)
(* through the corps as Membership says, unless somebody is contracted as  *)
(* a Recruta.  Nobody starts dismissed with an account that is open.       *)
(***************************************************************************)
THEOREM BackofficeImplementsMembership ==
    ASSUME DismissedAreClosed
    PROVE  Spec => ImplementsMembership
<1> DEFINE J == scenario.exclusive => ChecksHold
           K == scenario.exclusive /\ ContractsEnlist => InPhase
           Moves == [scenario.exclusive /\ ContractsEnlist => Life!Next]_PhasesOf
<1>1. Init => InPhase /\ Life!Init
  <2> SUFFICES ASSUME Init PROVE InPhase /\ Life!Init
    OBVIOUS
  <2>1. \A id \in DOMAIN member :
           /\ member[id].isAccountActive \in BOOLEAN
           /\ member[id].roleName = "Recruta" => ~ member[id].isAccountActive
    BY InitInv DEF DismissedAreClosed, Init, IInv, TablesTyped, MemberRow
  <2>2. InPhase
    BY <2>1 DEF InPhase, PhaseOf, Life!Phases
  <2>3. PhasesOf \in [DOMAIN PhasesOf -> Life!Phases]
    BY <2>2 DEF InPhase, PhasesOf
  <2> QED BY <2>2, <2>3 DEF Life!Init
<1>2. Init => J /\ K
  BY <1>1, ChecksHoldInit
<1>3. IInv /\ CalmInv /\ J /\ [Next]_vars => J'
  BY ChecksHoldNext, ScenarioStays
<1>4. IInv /\ CalmInv /\ J /\ K /\ [Next]_vars => K' /\ Moves
  <2> SUFFICES ASSUME IInv, CalmInv, J, K, [Next]_vars PROVE K' /\ Moves
    OBVIOUS
  <2>1. scenario' = scenario /\ ContractsEnlist' = ContractsEnlist
    BY ScenarioStays DEF ContractsEnlist, CallsOf
  <2>2. CASE scenario.exclusive /\ ContractsEnlist
    BY <2>2, MembershipNext
  <2> QED BY <2>1, <2>2
<1> HIDE DEF J, K
<1> QED
  BY <1>1, <1>2, <1>3, <1>4, InitInv, NextInv, CalmInvInit, CalmInvNext, PTL
     DEF Spec, ImplementsMembership
-----------------------------------------------------------------------------
(***************************************************************************)
(* Classes.  How a request walks the list of approved nicks.               *)
(***************************************************************************)
Ahead(r, s, again, next) ==
    \/ r.at = Len(r.call.nicks) /\ s.stage = next  /\ s.at = 1
    \/ r.at # Len(r.call.nicks) /\ s.stage = again /\ s.at = r.at + 1

LEMMA OnwardIs ==
    ASSUME IInv, NEW p \in Procs, NEW again, NEW next, NEW s, s = Onward(p, again, next)
    PROVE  /\ s.call = req[p].call /\ s.ids = req[p].ids
           /\ Ahead(req[p], s, again, next)
BY DEF Onward, Ahead, IInv, TablesTyped, Request

(* Handlers other than postClass never wait where postClass does.          *)
LEMMA OutOfClass ==
    ASSUME IInv, NEW p \in Procs
    PROVE  /\ Answer(p) => req'[p].stage \notin ClassStages
           /\ \A stage : Goto(p, stage) /\ stage \notin ClassStages
                         => req'[p].stage \notin ClassStages
           /\ \A stage, id : /\ req' = [req EXCEPT ![p].stage = stage, ![p].target = id]
                             /\ stage \notin ClassStages
                             => req'[p].stage \notin ClassStages
           /\ \A w : Settle(p, w) /\ req[p].stage \notin ClassStages
                     => req'[p].stage \notin ClassStages
<1>0. req \in [Procs -> Request]
  BY DEF IInv, TablesTyped
<1>1. Answer(p) => req'[p].stage \notin ClassStages
  BY <1>0 DEF Answer, Idle, ClassStages
<1>2. ASSUME NEW stage, Goto(p, stage), stage \notin ClassStages
      PROVE  req'[p].stage \notin ClassStages
  BY <1>0, <1>2 DEF Goto, Request
<1>3. ASSUME NEW stage, NEW id, stage \notin ClassStages,
             req' = [req EXCEPT ![p].stage = stage, ![p].target = id]
      PROVE  req'[p].stage \notin ClassStages
  BY <1>0, <1>3 DEF Request
<1>4. ASSUME NEW w, Settle(p, w), req[p].stage \notin ClassStages
      PROVE  req'[p].stage \notin ClassStages
  <2>1. CASE Answer(p)
    BY <1>1, <2>1
  <2>2. CASE req' = [req EXCEPT ![p].todo = @ \ {w}]
    <3>1. req'[p].stage = req[p].stage
      BY <1>0, <2>2 DEF Request
    <3> QED BY <1>4, <3>1
  <2> QED BY <1>4, <2>1, <2>2 DEF Settle
<1> QED BY <1>1, <1>2, <1>3, <1>4

LEMMA DepartamentOut ==
    ASSUME IInv, NEW p \in Procs,
           \/ FindForRole(p) \/ ClearRoles(p) \/ CreateRole(p)
           \/ FindForRemoval(p) \/ RemoveRole(p)
    PROVE  req'[p].stage \notin ClassStages
<1>0. req \in [Procs -> Request]
  BY DEF IInv, TablesTyped
<1>1. CASE FindForRole(p)
  <2>1. Answer(p) \/ \E id : req' = [req EXCEPT ![p].stage = "role.clear", ![p].target = id]
    BY <1>1 DEF FindForRole
  <2> QED BY <2>1, OutOfClass DEF ClassStages
<1>2. CASE ClearRoles(p) \/ CreateRole(p) \/ RemoveRole(p)
  BY <1>2, OutOfClass DEF ClearRoles, CreateRole, RemoveRole, ClassStages
<1>3. CASE FindForRemoval(p)
  <2>1. Answer(p) \/ \E r : req' = [req EXCEPT ![p].stage = "drop.delete", ![p].target = r.user,
                                               ![p].call.about = r.role]
    BY <1>3 DEF FindForRemoval
  <2>2. ASSUME NEW r, req' = [req EXCEPT ![p].stage = "drop.delete", ![p].target = r.user,
                                         ![p].call.about = r.role]
        PROVE  req'[p].stage = "drop.delete"
    BY <1>0, <2>2 DEF Request
  <2> QED BY <2>1, <2>2, OutOfClass DEF ClassStages
<1> QED BY <1>1, <1>2, <1>3

LEMMA AccountOut ==
    ASSUME IInv, NEW p \in Procs, AccountStep(p)
    PROVE  req'[p].stage \notin ClassStages
<1>0. req \in [Procs -> Request]
  BY DEF IInv, TablesTyped
<1>1. CASE FindToFire(p)
  <2>1. Answer(p) \/ \E id : req' = [req EXCEPT ![p].stage = "fire.settle", ![p].target = id,
                                                ![p].todo = FireWrites]
    BY <1>1 DEF FindToFire
  <2>2. ASSUME NEW id, req' = [req EXCEPT ![p].stage = "fire.settle", ![p].target = id,
                                          ![p].todo = FireWrites]
        PROVE  req'[p].stage = "fire.settle"
    BY <1>0, <2>2 DEF Request
  <2> QED BY <2>1, <2>2, OutOfClass DEF ClassStages
<1>2. CASE Dismiss(p) \/ LogDismissal(p) \/ TakePermissions(p) \/ TakePosts(p)
  <2>1. PICK w : Settle(p, w)
    BY <1>2 DEF Dismiss, LogDismissal, TakePermissions, TakePosts
  <2>2. req[p].stage \notin ClassStages
    BY <1>2 DEF Dismiss, LogDismissal, TakePermissions, TakePosts, At, ClassStages
  <2> QED BY <2>1, <2>2, OutOfClass
<1>3. CASE FindToContract(p)
  <2>1. PICK id : req' = [req EXCEPT ![p].stage = "contract.write", ![p].target = id]
    BY <1>3 DEF FindToContract
  <2>2. req'[p].stage = "contract.write"
    BY <1>0, <2>1 DEF Request
  <2> QED BY <2>2 DEF ClassStages
<1>4. CASE FindPrevious(p)
  <2>1. Answer(p) \/ \E id : req' = [req EXCEPT ![p].stage = "nick.new", ![p].target = id]
    BY <1>4 DEF FindPrevious
  <2> QED BY <2>1, OutOfClass DEF ClassStages
<1>5. CASE FindNew(p)
  <2>1. \/ Answer(p) \/ Goto(p, "nick.update")
        \/ \E id : req' = [req EXCEPT ![p].stage = "nick.move", ![p].other = id]
    BY <1>5 DEF FindNew
  <2>2. ASSUME NEW id, req' = [req EXCEPT ![p].stage = "nick.move", ![p].other = id]
        PROVE  req'[p].stage = "nick.move"
    BY <1>0, <2>2 DEF Request
  <2> QED BY <2>1, <2>2, OutOfClass DEF ClassStages
<1>6. CASE FindToUnlock(p)
  <2>1. Answer(p) \/ \E id : req' = [req EXCEPT ![p].stage = "code.session", ![p].target = id]
    BY <1>6 DEF FindToUnlock
  <2> QED BY <2>1, OutOfClass DEF ClassStages
<1>7. CASE \/ ContractWrite(p) \/ LogContract(p) \/ MoveHistory(p) \/ DeleteMember(p)
           \/ Rename(p) \/ LogRename(p) \/ CreateSession(p) \/ ReadSession(p) \/ Unlock(p)
  <2>1. \/ Answer(p) \/ Goto(p, "contract.log") \/ Goto(p, "nick.delete")
        \/ Goto(p, "nick.update") \/ Goto(p, "nick.log") \/ Goto(p, "code.update")
        \/ \E id : req' = [req EXCEPT ![p].stage = "contract.log", ![p].target = id]
    BY <1>7 DEF ContractWrite, LogContract, MoveHistory, DeleteMember, Rename, LogRename,
                CreateSession, ReadSession, Unlock
  <2> QED BY <2>1, OutOfClass DEF ClassStages
<1> QED BY <1>1, <1>2, <1>3, <1>4, <1>5, <1>6, <1>7 DEF AccountStep

LEMMA CapeOut ==
    ASSUME IInv, NEW p \in Procs, CapeStep(p)
    PROVE  req'[p].stage \notin ClassStages
<1>1. CASE FindToGive(p)
  <2>1. Answer(p) \/ \E id : req' = [req EXCEPT ![p].stage = "give.create", ![p].target = id]
    BY <1>1 DEF FindToGive
  <2> QED BY <2>1, OutOfClass DEF ClassStages
<1>2. CASE FindCape(p) \/ PutPicture(p) \/ CreateCape(p) \/ GiveCape(p) \/ WearCape(p)
  BY <1>2, OutOfClass DEF FindCape, PutPicture, CreateCape, GiveCape, WearCape, ClassStages
<1> QED BY <1>1, <1>2 DEF CapeStep

LEMMA CareerOut ==
    ASSUME IInv, NEW p \in Procs, CareerStep(p)
    PROVE  req'[p].stage \notin ClassStages
<1>1. Answer(p) \/ req'[p].stage \in {"rank.cfo", "rank.settle"}
  BY RankGoesOn
<1> QED BY <1>1, OutOfClass DEF ClassStages

(* The steps that end in a stage of postClass.                             *)
LEMMA SettlesOn ==
    ASSUME IInv, NEW p \in Procs, NEW w, Settle(p, w), req'[p].stage # "idle"
    PROVE  /\ req'[p].stage = req[p].stage /\ req'[p].call = req[p].call
           /\ req'[p].ids = req[p].ids /\ req'[p].at = req[p].at
           /\ req'[p].target = req[p].target
           /\ req'[p].todo = req[p].todo \ {w} /\ req[p].todo # {w}
<1>0. req \in [Procs -> Request]
  BY DEF IInv, TablesTyped
<1>1. ~ Answer(p)
  BY <1>0 DEF Answer, Idle
<1> QED BY <1>0, <1>1 DEF Settle, Request

LEMMA WalkTo ==
    ASSUME IInv, NEW p \in Procs, Step(p) \/ FailQuery(p) \/ LoseWrite(p),
           NEW r, r = req[p], NEW s, s = req'[p], s.stage \in ClassStages
    PROVE  /\ s.call = r.call
           /\ \/ /\ r.stage = "class.check" /\ s.ids = r.ids /\ UNCHANGED member
                 /\ MayPass(Reached(p), About(p))
                 /\ Ahead(r, s, "class.check", AfterCheck(About(p)))
              \/ /\ r.stage = "class.enrol" /\ s.stage = "class.enlist"
                 /\ s.ids = r.ids /\ s.at = r.at /\ UNCHANGED member
              \/ /\ r.stage = "class.enlist" /\ s.ids = r.ids /\ Enlist(p)
                 /\ (r.target = NoId) = (Find(Canon[Reached(p)]) = NoId)
                 /\ Ahead(r, s, "class.enrol", "class.collect")
              \/ /\ r.stage = "class.collect" /\ UNCHANGED member
                 /\ Find(Canon[Reached(p)]) # NoId
                 /\ s.ids = Append(r.ids, Find(Canon[Reached(p)]))
                 /\ Ahead(r, s, "class.collect", "class.settle")
              \/ /\ r.stage = "class.settle" /\ s.stage = "class.settle"
                 /\ s.ids = r.ids /\ UNCHANGED member
<1>0. req \in [Procs -> Request]
  BY DEF IInv, TablesTyped
<1>1. ~ Answer(p)
  BY OutOfClass
<1> USE DEF tables, people
<1>2. CASE CheckApproved(p)
  <2> DEFINE o == Onward(p, "class.check", AfterCheck(About(p)))
  <2>1. /\ At(p, "class.check") /\ UNCHANGED member /\ MayPass(Reached(p), About(p))
        /\ req' = [req EXCEPT ![p] = o]
    BY <1>1, <1>2 DEF CheckApproved
  <2>2. /\ o.call = r.call /\ o.ids = r.ids
        /\ Ahead(r, o, "class.check", AfterCheck(About(p)))
    BY OnwardIs
  <2> HIDE DEF o
  <2>3. s = o
    BY <1>0, <2>1
  <2> QED BY <2>1, <2>2, <2>3 DEF At
<1>3. CASE FindToEnlist(p)
  <2> DEFINE id == Find(Canon[Reached(p)])
  <2>1. /\ At(p, "class.enrol") /\ UNCHANGED member
        /\ req' = [req EXCEPT ![p].stage = "class.enlist", ![p].target = id]
    BY <1>3 DEF FindToEnlist
  <2> HIDE DEF id
  <2>2. /\ s.stage = "class.enlist" /\ s.call = r.call /\ s.ids = r.ids /\ s.at = r.at
    BY <1>0, <2>1 DEF Request
  <2> QED BY <2>1, <2>2 DEF At
<1>4. CASE Enlist(p)
  <2> DEFINE o == Onward(p, "class.enrol", "class.collect")
             n == [o EXCEPT !.target = NoId]
  <2>1. /\ At(p, "class.enlist") /\ req' = [req EXCEPT ![p] = n]
        /\ (req[p].target = NoId) = (Find(Canon[Reached(p)]) = NoId)
    BY <1>1, <1>4 DEF Enlist
  <2>2. o.call = r.call /\ o.ids = r.ids /\ Ahead(r, o, "class.enrol", "class.collect")
    BY OnwardIs
  <2>3. n.call = o.call /\ n.ids = o.ids /\ n.stage = o.stage /\ n.at = o.at
    BY <1>0 DEF Onward, Request
  <2> HIDE DEF o, n
  <2>4. s = n
    BY <1>0, <2>1
  <2> QED BY <1>4, <2>1, <2>2, <2>3, <2>4 DEF At, Ahead
<1>5. CASE CollectApproved(p)
  <2> DEFINE o == Onward(p, "class.collect", "class.settle")
             id == Find(Canon[Reached(p)])
             n == [o EXCEPT !.ids = Append(@, id), !.todo = {"permissions", "log", "class"}]
  <2>1. /\ At(p, "class.collect") /\ id # NoId /\ UNCHANGED member
        /\ req' = [req EXCEPT ![p] = n]
    BY <1>1, <1>5 DEF CollectApproved
  <2>2. o.call = r.call /\ o.ids = r.ids /\ Ahead(r, o, "class.collect", "class.settle")
    BY OnwardIs
  <2>3. n.call = o.call /\ n.ids = Append(o.ids, id) /\ n.stage = o.stage /\ n.at = o.at
    BY <1>0 DEF Onward, Request
  <2> HIDE DEF o, n
  <2>4. s = n
    BY <1>0, <2>1
  <2> QED BY <2>1, <2>2, <2>3, <2>4 DEF At, Ahead
<1>6. CASE GiveCourses(p) \/ LogApproved(p) \/ RecordClass(p)
  <2>1. At(p, "class.settle") /\ UNCHANGED member /\ \E w : Settle(p, w)
    BY <1>6 DEF GiveCourses, LogApproved, RecordClass
  <2>2. s.stage # "idle"
    BY DEF ClassStages
  <2> QED BY <2>1, <2>2, SettlesOn DEF At
<1>7. CASE LoseWrite(p)
  <2>1. req[p].stage \in Settling /\ UNCHANGED member /\ \E w : Settle(p, w)
    BY <1>7 DEF LoseWrite
  <2>2. s.stage \notin {"idle", "fire.settle", "rank.settle"}
    BY DEF ClassStages
  <2> QED BY <2>1, <2>2, SettlesOn DEF Settling
<1>8. ~ FailQuery(p)
  BY <1>1 DEF FailQuery
<1> QED
  BY <1>2, <1>3, <1>4, <1>5, <1>6, <1>7, <1>8, DepartamentOut, AccountOut, CapeOut,
     CareerOut DEF Step, DepartamentStep

(* Under one nick stands the same row, or none, before and after.          *)
SameUnder(n) ==
    /\ Find(n)' = Find(n)
    /\ Find(n) # NoId => member'[Find(n)] = member[Find(n)]

LEMMA SameRows ==
    ASSUME IInv, NicksUnique, NEW n,
           WithNick(n)' = WithNick(n), \A i \in WithNick(n) : member'[i] = member[i]
    PROVE  SameUnder(n)
BY SameFind, FindIs DEF SameUnder

LEMMA SameWhenQuiet ==
    ASSUME UNCHANGED member, NEW n
    PROVE  SameUnder(n)
<1>1. WithNick(n)' = WithNick(n)
  BY DEF WithNick
<1> QED BY <1>1, SameFind DEF SameUnder

LEMMA SameElsewhere ==
    ASSUME IInv, CalmInv, scenario.exclusive, NEW p \in Procs, Step(p),
           NEW n, n \notin Named(req[p].call)
    PROVE  SameUnder(n)
BY Elsewhere, SameRows DEF Calm, CalmInv

LEMMA SameBesideEnlisted ==
    ASSUME IInv, NicksUnique, NEW p \in Procs, Enlist(p), NEW n, n # Canon[Reached(p)]
    PROVE  SameUnder(n)
<1> DEFINE nick == Canon[Reached(p)]
<1>1. DepartamentStep(p)
  BY DEF DepartamentStep
<1>2. UNCHANGED member \/ Joins(nick) \/ (Find(nick) # NoId /\ Rewrites(Find(nick)))
  <2>1. \A id : Rewrites(id) => id # NoId
    BY DEF Rewrites, IInv, TablesTyped, NoId
  <2>2. ~ WearCape(p)
    BY DEF WearCape, Enlist, At
  <2> QED BY <1>1, <2>1, <2>2, OtherRows
<1>3. CASE UNCHANGED member
  BY <1>3, SameWhenQuiet
<1>4. CASE Joins(nick)
  <2>1. WithNick(n)' = WithNick(n) /\ \A i \in WithNick(n) : member'[i] = member[i]
    BY <1>4 DEF Joins, WithNick
  <2> QED BY <2>1, SameRows
<1>5. CASE Find(nick) # NoId /\ Rewrites(Find(nick))
  <2>1. PICK id : id = Find(nick)
    OBVIOUS
  <2>2. id \in WithNick(nick) /\ Rewrites(id)
    BY <1>5, <2>1, FindIs
  <2>3. id \notin WithNick(n)
    BY <2>2 DEF WithNick
  <2>4. WithNick(n)' = WithNick(n)
    BY <2>2, RewritesNicks
  <2>5. \A i \in WithNick(n) : member'[i] = member[i]
    BY <2>2, <2>3 DEF Rewrites, WithNick
  <2> QED BY <2>4, <2>5, SameRows
<1> QED BY <1>2, <1>3, <1>4, <1>5

(***************************************************************************)
(* What the walks of postClass know of the nicks: whoever is to become a   *)
(* Soldado is a Recruta, or nobody, until then.                            *)
(***************************************************************************)
Place(r, i) == Canon[r.call.nicks[i]]

Free(n) == Find(n) = NoId \/ member[Find(n)].roleName = "Recruta"

Teaching(r) ==
    /\ r.stage \in ClassStages => r.call \in CallsOf("postClass")
    /\ r.stage \in {"class.enrol", "class.enlist"} => r.call.about = "CFPM"

Waiting(r) ==
    /\ r.stage = "class.check" /\ r.call.about = "CFPM" =>
          \A i \in DOMAIN r.call.nicks : i < r.at => Free(Place(r, i))
    /\ r.stage \in {"class.enrol", "class.enlist"} =>
          \A i \in DOMAIN r.call.nicks : i >= r.at => Free(Place(r, i))

LEMMA FreeStays ==
    ASSUME NEW n, SameUnder(n), Free(n)
    PROVE  Free(n)'
BY DEF SameUnder, Free

LEMMA WaitingStays ==
    ASSUME NEW r, Waiting(r), \A i \in DOMAIN r.call.nicks : SameUnder(Place(r, i))
    PROVE  Waiting(r)'
<1>1. ASSUME NEW i \in DOMAIN r.call.nicks, Free(Place(r, i)) PROVE Free(Place(r, i))'
  BY <1>1, FreeStays DEF Place
<1> QED BY <1>1 DEF Waiting, Place

LEMMA DistinctPlaces ==
    ASSUME NEW S, NEW seq \in Seq(S), Cardinality(Range(seq)) = Len(seq),
           NEW i \in DOMAIN seq, NEW j \in DOMAIN seq, seq[i] = seq[j]
    PROVE  i = j
<1> DEFINE D == 1..Len(seq)
           R == Range(seq)
<1>1. Len(seq) \in Nat /\ DOMAIN seq = D /\ seq \in [D -> S]
  BY LenProperties
<1>2. IsFiniteSet(D) /\ Cardinality(D) = Len(seq)
  <2>1. /\ IsFiniteSet(D)
        /\ Cardinality(D) = IF 1 > Len(seq) THEN 0 ELSE Len(seq) - 1 + 1
    BY <1>1, FS_Interval
  <2> QED BY <1>1, <2>1
<1>3. seq \in [D -> R] /\ \A t \in R : \E k \in D : seq[k] = t
  BY <1>1 DEF Range
<1> HIDE DEF D, R
<1>4. seq \in Surjection(D, R)
  BY <1>3 DEF Surjection
<1>5. seq \in Injection(D, R)
  BY <1>2, <1>4, FS_SurjSameCardinalityImpliesInj DEF R
<1> QED BY <1>1, <1>5 DEF Injection, IsInjective

LEMMA WalkPlaces ==
    ASSUME IInv, NEW p \in Procs, NEW r, r = req[p], r.stage \in ClassStages
    PROVE  /\ r.call \in Call /\ r.call.nicks \in Seq(Typed) /\ r.at \in Nat
           /\ DOMAIN r.call.nicks = 1..Len(r.call.nicks) /\ Len(r.call.nicks) \in Nat
           /\ r.at \in DOMAIN r.call.nicks /\ Reached(p) = r.call.nicks[r.at]
           /\ About(p) = r.call.about
<1>1. r \in Request /\ r.at \in DOMAIN r.call.nicks
  BY ClassRequest
<1>2. r.call \in Call /\ r.call.nicks \in Seq(Typed) /\ r.at \in Nat
  BY <1>1 DEF Request, Call
<1> QED BY <1>1, <1>2, LenProperties DEF Reached, About

LEMMA TaughtCleanly ==
    ASSUME ClassesAreClean, NEW c \in CallsOf("postClass"), c.nicks \in Seq(Typed),
           NEW i \in DOMAIN c.nicks
    PROVE  /\ Canon[c.nicks[i]] = c.nicks[i] /\ c.nicks[i] \in Nicks
           /\ \A j \in DOMAIN c.nicks : c.nicks[i] = c.nicks[j] => i = j
<1>1. Range(c.nicks) \subseteq Nicks /\ Cardinality(Range(c.nicks)) = Len(c.nicks)
  BY DEF ClassesAreClean
<1>2. c.nicks[i] \in Range(c.nicks)
  BY DEF Range
<1> QED BY <1>1, <1>2, DistinctPlaces, MembersAssumption

LEMMA JustTeaching ==
    ASSUME IInv, NEW p \in Procs, NEW s, s = req'[p], Step(p) \/ FailQuery(p) \/ LoseWrite(p),
           NEW r, r = req[p], Teaching(r)
    PROVE  Teaching(s)
<1>1. CASE s.stage \notin ClassStages
  BY <1>1 DEF Teaching, ClassStages
<1>2. CASE s.stage \in ClassStages
  <2>1. s.call = r.call /\ r.stage \in ClassStages /\ About(p) = r.call.about
    BY <1>2, WalkTo DEF ClassStages, About
  <2>2. \/ r.stage = "class.check" /\ Ahead(r, s, "class.check", AfterCheck(About(p)))
        \/ r.stage = "class.enrol"
        \/ r.stage = "class.enlist"
        \/ r.stage = "class.collect" /\ Ahead(r, s, "class.collect", "class.settle")
        \/ r.stage = "class.settle" /\ s.stage = "class.settle"
    BY <1>2, WalkTo
  <2>3. s.stage \in {"class.enrol", "class.enlist"} =>
           \/ r.stage \in {"class.enrol", "class.enlist"}
           \/ AfterCheck(About(p)) = "class.enrol"
    BY <2>2 DEF Ahead, AfterCheck
  <2> QED BY <2>1, <2>3 DEF Teaching, AfterCheck
<1> QED BY <1>1, <1>2

LEMMA JustWaiting ==
    ASSUME IInv, CalmInv, ClassesAreClean, NEW p \in Procs,
           NEW s, s = req'[p], Step(p) \/ FailQuery(p) \/ LoseWrite(p),
           NEW r, r = req[p], Teaching(r), Waiting(r)
    PROVE  Waiting(s)'
<1>1. CASE s.stage \notin ClassStages
  BY <1>1 DEF Waiting, ClassStages
<1>2. CASE s.stage \in ClassStages
  <2> DEFINE c == r.call
  <2>1. s.call = c /\ r.stage \in ClassStages /\ c \in CallsOf("postClass")
    BY <1>2, WalkTo DEF Teaching, ClassStages
  <2>2. /\ c.nicks \in Seq(Typed) /\ r.at \in Nat
        /\ DOMAIN c.nicks = 1..Len(c.nicks) /\ Len(c.nicks) \in Nat /\ r.at \in DOMAIN c.nicks
        /\ Reached(p) = c.nicks[r.at] /\ About(p) = c.about
    BY <2>1, WalkPlaces
  <2>3. \A i \in DOMAIN c.nicks : Place(s, i) = Place(r, i)
    BY <2>1 DEF Place
  <2>4. UNCHANGED member => \A n : Free(n) => Free(n)'
    BY SameWhenQuiet, FreeStays
  <2>5. CASE /\ r.stage = "class.check" /\ UNCHANGED member
             /\ MayPass(Reached(p), About(p))
             /\ Ahead(r, s, "class.check", AfterCheck(About(p)))
    <3>1. c.about = "CFPM" => Free(Place(r, r.at))
      <4>1. Place(r, r.at) = Reached(p)
        BY <2>1, <2>2, TaughtCleanly DEF Place
      <4>2. c.about = "CFPM" =>
               \/ Find(Reached(p)) = NoId
               \/ RankFor("CFPM", member[Find(Reached(p))].roleName)
        BY <2>2, <2>5 DEF MayPass
      <4>3. \A role : RankFor("CFPM", role) => role = "Recruta"
        BY DEF RankFor
      <4> QED BY <4>1, <4>2, <4>3 DEF Free
    <3>2. c.about = "CFPM" =>
             \A i \in DOMAIN c.nicks : i <= r.at => Free(Place(r, i))
      <4>1. \A i \in DOMAIN c.nicks : i <= r.at => i < r.at \/ i = r.at
        BY <2>2
      <4> QED BY <2>5, <3>1, <4>1 DEF Waiting
    <3>3. c.about = "CFPM" =>
             \A i \in DOMAIN c.nicks : i <= r.at => Free(Place(s, i))'
      BY <2>1, <2>3, <2>4, <2>5, <3>2 DEF Place
    <3>4. CASE r.at = Len(c.nicks) /\ s.stage = AfterCheck(c.about) /\ s.at = 1
      <4>1. \A i \in DOMAIN c.nicks : i <= r.at
        BY <2>2, <3>4
      <4> QED BY <2>1, <3>3, <3>4, <4>1 DEF Waiting, AfterCheck
    <3>5. CASE r.at # Len(c.nicks) /\ s.stage = "class.check" /\ s.at = r.at + 1
      <4>1. \A i \in DOMAIN c.nicks : i < s.at => i <= r.at
        BY <2>2, <3>5
      <4> QED BY <2>1, <3>3, <3>5, <4>1 DEF Waiting
    <3> QED BY <2>2, <2>5, <3>4, <3>5 DEF Ahead
  <2>6. CASE /\ r.stage = "class.enrol" /\ s.stage = "class.enlist"
             /\ s.at = r.at /\ UNCHANGED member
    <3>1. \A i \in DOMAIN c.nicks : i >= r.at => Free(Place(r, i))
      BY <2>6 DEF Waiting
    <3>2. \A i \in DOMAIN c.nicks : i >= r.at => Free(Place(s, i))'
      BY <2>1, <2>3, <2>4, <2>6, <3>1 DEF Place
    <3> QED BY <2>1, <2>6, <3>2 DEF Waiting
  <2>7. CASE /\ r.stage = "class.enlist" /\ Enlist(p)
             /\ Ahead(r, s, "class.enrol", "class.collect")
    <3>1. CASE s.stage = "class.collect"
      BY <2>1, <3>1 DEF Waiting
    <3>2. CASE s.stage = "class.enrol" /\ s.at = r.at + 1
      <4>1. ASSUME NEW i \in DOMAIN c.nicks, i >= s.at PROVE Free(Place(s, i))'
        <5>1. i >= r.at /\ i # r.at
          BY <2>2, <3>2, <4>1
        <5>2. PICK n : n = Place(r, i)
          OBVIOUS
        <5>3. Free(n)
          BY <2>7, <4>1, <5>1, <5>2 DEF Waiting
        <5>4. n # Canon[Reached(p)]
          BY <2>1, <2>2, <4>1, <5>1, <5>2, TaughtCleanly DEF Place
        <5>5. Free(n)'
          BY <2>7, <5>3, <5>4, SameBesideEnlisted, FreeStays DEF CalmInv
        <5> QED BY <2>3, <4>1, <5>2, <5>5 DEF Place
      <4> QED BY <2>1, <3>2, <4>1 DEF Waiting
    <3> QED BY <2>7, <3>1, <3>2 DEF Ahead
  <2>8. CASE s.stage \in {"class.collect", "class.settle"}
    BY <2>1, <2>8 DEF Waiting
  <2> QED
    BY <1>2, <2>5, <2>6, <2>7, <2>8, WalkTo DEF Ahead
<1> QED BY <1>1, <1>2

LEMMA BegunTeaching ==
    ASSUME IInv, NEW p \in Procs, NEW s, s = req'[p], Submit(p)
    PROVE  /\ Teaching(s)
           /\ s.stage \in ClassStages => s.stage = "class.check" /\ s.at = 1 /\ s.ids = <<>>
<1>1. ASSUME NEW call, NEW stage, NEW who, Begin(p, call, stage, who)
      PROVE  s.stage = stage /\ s.call = call /\ s.at = 1 /\ s.ids = <<>>
  BY <1>1 DEF Begin, Idle, IInv, TablesTyped
<1>2. CASE SubmitPostClass(p)
  <2>1. PICK call \in CallsOf("postClass") :
           Begin(p, call, "class.check", Guarded(call.actor))
    BY <1>2 DEF SubmitPostClass
  <2> QED BY <1>1, <2>1 DEF Teaching
<1>3. CASE ~ SubmitPostClass(p)
  <2>1. PICK stage \in {"role.find", "drop.find", "contract.find", "fire.find", "nick.prev",
                        "session.create", "code.user", "cape.find", "give.find",
                        "wear.update", "rank.find"} :
           \E call, who : Begin(p, call, stage, who)
    BY <1>3 DEF Submit, DepartamentSubmit, AccountSubmit, CapeSubmit, SubmitSetUserRole,
       SubmitDeleteUserRole, SubmitContractUser, SubmitFireUser, SubmitChangeUserNick,
       SubmitSession, SubmitCode, SubmitCreateCape, SubmitAtributeCape, SubmitChangeUserCape,
       SubmitRankCall
  <2>2. s.stage = stage
    BY <1>1, <2>1
  <2>3. s.stage \notin ClassStages
    BY <2>1, <2>2 DEF ClassStages
  <2> QED BY <2>3 DEF Teaching, ClassStages
<1> QED BY <1>2, <1>3

AllTeaching == \A q \in Procs : Teaching(req[q])

LEMMA TeachingNext ==
    ASSUME IInv, AllTeaching, [Next]_vars
    PROVE  AllTeaching'
<1>0. scenario' = scenario
  BY ScenarioStays
<1>1. \A q \in Procs : Teaching(req'[q])
  <2>1. CASE UNCHANGED req
    BY <2>1 DEF AllTeaching
  <2>2. ASSUME NEW p \in Procs, Submit(p) PROVE \A q \in Procs : Teaching(req'[q])
    BY <2>2, BegunTeaching, SubmitOthers DEF AllTeaching
  <2>3. ASSUME NEW p \in Procs, Step(p) \/ FailQuery(p) \/ LoseWrite(p)
        PROVE  \A q \in Procs : Teaching(req'[q])
    BY <2>3, JustTeaching, StepKeeps DEF AllTeaching, Keeps
  <2> QED BY <2>1, <2>2, <2>3 DEF Next, Tick, vars
<1> QED BY <1>0, <1>1 DEF AllTeaching, Teaching, CallsOf

LEMMA TeachingInit == Init => AllTeaching
BY DEF Init, AllTeaching, Teaching, Idle, ClassStages

AllWaiting == \A q \in Procs : Waiting(req[q])

LEMMA WaitingNext ==
    ASSUME IInv, CalmInv, scenario.exclusive, ClassesAreClean, AllTeaching, AllWaiting,
           [Next]_vars
    PROVE  AllWaiting'
<1>3. ASSUME NEW q \in Procs, NEW s, s = req'[q]
      PROVE  Waiting(s)'
  <2>0. PICK r : r = req[q]
    OBVIOUS
  <2>1. Teaching(r) /\ Waiting(r)
    BY <2>0 DEF AllTeaching, AllWaiting
  <2>2. CASE s = r /\ UNCHANGED member
    BY <2>1, <2>2, SameWhenQuiet, WaitingStays
  <2>3. ASSUME NEW p \in Procs, Submit(p)
        PROVE  Waiting(s)'
    <3>1. CASE p = q
      <4>1. /\ s.stage \in ClassStages => s.stage = "class.check" /\ s.at = 1
            /\ s.stage \in ClassStages => DOMAIN s.call.nicks \subseteq Nat \ {0}
        <5>1. s \in Request
          BY <1>3, NextInv DEF IInv, TablesTyped
        <5>2. s.call.nicks \in Seq(Typed)
          BY <5>1 DEF Request, Call
        <5> QED BY <1>3, <2>3, <3>1, <5>2, BegunTeaching, LenProperties
      <4> QED BY <4>1 DEF Waiting, ClassStages
    <3>2. CASE p # q
      BY <1>3, <2>0, <2>2, <2>3, <3>2, SubmitOthers, QuietRows
    <3> QED BY <3>1, <3>2
  <2>4. ASSUME NEW p \in Procs, Step(p) \/ FailQuery(p) \/ LoseWrite(p)
        PROVE  Waiting(s)'
    <3>1. CASE p = q
      BY <1>3, <2>0, <2>1, <2>4, <3>1, JustWaiting
    <3>2. CASE p # q
      <4>1. ~ At(p, "idle") /\ s = r
        BY <1>3, <2>0, <2>4, <3>2, StepKeeps DEF Keeps
      <4>2. CASE r.stage = "idle"
        BY <4>1, <4>2 DEF Waiting
      <4>3. CASE r.stage # "idle"
        <5>1. Named(r.call) \cap Named(req[p].call) = {}
          BY <2>0, <3>2, <4>1, <4>3 DEF CalmInv, TurnsApart, At
        <5>2. \A i \in DOMAIN r.call.nicks : Place(r, i) \in Named(r.call)
          BY NamedIn DEF Place
        <5>3. CASE Step(p)
          <6>1. \A i \in DOMAIN r.call.nicks : SameUnder(Place(r, i))
            BY <5>1, <5>2, <5>3, SameElsewhere DEF Place
          <6> QED BY <2>1, <4>1, <6>1, WaitingStays
        <5>4. CASE FailQuery(p) \/ LoseWrite(p)
          BY <2>2, <4>1, <5>4, QuietRows
        <5> QED BY <2>4, <5>3, <5>4
      <4> QED BY <4>2, <4>3
    <3> QED BY <3>1, <3>2
  <2> QED BY <1>3, <2>0, <2>2, <2>3, <2>4 DEF Next, Tick, vars, tables, people
<1>4. ASSUME NEW q \in Procs PROVE Waiting(req[q])'
  <2>1. PICK s : s = req'[q]
    OBVIOUS
  <2>2. Waiting(s)'
    BY <1>3, <2>1
  <2> QED BY <2>1, <2>2 DEF Waiting, Place
<1> QED BY <1>4 DEF AllWaiting

LEMMA WaitingInit == Init => AllWaiting
BY DEF Init, AllWaiting, Waiting, Idle

(***************************************************************************)
(* A class of the CFPM makes Soldados of Recrutas only: between the walk   *)
(* that checks the ranks and the walk that writes nobody in the list       *)
(* changes rank, as long as clients take turns and name each member once,  *)
(* as Habbo spells the nick.                                               *)
(***************************************************************************)
LEMMA EnlistedWereRecrutas ==
    ASSUME IInv, CalmInv, AllWaiting, [Next]_vars, NEW p \in Procs,
           At(p, "class.enlist"), req'[p] # req[p], NEW id \in DOMAIN member,
           member'[id].roleName # member[id].roleName
    PROVE  member[id].roleName = "Recruta"
<1> DEFINE nick == Canon[Reached(p)]
<1>1. Step(p) \/ FailQuery(p) \/ LoseWrite(p)
  BY OwnStep DEF At
<1>2. Step(p)
  BY <1>1, QuietRows
<1>3. \/ UNCHANGED member
      \/ Rewrites(Find(nick))
      \/ Joins(nick)
  BY <1>2, AccountRows, OtherRows, CareerRows
     DEF Step, Unlock, Dismiss, ContractWrite, DeleteMember, Rename, WearCape, Rerank, At
<1>4. Rewrites(Find(nick)) /\ id = Find(nick)
  BY <1>3 DEF Rewrites, Joins
<1>5. Free(nick)
  <2>1. req[p].stage \in ClassStages /\ req[p].stage = "class.enlist"
    BY DEF At, ClassStages
  <2>2. /\ req[p].at \in DOMAIN req[p].call.nicks /\ req[p].at \in Nat
        /\ Reached(p) = req[p].call.nicks[req[p].at]
    BY <2>1, WalkPlaces
  <2>3. Free(Place(req[p], req[p].at))
    BY <2>1, <2>2 DEF AllWaiting, Waiting
  <2> QED BY <2>2, <2>3 DEF Place
<1>6. id # NoId
  BY DEF IInv, TablesTyped, NoId
<1> QED BY <1>4, <1>5, <1>6 DEF Free

(***************************************************************************)
(* Whoever postClass makes a Soldado was a Recruta up to that moment, when *)
(* clients take turns and no class names a member twice or in another      *)
(* spelling: the walk that checks the ranks is over before the walk that   *)
(* writes begins, and meanwhile nobody of the class rises otherwise.       *)
(***************************************************************************)
THEOREM ClassesEnlistRecrutas == Spec => OnlyRecrutasEnlist
<1> DEFINE J == scenario.exclusive /\ ClassesAreClean => AllWaiting
<1>1. Init => J /\ AllTeaching
  BY WaitingInit, TeachingInit
<1>2. IInv /\ CalmInv /\ AllTeaching /\ J /\ [Next]_vars => J'
  <2> SUFFICES ASSUME IInv, CalmInv, AllTeaching, J, [Next]_vars PROVE J'
    OBVIOUS
  <2>1. scenario' = scenario /\ ClassesAreClean' = ClassesAreClean
    BY ScenarioStays DEF ClassesAreClean, CallsOf
  <2> QED BY <2>1, WaitingNext
<1>3. IInv /\ CalmInv /\ J /\ [Next]_vars => [Orderly => EnlistsRecrutas]_vars
  BY EnlistedWereRecrutas DEF Orderly, EnlistsRecrutas
<1> HIDE DEF J
<1> QED
  BY <1>1, <1>2, <1>3, InitInv, NextInv, CalmInvInit, CalmInvNext, TeachingNext, PTL
     DEF Spec, OnlyRecrutasEnlist
-----------------------------------------------------------------------------
(***************************************************************************)
(* Who is dismissed holds nothing.  First the classes: whomever a request  *)
(* is about to give a course is no Recruta, since the walk that checks has *)
(* refused the Recrutas or the walk that writes has made Soldados of them. *)
(***************************************************************************)
Serving(n) == Find(n) # NoId /\ member[Find(n)].roleName # "Recruta"

Risen(r) ==
    /\ \/ r.stage \in {"class.enrol", "class.enlist"}
       \/ r.stage = "class.check" /\ r.call.about # "CFPM"
       => \A i \in DOMAIN r.call.nicks : i < r.at => Serving(Place(r, i))
    /\ r.stage \in {"class.check", "class.enrol", "class.enlist"} => r.ids = <<>>
    /\ r.stage \in {"class.collect", "class.settle"} =>
          /\ \A i \in DOMAIN r.call.nicks : Serving(Place(r, i))
          /\ \A k \in DOMAIN r.ids :
                \E i \in DOMAIN r.call.nicks : r.ids[k] = Find(Place(r, i))

LEMMA ServingStays ==
    ASSUME NEW n, SameUnder(n), Serving(n)
    PROVE  Serving(n)'
BY DEF SameUnder, Serving

LEMMA RisenStays ==
    ASSUME NEW r, Risen(r), \A i \in DOMAIN r.call.nicks : SameUnder(Place(r, i))
    PROVE  Risen(r)'
<1>1. ASSUME NEW i \in DOMAIN r.call.nicks
      PROVE  /\ Serving(Place(r, i)) => Serving(Place(r, i))'
             /\ Find(Place(r, i))' = Find(Place(r, i))
  <2>1. PICK n : n = Place(r, i)
    OBVIOUS
  <2>2. SameUnder(n)
    BY <2>1
  <2>3. (Serving(n) => Serving(n)') /\ Find(n)' = Find(n)
    BY <2>2, ServingStays DEF SameUnder
  <2> QED BY <2>1, <2>3 DEF Place
<1> QED BY <1>1 DEF Risen

LEMMA EnlistedServes ==
    ASSUME IInv, NicksUnique, NEW p \in Procs, Enlist(p), NEW n, n = Canon[Reached(p)],
           (req[p].target = NoId) = (Find(n) = NoId)
    PROVE  Serving(n)'
<1>1. CASE Find(n) = NoId
  <2> DEFINE row == NewRow(n, "Soldado")
             new == created + 1
  <2>1. member' = Joined(row)
    BY <1>1 DEF Enlist
  <2>2. \A i \in DOMAIN member : member[i].nick # n
    BY <1>1, FindIs DEF WithNick
  <2>3. created \in Nat /\ DOMAIN member \subseteq 1..created
    BY DEF IInv, TablesTyped
  <2>4. new \notin DOMAIN member /\ new # NoId
    BY <2>3 DEF NoId
  <2>5. row.nick = n /\ row.roleName = "Soldado"
    BY DEF NewRow
  <2> HIDE DEF row
  <2>6. /\ DOMAIN member' = DOMAIN member \cup {new} /\ member'[new] = row
        /\ \A i \in DOMAIN member : member'[i] = member[i]
    BY <2>1, <2>4 DEF Joined
  <2> HIDE DEF new
  <2>7. WithNick(n)' = {new}
    BY <2>2, <2>5, <2>6 DEF WithNick
  <2>8. Find(n)' = new
    BY <2>7 DEF Find
  <2> QED BY <2>4, <2>5, <2>6, <2>8 DEF Serving
<1>2. CASE Find(n) # NoId
  <2>1. PICK id : id = Find(n)
    OBVIOUS
  <2>2. id \in WithNick(n) /\ id \in DOMAIN member /\ member[id] \in MemberRow
    BY <1>2, <2>1, FindIs, FindType
  <2>3. member' = [member EXCEPT ![id] = EnlistedRow(@)]
    BY <1>2, <2>1 DEF Enlist
  <2>4. Rewrites(id) /\ member'[id].roleName = "Soldado"
    BY <2>2, <2>3 DEF EnlistedRow, Rewrites, MemberRow
  <2>5. Find(n)' = id
    BY <2>1, <2>4, RewritesNicks, SameFind
  <2> QED BY <1>2, <2>1, <2>4, <2>5 DEF Serving
<1> QED BY <1>1, <1>2

LEMMA JustRisen ==
    ASSUME IInv, CalmInv, CoursesForMembers, NEW p \in Procs,
           NEW s, s = req'[p], Step(p) \/ FailQuery(p) \/ LoseWrite(p),
           NEW r, r = req[p], Risen(r)
    PROVE  Risen(s)'
<1>1. CASE s.stage \notin ClassStages
  BY <1>1 DEF Risen, ClassStages
<1>2. CASE s.stage \in ClassStages
  <2> DEFINE c == r.call
  <2>1. s.call = c /\ r.stage \in ClassStages
    BY <1>2, WalkTo DEF ClassStages
  <2>2. /\ c.nicks \in Seq(Typed) /\ r.at \in Nat
        /\ DOMAIN c.nicks = 1..Len(c.nicks) /\ Len(c.nicks) \in Nat /\ r.at \in DOMAIN c.nicks
        /\ Reached(p) = c.nicks[r.at] /\ About(p) = c.about /\ c.about \in CourseNames
    BY <2>1, WalkPlaces, ClassRequest
  <2>3. \A i \in DOMAIN c.nicks : Place(s, i) = Place(r, i)
    BY <2>1 DEF Place
  <2>4. UNCHANGED member =>
           \A n : (Serving(n) => Serving(n)') /\ Find(n)' = Find(n)
    BY SameWhenQuiet, ServingStays DEF SameUnder
  <2>5. CASE /\ r.stage = "class.check" /\ s.ids = r.ids /\ UNCHANGED member
             /\ MayPass(Reached(p), About(p))
             /\ Ahead(r, s, "class.check", AfterCheck(About(p)))
    <3>1. c.about # "CFPM" => Serving(Place(r, r.at))
      <4>1. c.about # "CFPM" =>
               /\ Find(Reached(p)) # NoId
               /\ RankFor(c.about, member[Find(Reached(p))].roleName)
        BY <2>2, <2>5 DEF MayPass
      <4>2. Find(Reached(p)) # NoId => Canon[Reached(p)] = Reached(p)
        BY NickOfMember
      <4>3. c.about # "CFPM" => ~ RankFor(c.about, "Recruta")
        BY <2>2 DEF CoursesForMembers
      <4> QED BY <2>2, <4>1, <4>2, <4>3 DEF Place, Serving
    <3>2. c.about # "CFPM" =>
             \A i \in DOMAIN c.nicks : i <= r.at => Serving(Place(r, i))
      <4>1. \A i \in DOMAIN c.nicks : i <= r.at => i < r.at \/ i = r.at
        BY <2>2
      <4> QED BY <2>5, <3>1, <4>1 DEF Risen
    <3>3. c.about # "CFPM" =>
             \A i \in DOMAIN c.nicks : i <= r.at => Serving(Place(s, i))'
      BY <2>1, <2>3, <2>4, <2>5, <3>2 DEF Place
    <3>4. s.ids = <<>> /\ DOMAIN s.ids = {}
      BY <2>5 DEF Risen
    <3>5. CASE r.at = Len(c.nicks) /\ s.stage = AfterCheck(c.about) /\ s.at = 1
      <4>1. \A i \in DOMAIN c.nicks : i <= r.at /\ ~ i < s.at
        BY <2>2, <3>5
      <4> QED BY <2>1, <3>3, <3>4, <3>5, <4>1 DEF Risen, AfterCheck
    <3>6. CASE r.at # Len(c.nicks) /\ s.stage = "class.check" /\ s.at = r.at + 1
      <4>1. \A i \in DOMAIN c.nicks : i < s.at => i <= r.at
        BY <2>2, <3>6
      <4> QED BY <2>1, <3>3, <3>4, <3>6, <4>1 DEF Risen
    <3> QED BY <2>2, <2>5, <3>5, <3>6 DEF Ahead
  <2>6. CASE /\ r.stage = "class.enrol" /\ s.stage = "class.enlist"
             /\ s.ids = r.ids /\ s.at = r.at /\ UNCHANGED member
    <3>1. \A i \in DOMAIN c.nicks : i < r.at => Serving(Place(r, i))
      BY <2>6 DEF Risen
    <3>2. \A i \in DOMAIN c.nicks : i < r.at => Serving(Place(s, i))'
      BY <2>1, <2>3, <2>4, <2>6, <3>1 DEF Place
    <3>3. s.ids = <<>>
      BY <2>6 DEF Risen
    <3> QED BY <2>1, <2>6, <3>2, <3>3 DEF Risen
  <2>7. CASE /\ r.stage = "class.enlist" /\ s.ids = r.ids /\ Enlist(p)
             /\ (r.target = NoId) = (Find(Canon[Reached(p)]) = NoId)
             /\ Ahead(r, s, "class.enrol", "class.collect")
    <3>1. ASSUME NEW i \in DOMAIN c.nicks, i <= r.at PROVE Serving(Place(s, i))'
      <4>1. PICK n : n = Place(r, i)
        OBVIOUS
      <4>2. CASE n = Canon[Reached(p)]
        <5>1. Serving(n)'
          BY <2>7, <4>2, EnlistedServes DEF CalmInv
        <5> QED BY <2>3, <3>1, <4>1, <5>1 DEF Place
      <4>3. CASE n # Canon[Reached(p)]
        <5>1. i < r.at
          BY <2>2, <3>1, <4>1, <4>3 DEF Place
        <5>2. Serving(n)
          BY <2>7, <3>1, <4>1, <5>1 DEF Risen
        <5>3. Serving(n)'
          BY <2>7, <4>3, <5>2, SameBesideEnlisted, ServingStays DEF CalmInv
        <5> QED BY <2>3, <3>1, <4>1, <5>3 DEF Place
      <4> QED BY <4>2, <4>3
    <3>2. s.ids = <<>> /\ DOMAIN s.ids = {}
      BY <2>7 DEF Risen
    <3>3. CASE r.at = Len(c.nicks) /\ s.stage = "class.collect"
      <4>1. \A i \in DOMAIN c.nicks : i <= r.at
        BY <2>2, <3>3
      <4> QED BY <2>1, <3>1, <3>2, <3>3, <4>1 DEF Risen
    <3>4. CASE s.stage = "class.enrol" /\ s.at = r.at + 1
      <4>1. \A i \in DOMAIN c.nicks : i < s.at => i <= r.at
        BY <2>2, <3>4
      <4> QED BY <2>1, <3>1, <3>2, <3>4, <4>1 DEF Risen
    <3> QED BY <2>7, <3>3, <3>4 DEF Ahead
  <2>8. CASE /\ r.stage \in {"class.collect", "class.settle"}
             /\ s.stage \in {"class.collect", "class.settle"} /\ UNCHANGED member
             /\ \A k \in DOMAIN s.ids :
                   \/ k \in DOMAIN r.ids /\ s.ids[k] = r.ids[k]
                   \/ s.ids[k] = Find(Place(r, r.at))
    <3>1. \A i \in DOMAIN c.nicks : Serving(Place(r, i))
      BY <2>8 DEF Risen
    <3>2. \A k \in DOMAIN s.ids : \E i \in DOMAIN c.nicks : s.ids[k] = Find(Place(r, i))
      BY <2>2, <2>8 DEF Risen
    <3>3. ASSUME NEW i \in DOMAIN c.nicks
          PROVE  Serving(Place(s, i))' /\ Find(Place(s, i))' = Find(Place(r, i))
      <4>1. PICK n : n = Place(r, i)
        OBVIOUS
      <4>2. Serving(n)' /\ Find(n)' = Find(n)
        BY <2>4, <2>8, <3>1, <3>3, <4>1
      <4> QED BY <2>3, <3>3, <4>1, <4>2 DEF Place
    <3> QED BY <2>1, <2>8, <3>2, <3>3 DEF Risen
  <2>9. CASE /\ r.stage = "class.collect" /\ UNCHANGED member
             /\ s.ids = Append(r.ids, Find(Canon[Reached(p)]))
             /\ Ahead(r, s, "class.collect", "class.settle")
    <3>1. r.ids \in Seq(Nat)
      BY ClassRequest, <2>1 DEF Request
    <3>2. Find(Canon[Reached(p)]) = Find(Place(r, r.at))
      BY <2>2 DEF Place
    <3>3. \A k \in DOMAIN s.ids :
             \/ k \in DOMAIN r.ids /\ s.ids[k] = r.ids[k]
             \/ s.ids[k] = Find(Place(r, r.at))
      BY <2>9, <3>1, <3>2
    <3> QED BY <2>8, <2>9, <3>3 DEF Ahead
  <2>10. CASE /\ r.stage = "class.settle" /\ s.stage = "class.settle"
              /\ s.ids = r.ids /\ UNCHANGED member
    BY <2>8, <2>10
  <2> QED BY <1>2, <2>5, <2>6, <2>7, <2>9, <2>10, WalkTo
<1> QED BY <1>1, <1>2

AllRisen == \A q \in Procs : Risen(req[q])

LEMMA RisenNext ==
    ASSUME IInv, CalmInv, scenario.exclusive, CoursesForMembers, AllRisen, [Next]_vars
    PROVE  AllRisen'
<1>3. ASSUME NEW q \in Procs, NEW s, s = req'[q]
      PROVE  Risen(s)'
  <2>0. PICK r : r = req[q]
    OBVIOUS
  <2>1. Risen(r)
    BY <2>0 DEF AllRisen
  <2>2. CASE s = r /\ UNCHANGED member
    BY <2>1, <2>2, SameWhenQuiet, RisenStays
  <2>3. ASSUME NEW p \in Procs, Submit(p)
        PROVE  Risen(s)'
    <3>1. CASE p = q
      <4>1. /\ s.stage \in ClassStages => s.stage = "class.check" /\ s.at = 1 /\ s.ids = <<>>
            /\ s.stage \in ClassStages => DOMAIN s.call.nicks \subseteq Nat \ {0}
        <5>1. s \in Request
          BY <1>3, NextInv DEF IInv, TablesTyped
        <5>2. s.call.nicks \in Seq(Typed)
          BY <5>1 DEF Request, Call
        <5> QED BY <1>3, <2>3, <3>1, <5>2, BegunTeaching, LenProperties
      <4>2. s.stage \in ClassStages => \A i \in DOMAIN s.call.nicks : ~ i < s.at
        BY <4>1
      <4> QED BY <4>1, <4>2 DEF Risen, ClassStages
    <3>2. CASE p # q
      BY <1>3, <2>0, <2>2, <2>3, <3>2, SubmitOthers, QuietRows
    <3> QED BY <3>1, <3>2
  <2>4. ASSUME NEW p \in Procs, Step(p) \/ FailQuery(p) \/ LoseWrite(p)
        PROVE  Risen(s)'
    <3>1. CASE p = q
      BY <1>3, <2>0, <2>1, <2>4, <3>1, JustRisen
    <3>2. CASE p # q
      <4>1. ~ At(p, "idle") /\ s = r
        BY <1>3, <2>0, <2>4, <3>2, StepKeeps DEF Keeps
      <4>2. CASE r.stage = "idle"
        BY <4>1, <4>2 DEF Risen
      <4>3. CASE r.stage # "idle"
        <5>1. Named(r.call) \cap Named(req[p].call) = {}
          BY <2>0, <3>2, <4>1, <4>3 DEF CalmInv, TurnsApart, At
        <5>2. \A i \in DOMAIN r.call.nicks : Place(r, i) \in Named(r.call)
          BY NamedIn DEF Place
        <5>3. CASE Step(p)
          <6>1. \A i \in DOMAIN r.call.nicks : SameUnder(Place(r, i))
            BY <5>1, <5>2, <5>3, SameElsewhere DEF Place
          <6> QED BY <2>1, <4>1, <6>1, RisenStays
        <5>4. CASE FailQuery(p) \/ LoseWrite(p)
          BY <2>2, <4>1, <5>4, QuietRows
        <5> QED BY <2>4, <5>3, <5>4
      <4> QED BY <4>2, <4>3
    <3> QED BY <3>1, <3>2
  <2> QED BY <1>3, <2>0, <2>2, <2>3, <2>4 DEF Next, Tick, vars, tables, people
<1>4. ASSUME NEW q \in Procs PROVE Risen(req[q])'
  <2>1. PICK s : s = req'[q]
    OBVIOUS
  <2>2. Risen(s)'
    BY <1>3, <2>1
  <2> QED BY <2>1, <2>2 DEF Risen, Place
<1> QED BY <1>4 DEF AllRisen

LEMMA RisenInit == Init => AllRisen
BY DEF Init, AllRisen, Risen, Idle
-----------------------------------------------------------------------------
(***************************************************************************)
(* Then the dismissals.  A row of a Recruta waits for its deletion by the  *)
(* fireUser that dismisses that member, and where the deletion is over     *)
(* there are no rows any more.  Here T is a table, w the write that clears *)
(* it, m the members and x the requests.                                   *)
(***************************************************************************)
Awaits(r, w, id) == r.stage = "fire.settle" /\ w \in r.todo /\ r.target = id

Bare(T, w, m, x) ==
    /\ \A r \in T : r.user \in DOMAIN m /\ m[r.user].roleName = "Recruta" =>
          \E p \in Procs : Awaits(x[p], w, r.user)
    /\ \A p \in Procs : x[p].stage = "fire.settle" /\ w \notin x[p].todo =>
          \A r \in T : r.user # x[p].target

BareInv == Bare(posts, "posts", member, req) /\ Bare(held, "permissions", member, req)

WasRecruta(m, n, id) ==
    n[id].roleName = "Recruta" => id \in DOMAIN m /\ m[id].roleName = "Recruta"

(* How a step by p that writes anything but dismissals changes a table,    *)
(* how one that adds rows does, and how a dismissal does with its write v. *)
Lessens(T, U, w, m, n, x, y, p) ==
    /\ U \subseteq T
    /\ \A id \in DOMAIN n : WasRecruta(m, n, id)
    /\ \A q \in Procs \ {p} : y[q] = x[q]
    /\ x[p].stage # "fire.settle"
    /\ y[p].stage = "fire.settle" => w \in y[p].todo

Adds(T, U, m, x, y, p) ==
    /\ \A r \in U \ T :
          /\ m[r.user].roleName # "Recruta"
          /\ \A q \in Procs \ {p} : x[q].stage = "fire.settle" => r.user # x[q].target
    /\ \A q \in Procs \ {p} : y[q] = x[q]
    /\ x[p].stage # "fire.settle" /\ y[p].stage # "fire.settle"

Settles(T, U, w, m, n, x, y, p, v) ==
    /\ U \subseteq T
    /\ \A id \in DOMAIN n : WasRecruta(m, n, id) \/ id = x[p].target
    /\ \A q \in Procs \ {p} : y[q] = x[q]
    /\ x[p].stage = "fire.settle"
    /\ \/ x[p].todo = {v} /\ y[p] = Idle
       \/ /\ x[p].todo # {v} /\ y[p].stage = "fire.settle"
          /\ y[p].target = x[p].target /\ y[p].todo = x[p].todo \ {v}
    /\ v = w => \A r \in U : r.user # x[p].target

LEMMA BareLess ==
    ASSUME NEW T, NEW U, NEW w, NEW m, NEW n, NEW x, NEW y, NEW p \in Procs,
           Bare(T, w, m, x), Lessens(T, U, w, m, n, x, y, p)
    PROVE  Bare(U, w, n, y)
<1> USE DEF Lessens
<1>1. ASSUME NEW r \in U, r.user \in DOMAIN n, n[r.user].roleName = "Recruta"
      PROVE  \E q \in Procs : Awaits(y[q], w, r.user)
  <2>1. PICK q \in Procs : Awaits(x[q], w, r.user)
    BY <1>1 DEF Bare, WasRecruta
  <2>2. q # p
    BY <2>1 DEF Awaits
  <2> QED BY <2>1, <2>2
<1>2. ASSUME NEW q \in Procs, y[q].stage = "fire.settle", w \notin y[q].todo
      PROVE  \A r \in U : r.user # y[q].target
  <2>1. q # p /\ y[q] = x[q]
    BY <1>2
  <2> QED BY <1>2, <2>1 DEF Bare
<1> QED BY <1>1, <1>2 DEF Bare

LEMMA BareMore ==
    ASSUME NEW T, NEW U, NEW w, NEW m, NEW x, NEW y, NEW p \in Procs,
           Bare(T, w, m, x), Adds(T, U, m, x, y, p)
    PROVE  Bare(U, w, m, y)
<1> USE DEF Adds
<1>1. ASSUME NEW r \in U, r.user \in DOMAIN m, m[r.user].roleName = "Recruta"
      PROVE  \E q \in Procs : Awaits(y[q], w, r.user)
  <2>1. PICK q \in Procs : Awaits(x[q], w, r.user)
    BY <1>1 DEF Bare
  <2>2. q # p
    BY <2>1 DEF Awaits
  <2> QED BY <2>1, <2>2
<1>2. ASSUME NEW q \in Procs, y[q].stage = "fire.settle", w \notin y[q].todo
      PROVE  \A r \in U : r.user # y[q].target
  <2>1. q # p /\ y[q] = x[q]
    BY <1>2
  <2> QED BY <1>2, <2>1 DEF Bare
<1> QED BY <1>1, <1>2 DEF Bare

LEMMA BareSettle ==
    ASSUME NEW T, NEW U, NEW w, NEW m, NEW n, NEW x, NEW y, NEW p \in Procs, NEW v,
           Bare(T, w, m, x), Settles(T, U, w, m, n, x, y, p, v)
    PROVE  Bare(U, w, n, y)
<1> USE DEF Settles
<1> DEFINE id == x[p].target
<1>0. Idle.stage # "fire.settle"
  BY DEF Idle
<1>1. w \notin x[p].todo \/ v = w => \A r \in U : r.user # id
  BY DEF Bare
<1>2. ASSUME NEW r \in U, r.user \in DOMAIN n, n[r.user].roleName = "Recruta"
      PROVE  \E q \in Procs : Awaits(y[q], w, r.user)
  <2>1. CASE r.user = id
    <3>1. w \in x[p].todo \ {v}
      BY <1>1, <2>1
    <3>2. Awaits(y[p], w, r.user)
      BY <2>1, <3>1 DEF Awaits
    <3> QED BY <3>2
  <2>2. CASE r.user # id
    <3>1. PICK q \in Procs : Awaits(x[q], w, r.user)
      BY <1>2, <2>2 DEF Bare, WasRecruta
    <3>2. q # p
      BY <2>2, <3>1 DEF Awaits
    <3> QED BY <3>1, <3>2
  <2> QED BY <2>1, <2>2
<1>3. ASSUME NEW q \in Procs, y[q].stage = "fire.settle", w \notin y[q].todo
      PROVE  \A r \in U : r.user # y[q].target
  <2>1. CASE q = p
    BY <1>0, <1>1, <1>3, <2>1
  <2>2. CASE q # p
    BY <1>3, <2>2 DEF Bare
  <2> QED BY <2>1, <2>2
<1> QED BY <1>2, <1>3 DEF Bare

(* What the steps do to the two tables, to the roles and to the dismissals *)
(* in flight.                                                              *)
LEMMA TablesShrink ==
    ASSUME IInv, NEW p \in Procs, Step(p)
    PROVE  /\ posts' \subseteq posts \/ CreateRole(p)
           /\ held' \subseteq held \/ GiveCourses(p)
<1> USE DEF tables, people
<1>1. CASE DepartamentStep(p)
  BY <1>1
     DEF DepartamentStep, FindForRole, ClearRoles, Cleared, FindForRemoval, RemoveRole,
         CheckApproved, FindToEnlist, Enlist, CollectApproved, LogApproved, RecordClass,
         CreateRole, GiveCourses
<1>2. CASE AccountStep(p)
  BY <1>2
     DEF AccountStep, FindToFire, Dismiss, LogDismissal, TakePermissions, TakePosts,
         FindToContract, ContractWrite, LogContract, FindPrevious, FindNew, MoveHistory,
         DeleteMember, Rename, LogRename, CreateSession, FindToUnlock, ReadSession, Unlock
<1>3. CASE CapeStep(p)
  BY <1>3 DEF CapeStep, FindCape, PutPicture, CreateCape, FindToGive, GiveCape, WearCape
<1>4. CASE CareerStep(p)
  BY <1>4, RankEffects
<1> QED BY <1>1, <1>2, <1>3, <1>4 DEF Step

LEMMA RecrutasWere ==
    ASSUME IInv, ContractsEnlist, NEW p \in Procs, Hiring(req[p]), Step(p), ~ Dismiss(p),
           NEW id \in DOMAIN member'
    PROVE  WasRecruta(member, member', id)
<1>0. member \in [DOMAIN member -> MemberRow]
  BY DEF IInv, TablesTyped
<1> USE DEF WasRecruta
<1>1. CASE UNCHANGED member
  BY <1>1
<1>2. ASSUME NEW i \in DOMAIN member, NEW row \in MemberRow, row.roleName # "Recruta",
             member' = [member EXCEPT ![i] = row]
      PROVE  WasRecruta(member, member', id)
  BY <1>2
<1>3. ASSUME NEW i \in DOMAIN member, Rewrites(i) \/ \E n : Renames(i, n),
             member'[i].roleName = member[i].roleName
      PROVE  WasRecruta(member, member', id)
  BY <1>3 DEF Rewrites, Renames
<1>4. ASSUME NEW nick, NEW role, role # "Recruta", member' = Joined(NewRow(nick, role))
      PROVE  WasRecruta(member, member', id)
  <2>1. NewRow(nick, role).roleName # "Recruta"
    BY <1>4 DEF NewRow
  <2> HIDE DEF WasRecruta
  <2>2. PICK row : row = NewRow(nick, role)
    OBVIOUS
  <2>3. CASE id = created + 1
    <3>1. member'[id] = row
      BY <1>4, <2>2, <2>3 DEF Joined
    <3> QED BY <2>1, <2>2, <3>1 DEF WasRecruta
  <2>4. CASE id # created + 1
    <3>1. id \in DOMAIN member /\ member'[id] = member[id]
      BY <1>4, <2>4 DEF Joined
    <3> QED BY <3>1 DEF WasRecruta
  <2> QED BY <2>3, <2>4
<1>5. CASE Unlock(p) /\ Rewrites(Find(req[p].call.nicks[1]))
  <2>1. PICK i : i = Find(req[p].call.nicks[1])
    OBVIOUS
  <2>2. member' = member \/ member' = [member EXCEPT ![i].isAccountActive = TRUE]
    BY <1>5, <2>1 DEF Unlock
  <2>3. member'[i].roleName = member[i].roleName /\ i \in DOMAIN member
    BY <1>0, <1>5, <2>1, <2>2 DEF MemberRow, Rewrites
  <2> QED BY <1>3, <1>5, <2>1, <2>3
<1>6. CASE ContractWrite(p)
  <2>1. Role(p) # "Recruta" /\ Role(p) \in RoleNames
    <3>1. req[p].stage = "contract.write"
      BY <1>6 DEF ContractWrite, At
    <3>2. Role(p) \in RoleNames
      BY <3>1 DEF Role, IInv, RequestsSound, RequestSound, HireStages
    <3> QED BY <3>1, <3>2 DEF Hiring, ContractsEnlist, Role
  <2>2. PICK i : i = req[p].target
    OBVIOUS
  <2>3. \/ UNCHANGED member
        \/ member' = Joined(NewRow(NickIn(p, 1), Role(p)))
        \/ i \in DOMAIN member /\ member' = [member EXCEPT ![i].roleName = Role(p)]
    BY <1>6, <2>2 DEF ContractWrite
  <2>4. CASE i \in DOMAIN member /\ member' = [member EXCEPT ![i].roleName = Role(p)]
    <3>1. PICK row : row = [member[i] EXCEPT !.roleName = Role(p)]
      OBVIOUS
    <3>2. row \in MemberRow /\ row.roleName = Role(p)
      BY <1>0, <2>1, <2>4, <3>1 DEF MemberRow
    <3>3. member' = [member EXCEPT ![i] = row]
      BY <2>4, <3>1
    <3> QED BY <1>2, <2>1, <2>4, <3>2, <3>3
  <2> QED BY <1>1, <1>4, <2>1, <2>3, <2>4
<1>7. CASE DeleteMember(p) /\ Leaves(req[p].other)
  BY <1>7 DEF Leaves
<1>8. CASE Rename(p) /\ Renames(Find(NickIn(p, 1)), NickIn(p, 2))
  <2>1. PICK i : i = Find(NickIn(p, 1))
    OBVIOUS
  <2>2. member' = member \/ member' = [member EXCEPT ![i].nick = NickIn(p, 2)]
    BY <1>8, <2>1 DEF Rename, ToRename
  <2>3. member'[i].roleName = member[i].roleName /\ i \in DOMAIN member
    BY <1>0, <1>8, <2>1, <2>2 DEF MemberRow, Renames
  <2> QED BY <1>3, <1>8, <2>1, <2>3
<1>9. CASE WearCape(p) /\ Rewrites(Find(req[p].who.nick))
  <2>1. PICK i : i = Find(req[p].who.nick)
    OBVIOUS
  <2>2. member' = member \/ member' = [member EXCEPT ![i].capeSelected = Cape(p)]
    BY <1>9, <2>1 DEF WearCape
  <2>3. member'[i].roleName = member[i].roleName /\ i \in DOMAIN member
    BY <1>0, <1>9, <2>1, <2>2 DEF MemberRow, Rewrites
  <2> QED BY <1>3, <1>9, <2>1, <2>3
<1>10. CASE Enlist(p)
  <2>1. PICK i : i = Find(Canon[Reached(p)])
    OBVIOUS
  <2>2. \/ UNCHANGED member
        \/ member' = Joined(NewRow(Canon[Reached(p)], "Soldado"))
        \/ i \in DOMAIN member /\ member' = [member EXCEPT ![i] = EnlistedRow(@)]
    BY <1>10, <2>1, FindType DEF Enlist
  <2>3. CASE i \in DOMAIN member /\ member' = [member EXCEPT ![i] = EnlistedRow(@)]
    <3>1. PICK row : row = EnlistedRow(member[i])
      OBVIOUS
    <3>2. row \in MemberRow /\ row.roleName = "Soldado"
      BY <1>0, <2>3, <3>1, CallsAssumption DEF MemberRow, EnlistedRow
    <3>3. member' = [member EXCEPT ![i] = row]
      BY <2>3, <3>1
    <3> QED BY <1>2, <2>3, <3>2, <3>3
  <2> QED BY <1>1, <1>4, <2>2, <2>3
<1>11. CASE Rerank(p)
  <2>1. Role(p) \in RoleNames \ {"Recruta"}
    BY <1>11 DEF Rerank, At, Role, IInv, RequestsSound, RequestSound
  <2>2. PICK i : i = Find(Spelled(req[p].call.nicks[1]))
    OBVIOUS
  <2>3. \/ UNCHANGED member
        \/ i \in DOMAIN member /\ member' = [member EXCEPT ![i].roleName = Role(p)]
    BY <1>11, <2>2, FindType DEF Rerank
  <2>4. CASE i \in DOMAIN member /\ member' = [member EXCEPT ![i].roleName = Role(p)]
    <3>1. PICK row : row = [member[i] EXCEPT !.roleName = Role(p)]
      OBVIOUS
    <3>2. row \in MemberRow /\ row.roleName = Role(p)
      BY <1>0, <2>1, <2>4, <3>1 DEF MemberRow
    <3>3. member' = [member EXCEPT ![i] = row]
      BY <2>4, <3>1
    <3> QED BY <1>2, <2>1, <2>4, <3>2, <3>3
  <2> QED BY <1>1, <2>3, <2>4
<1> HIDE DEF WasRecruta
<1> QED
  BY <1>1, <1>5, <1>6, <1>7, <1>8, <1>9, <1>10, <1>11, AccountRows, OtherRows, RankEffects
     DEF Step

LEMMA NoneFires ==
    ASSUME IInv, NEW p \in Procs, Submit(p)
    PROVE  /\ req[p].stage = "idle"
           /\ req'[p].stage \notin {"fire.settle", "rank.cfo", "rank.settle"}
           /\ UNCHANGED <<member, posts, held>>
<1>1. ASSUME NEW call, NEW stage, NEW who, Begin(p, call, stage, who)
      PROVE  /\ req[p].stage = "idle" /\ req'[p].stage = stage
             /\ UNCHANGED <<member, posts, held>>
  BY <1>1 DEF Begin, At, Idle, IInv, TablesTyped, tables, people
<1>2. PICK stage \in {"role.find", "drop.find", "class.check", "contract.find", "fire.find",
                      "nick.prev", "session.create", "code.user", "cape.find", "give.find",
                      "wear.update", "rank.find"} :
           \E call, who : Begin(p, call, stage, who)
  BY DEF Submit, DepartamentSubmit, AccountSubmit, CapeSubmit, SubmitSetUserRole,
     SubmitDeleteUserRole, SubmitPostClass, SubmitContractUser, SubmitFireUser,
     SubmitChangeUserNick, SubmitSession, SubmitCode, SubmitCreateCape, SubmitAtributeCape,
     SubmitChangeUserCape, SubmitRankCall
<1> QED BY <1>1, <1>2

LEMMA FireBegins ==
    ASSUME IInv, NEW p \in Procs, Step(p),
           req[p].stage # "fire.settle", req'[p].stage = "fire.settle"
    PROVE  req'[p].todo = FireWrites
<1>1. Leading(p) /\ ~ Off(p)
  BY StepLeads DEF Off, Watched, FireStages, Reranks
<1> QED BY <1>1, LeadingTo DEF Leading, Dismissing, At

LEMMA FireGoesOn ==
    ASSUME IInv, NEW p \in Procs, Step(p), req[p].stage = "fire.settle"
    PROVE  Dismiss(p) \/ LogDismissal(p) \/ TakePermissions(p) \/ TakePosts(p)
<1>1. ~ DepartamentStep(p)
  BY DEF DepartamentStep, FindForRole, ClearRoles, CreateRole, FindForRemoval, RemoveRole,
     CheckApproved, FindToEnlist, Enlist, CollectApproved, GiveCourses, LogApproved,
     RecordClass, At
<1>2. ~ CapeStep(p)
  BY DEF CapeStep, FindCape, PutPicture, CreateCape, FindToGive, GiveCape, WearCape, At
<1>3. AccountStep(p) => Dismiss(p) \/ LogDismissal(p) \/ TakePermissions(p) \/ TakePosts(p)
  BY DEF AccountStep, FindToFire, FindToContract, ContractWrite, LogContract, FindPrevious,
     FindNew, MoveHistory, DeleteMember, Rename, LogRename, CreateSession, FindToUnlock,
     ReadSession, Unlock, At
<1>4. ~ CareerStep(p)
  BY RankGoesOn DEF RankStages
<1> QED BY <1>1, <1>2, <1>3, <1>4 DEF Step

LEMMA SettledBoth ==
    ASSUME IInv, NEW p \in Procs, NEW v, Settle(p, v)
    PROVE  \/ req[p].todo = {v} /\ req'[p] = Idle
           \/ /\ req[p].todo # {v} /\ req'[p].stage = req[p].stage
              /\ req'[p].target = req[p].target /\ req'[p].todo = req[p].todo \ {v}
BY DEF Settle, Answer, IInv, TablesTyped, Request

LEMMA BareFire ==
    ASSUME IInv, CalmInv, scenario.exclusive, ContractsEnlist, ChecksHold, BareInv,
           NEW p \in Procs, Step(p), req[p].stage = "fire.settle"
    PROVE  BareInv'
<1> DEFINE id == req[p].target
<1>1. \A q \in Procs \ {p} : req'[q] = req[q]
  BY StepKeeps DEF Keeps
<1>2. Hiring(req[p]) /\ StillRead(req[p])
  BY DEF ChecksHold, CalmInv, Calm
<1>3. ~ CreateRole(p) /\ ~ GiveCourses(p)
  BY DEF CreateRole, GiveCourses, At
<1>4. posts' \subseteq posts /\ held' \subseteq held
  BY <1>3, TablesShrink
<1>5. ASSUME NEW i \in DOMAIN member' PROVE WasRecruta(member, member', i) \/ i = id
  <2>1. CASE Dismiss(p)
    <3>1. PICK k : k = Find(Spelled(req[p].call.nicks[1]))
      OBVIOUS
    <3>2. member' = IF k = NoId THEN member ELSE [member EXCEPT ![k] = Dismissed(@)]
      BY <2>1, <3>1 DEF Dismiss
    <3>3. k # NoId => k = id
      BY <1>2, <3>1, NickOfMember DEF StillRead, AboutStages, Spelled
    <3> QED BY <3>2, <3>3 DEF WasRecruta
  <2>2. CASE ~ Dismiss(p)
    BY <1>2, <2>2, RecrutasWere
  <2> QED BY <2>1, <2>2
<1>6. PICK v : /\ Settle(p, v)
               /\ v = "posts" => posts' = posts \ RowsOf(posts, id)
               /\ v = "permissions" => held' = held \ RowsOf(held, id)
  BY FireGoesOn DEF Dismiss, LogDismissal, TakePermissions, TakePosts
<1>7. \/ req[p].todo = {v} /\ req'[p] = Idle
      \/ /\ req[p].todo # {v} /\ req'[p].stage = "fire.settle"
         /\ req'[p].target = id /\ req'[p].todo = req[p].todo \ {v}
  BY <1>6, SettledBoth
<1>8. v = "posts" => \A r \in posts' : r.user # id
  BY <1>6 DEF RowsOf
<1>9. v = "permissions" => \A r \in held' : r.user # id
  BY <1>6 DEF RowsOf
<1>10. Bare(posts', "posts", member', req')
  <2>1. Settles(posts, posts', "posts", member, member', req, req', p, v)
    BY <1>1, <1>4, <1>5, <1>7, <1>8 DEF Settles
  <2> QED BY <2>1, BareSettle DEF BareInv
<1>11. Bare(held', "permissions", member', req')
  <2>1. Settles(held, held', "permissions", member, member', req, req', p, v)
    BY <1>1, <1>4, <1>5, <1>7, <1>9 DEF Settles
  <2> QED BY <2>1, BareSettle DEF BareInv
<1> QED BY <1>10, <1>11 DEF BareInv

(* Whom a call in flight names is not dismissed by another.                *)
LEMMA NotFired ==
    ASSUME IInv, CalmInv, scenario.exclusive, NEW p \in Procs, req[p].stage # "idle",
           NEW n \in Named(req[p].call), Find(n) # NoId,
           NEW q \in Procs \ {p}, req[q].stage = "fire.settle"
    PROVE  Find(n) # req[q].target
<1>1. /\ StillRead(req[q]) /\ Addressed(req[q])
      /\ Named(req[p].call) \cap Named(req[q].call) = {}
  BY DEF CalmInv, Calm, AllAddressed, TurnsApart, At
<1>2. /\ Find(Canon[req[q].call.nicks[1]]) = req[q].target
      /\ Canon[req[q].call.nicks[1]] \in Named(req[q].call)
  BY <1>1, NamedIn DEF StillRead, AboutStages, Addressed, FireStages
<1>3. Find(n) \in WithNick(n)
  BY FindIs DEF CalmInv
<1>4. Find(n) = req[q].target => Find(n) \in WithNick(Canon[req[q].call.nicks[1]])
  BY <1>2, FindIs DEF CalmInv
<1> QED BY <1>1, <1>2, <1>3, <1>4 DEF WithNick

LEMMA BareGiven ==
    ASSUME IInv, CalmInv, scenario.exclusive, ChecksHold, AllRisen, BareInv,
           NEW p \in Procs, CreateRole(p) \/ GiveCourses(p)
    PROVE  BareInv'
<1>1. /\ Step(p) /\ UNCHANGED member
      /\ req[p].stage \in {"role.create", "class.settle"}
  BY DEF Step, DepartamentStep, CreateRole, GiveCourses, At
<1>2. \A q \in Procs \ {p} : req'[q] = req[q]
  BY <1>1, StepKeeps DEF Keeps
<1>3. req'[p].stage # "fire.settle"
  <2>1. Idle.stage # "fire.settle"
    BY DEF Idle
  <2>2. CASE CreateRole(p)
    BY <2>1, <2>2 DEF CreateRole, Answer, IInv, TablesTyped
  <2>3. CASE GiveCourses(p)
    <3>1. Settle(p, "permissions") /\ req[p].stage = "class.settle"
      BY <2>3 DEF GiveCourses, At
    <3> QED BY <2>1, <3>1, SettledBoth
  <2> QED BY <2>2, <2>3
<1>4. CASE CreateRole(p)
  <2> DEFINE n == Canon[req[p].call.nicks[1]]
             id == req[p].target
  <2>1. /\ req[p].stage = "role.create"
        /\ posts' \subseteq posts \cup {[user |-> id, role |-> About(p)]} /\ held' = held
    BY <1>4 DEF CreateRole, At
  <2>2. /\ StillRead(req[p]) /\ Addressed(req[p]) /\ Checked(req[p])
    BY DEF CalmInv, Calm, AllAddressed, ChecksHold
  <2>3. /\ id # NoId /\ Find(n) = id /\ n \in Named(req[p].call)
        /\ member[id].roleName # "Recruta"
    BY <2>1, <2>2, NamedIn DEF StillRead, AboutStages, Addressed, RoleStages, Checked
  <2>4. \A q \in Procs \ {p} : req[q].stage = "fire.settle" => id # req[q].target
    BY <1>1, <2>3, NotFired
  <2>5. \A r \in posts' \ posts : r.user = id
    BY <2>1
  <2> HIDE DEF n, id
  <2>6. Bare(posts', "posts", member, req')
    <3>1. Adds(posts, posts', member, req, req', p)
      BY <1>1, <1>2, <1>3, <2>3, <2>4, <2>5 DEF Adds
    <3> QED BY <3>1, BareMore DEF BareInv
  <2>7. Bare(held, "permissions", member, req')
    <3>1. Adds(held, held, member, req, req', p)
      BY <1>1, <1>2, <1>3 DEF Adds
    <3> QED BY <3>1, BareMore DEF BareInv
  <2> QED BY <1>1, <2>1, <2>6, <2>7 DEF BareInv
<1>5. CASE GiveCourses(p)
  <2> DEFINE c == req[p].call
  <2>1. /\ req[p].stage = "class.settle" /\ posts' = posts
        /\ held' \subseteq held \cup GivenRows(req[p].ids, About(p))
    BY <1>5 DEF GiveCourses, At
  <2>2. ASSUME NEW r \in held' \ held
        PROVE  /\ member[r.user].roleName # "Recruta"
               /\ \A q \in Procs \ {p} : req[q].stage = "fire.settle" =>
                     r.user # req[q].target
    <3>1. PICK k \in DOMAIN req[p].ids : r.user = req[p].ids[k]
      BY <2>1, <2>2 DEF GivenRows, Range
    <3>2. PICK i \in DOMAIN c.nicks :
             r.user = Find(Place(req[p], i)) /\ Serving(Place(req[p], i))
      BY <2>1, <3>1 DEF AllRisen, Risen
    <3>3. Place(req[p], i) \in Named(c)
      BY NamedIn DEF Place
    <3> QED BY <1>1, <3>2, <3>3, NotFired DEF Serving
  <2>3. Bare(held', "permissions", member, req')
    <3>1. Adds(held, held', member, req, req', p)
      BY <1>1, <1>2, <1>3, <2>2 DEF Adds
    <3> QED BY <3>1, BareMore DEF BareInv
  <2>4. Bare(posts, "posts", member, req')
    <3>1. Adds(posts, posts, member, req, req', p)
      BY <1>1, <1>2, <1>3 DEF Adds
    <3> QED BY <3>1, BareMore DEF BareInv
  <2> QED BY <1>1, <2>1, <2>3, <2>4 DEF BareInv
<1> QED BY <1>4, <1>5

LEMMA BareNext ==
    ASSUME IInv, CalmInv, scenario.exclusive, ~ scenario.faults, ContractsEnlist,
           ChecksHold, AllRisen, BareInv, [Next]_vars
    PROVE  BareInv'
<1>1. CASE UNCHANGED <<req, member, posts, held>>
  BY <1>1 DEF BareInv
<1>2. ASSUME NEW p \in Procs, Submit(p) PROVE BareInv'
  <2>1. /\ req[p].stage # "fire.settle" /\ req'[p].stage # "fire.settle"
        /\ UNCHANGED <<member, posts, held>> /\ \A q \in Procs \ {p} : req'[q] = req[q]
    BY <1>2, NoneFires, SubmitOthers
  <2>2. \A id \in DOMAIN member : WasRecruta(member, member, id)
    BY DEF WasRecruta
  <2>3. /\ Lessens(posts, posts, "posts", member, member, req, req', p)
        /\ Lessens(held, held, "permissions", member, member, req, req', p)
    BY <2>1, <2>2 DEF Lessens
  <2>4. Bare(posts, "posts", member, req') /\ Bare(held, "permissions", member, req')
    BY <2>3, BareLess DEF BareInv
  <2> QED BY <2>1, <2>4 DEF BareInv
<1>3. ASSUME NEW p \in Procs, Step(p) PROVE BareInv'
  <2>1. CASE req[p].stage = "fire.settle"
    BY <1>3, <2>1, BareFire
  <2>2. CASE CreateRole(p) \/ GiveCourses(p)
    BY <2>2, BareGiven
  <2>3. CASE ~ (CreateRole(p) \/ GiveCourses(p)) /\ req[p].stage # "fire.settle"
    <3>1. ~ Dismiss(p) /\ Hiring(req[p])
      BY <2>3 DEF Dismiss, At, ChecksHold
    <3>2. \A id \in DOMAIN member' : WasRecruta(member, member', id)
      BY <1>3, <3>1, RecrutasWere
    <3>3. posts' \subseteq posts /\ held' \subseteq held
      BY <1>3, <2>3, TablesShrink
    <3>4. req'[p].stage = "fire.settle" =>
             "posts" \in req'[p].todo /\ "permissions" \in req'[p].todo
      BY <1>3, <2>3, FireBegins DEF FireWrites
    <3>5. \A q \in Procs \ {p} : req'[q] = req[q]
      BY <1>3, StepKeeps DEF Keeps
    <3>6. /\ Lessens(posts, posts', "posts", member, member', req, req', p)
          /\ Lessens(held, held', "permissions", member, member', req, req', p)
      BY <2>3, <3>2, <3>3, <3>4, <3>5 DEF Lessens
    <3>7. Bare(posts', "posts", member', req') /\ Bare(held', "permissions", member', req')
      BY <3>6, BareLess DEF BareInv
    <3> QED BY <3>7 DEF BareInv
  <2> QED BY <2>1, <2>2, <2>3
<1>4. \A p \in Procs : ~ FailQuery(p) /\ ~ LoseWrite(p)
  BY DEF FailQuery, LoseWrite
<1> QED
  BY <1>1, <1>2, <1>3, <1>4 DEF Next, Tick, vars, tables, people

(***************************************************************************)
(* In a quiet moment a Recruta has no departament role and no course:      *)
(* fireUser takes them in writes of their own, in whatever order, and      *)
(* setUserRole and postClass, which look before they write, give nothing   *)
(* to a member who is being dismissed.  It takes clients in turn, queries  *)
(* that do not fail and contracts for a rank other than Recruta, as well   *)
(* as a start and a table of courses like those of the seed.               *)
(***************************************************************************)
THEOREM RecrutasHoldNothing ==
    ASSUME DismissedAreBare, CoursesForMembers
    PROVE  Spec => []RecrutaHoldsNothing
<1> DEFINE J == scenario.exclusive => ChecksHold /\ AllRisen
           K == scenario.exclusive /\ ~ scenario.faults /\ ContractsEnlist => BareInv
<1>1. Init => BareInv
  <2> SUFFICES ASSUME Init PROVE BareInv
    OBVIOUS
  <2>1. \A r \in posts \cup held : r.user \in DOMAIN member =>
           member[r.user].roleName # "Recruta"
    BY DEF Init, DismissedAreBare
  <2>2. \A p \in Procs : req[p].stage # "fire.settle"
    BY DEF Init, Idle
  <2> QED BY <2>1, <2>2 DEF BareInv, Bare
<1>2. Init => J /\ K
  BY <1>1, ChecksHoldInit, RisenInit
<1>3. IInv /\ CalmInv /\ J /\ [Next]_vars => J'
  BY ChecksHoldNext, RisenNext, ScenarioStays
<1>4. IInv /\ CalmInv /\ J /\ K /\ [Next]_vars => K'
  <2> SUFFICES ASSUME IInv, CalmInv, J, K, [Next]_vars PROVE K'
    OBVIOUS
  <2>1. scenario' = scenario /\ ContractsEnlist' = ContractsEnlist
    BY ScenarioStays DEF ContractsEnlist, CallsOf
  <2> QED BY <2>1, BareNext
<1>5. K => RecrutaHoldsNothing
  <2> SUFFICES ASSUME BareInv, Quiet, NEW id \in DOMAIN member,
                      member[id].roleName = "Recruta"
               PROVE  RowsOf(posts, id) = {} /\ RowsOf(held, id) = {}
    BY DEF RecrutaHoldsNothing
  <2>1. \A p \in Procs : \A w : ~ Awaits(req[p], w, id)
    BY DEF Quiet, At, Awaits
  <2> QED BY <2>1 DEF BareInv, Bare, RowsOf
<1> HIDE DEF J, K
<1> QED
  BY <1>2, <1>3, <1>4, <1>5, InitInv, NextInv, CalmInvInit, CalmInvNext, PTL DEF Spec
=============================================================================
