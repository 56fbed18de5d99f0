------------------------------- MODULE Capes --------------------------------
(***************************************************************************)
(* CosmeticService: an administrator uploads the picture of a cape to a    *)
(* bucket, then creates its row; gives capes to members; and every member  *)
(* chooses one by name.                                                    *)
(***************************************************************************)
EXTENDS Members

Cape(p)   == req[p].call.about
File(p)   == req[p].call.file
-----------------------------------------------------------------------------
(***************************************************************************)
(* createCape                                                              *)
(***************************************************************************)
SubmitCreateCape(p) ==
    \E call \in CallsOf("createCape") :
        /\ Admitted(call) /\ Guarded(call.actor).isAdmin
        /\ Begin(p, call, "cape.find", Guarded(call.actor))

\* Mistake: the cape is looked up by name, not by file.
TakenByName(p) == \E c \in capes : c.name = Cape(p)

Taken(p) == \E c \in capes : c.file = File(p)

FindCape(p) ==
    /\ At(p, "cape.find")
    /\ IF Taken(p) THEN Answer(p) ELSE Goto(p, "cape.put")
    /\ UNCHANGED <<tables, now, issued, scenario>>

\* PutObjectCommand: what the file held is gone.
PutPicture(p) ==
    /\ At(p, "cape.put")
    /\ bucket' = [f \in DOMAIN bucket \cup {File(p)} |->
                    IF f = File(p) THEN Cape(p) ELSE bucket[f]]
    /\ Goto(p, "cape.create")
    /\ UNCHANGED <<people, sessions, capes, worn, now, issued, scenario>>

\* Names and files are unique; the handler swallows the failure.
CreateCape(p) ==
    /\ At(p, "cape.create")
    /\ capes' = IF \E c \in capes : c.name = Cape(p) \/ c.file = File(p) THEN capes
                ELSE capes \cup {[name |-> Cape(p), file |-> File(p)]}
    /\ Answer(p)
    /\ UNCHANGED <<people, sessions, worn, bucket, now, issued, scenario>>
-----------------------------------------------------------------------------
(***************************************************************************)
(* atributeCape.  The row of the member and that of the cape are read      *)
(* together; capes are never deleted, so one moment stands for both.       *)
(***************************************************************************)
SubmitAtributeCape(p) ==
    \E call \in CallsOf("atributeCape") :
        /\ Admitted(call) /\ Guarded(call.actor).isAdmin
        /\ Canon[call.nicks[1]] # NoNick
        /\ Begin(p, call, "give.find", Guarded(call.actor))

FindToGive(p) ==
    /\ At(p, "give.find")
    /\ LET id == Find(Canon[req[p].call.nicks[1]])
       IN  IF id # NoId /\ \E c \in capes : c.name = Cape(p)
           THEN req' = [req EXCEPT ![p].stage = "give.create", ![p].target = id]
           ELSE Answer(p)
    /\ UNCHANGED <<tables, now, issued, scenario>>

GiveCape(p) ==
    /\ At(p, "give.create")
    /\ worn' = worn \cup {r \in {[user |-> req[p].target, cape |-> Cape(p)]} :
                            r.user \in DOMAIN member}
    /\ Answer(p)
    /\ UNCHANGED <<people, sessions, capes, bucket, now, issued, scenario>>
-----------------------------------------------------------------------------
(***************************************************************************)
(* changeUserCape: one update, by the nick of the token, of a name nobody  *)
(* checks.                                                                 *)
(***************************************************************************)
SubmitChangeUserCape(p) ==
    \E call \in CallsOf("changeUserCape") :
        Admitted(call) /\ Begin(p, call, "wear.update", Guarded(call.actor))

WearCape(p) ==
    LET id == Find(req[p].who.nick)
    IN  /\ At(p, "wear.update")
        /\ member' = IF id = NoId THEN member
                                  ELSE [member EXCEPT ![id].capeSelected = Cape(p)]
        /\ Answer(p)
        /\ UNCHANGED <<created, posts, held, history, classes, sessions, wardrobe,
                       now, issued, scenario>>
-----------------------------------------------------------------------------
CapeStep(p) ==
    \/ FindCape(p) \/ PutPicture(p) \/ CreateCape(p)
    \/ FindToGive(p) \/ GiveCape(p) \/ WearCape(p)

CapeSubmit(p) ==
    SubmitCreateCape(p) \/ SubmitAtributeCape(p) \/ SubmitChangeUserCape(p)
=============================================================================
