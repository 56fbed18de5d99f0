---------------------------- MODULE CareerLadder ----------------------------
(***************************************************************************)
(* What promotions, demotions, firings and warnings promise: the career of *)
(* a member (the role, the warnings counted, whether the account is        *)
(* active) changes by whole steps, each from the career as it is at that   *)
(* moment.  One rung at a time, up or down; who was expelled stays a       *)
(* Recruta; the third warning costs a rung and clears the count.           *)
(***************************************************************************)
EXTENDS Authority

CONSTANT Users

VARIABLE career

Career == [roleName : RoleNames, advNum : 0..2, isAccountActive : BOOLEAN]

Init == career \in [Users -> Career]

Promote(u) ==
    /\ career[u].roleName # "Recruta" /\ career[u].isAccountActive
    /\ NextUp(career[u].roleName) # NoRole
    /\ career' = [career EXCEPT ![u].roleName = NextUp(@)]

Demote(u) ==
    /\ career[u].roleName \notin Untouchable("demote")
    /\ NextDown(career[u].roleName) # NoRole
    /\ career' = [career EXCEPT ![u].roleName = NextDown(@)]

Expel(u) ==
    /\ career[u].roleName # "Recruta"
    /\ career' = [career EXCEPT ![u].roleName = "Recruta",
                                ![u].isAccountActive = FALSE]

Warn(u) ==
    /\ career[u].roleName # "Recruta" /\ career[u].advNum < 2
    /\ career' = [career EXCEPT ![u].advNum = @ + 1]

PunishThirdWarning(u) ==
    /\ career[u].roleName # "Recruta" /\ career[u].advNum = 2
    /\ NextDown(career[u].roleName) # NoRole
    /\ career' = [career EXCEPT
                    ![u] = [roleName        |-> NextDown(@.roleName),
                            advNum          |-> 0,
                            isAccountActive |-> @.roleName # "Soldado"]]

Next == \E u \in Users : /\ career'[u] # career[u]
                         /\ \/ Promote(u) \/ Demote(u) \/ Expel(u)
                            \/ Warn(u) \/ PunishThirdWarning(u)

Spec == Init /\ [][Next]_career
=============================================================================
