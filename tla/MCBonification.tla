--------------------------- MODULE MCBonification ---------------------------
(***************************************************************************)
(* Two members of the seed's roles: a Major who gives bonuses to a Cabo,   *)
(* and now and then gets one for a recruitment.                            *)
(***************************************************************************)
EXTENDS Bonification, Seed

Pair  == {"Ana", "Xisto"}
Roles_ == [u \in Pair |-> IF u = "Ana" THEN "Cabo" ELSE "Major"]

Give(actor, target, reason) == [actor |-> actor, target |-> target, reason |-> reason]

AnaCalls == {Give("Xisto", "Ana", "Outro"),
             Give("Xisto", "Ana", "Recrutamento"),
             Give("Ana", "Xisto", "Outro")}

RacesOrFaults == {[exclusive |-> FALSE, faults |-> FALSE],
                  [exclusive |-> TRUE,  faults |-> TRUE]}
Alone == {[exclusive |-> TRUE,  faults |-> FALSE]}

Two == {1, 2}
=============================================================================
