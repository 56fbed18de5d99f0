----------------------------- MODULE Membership -----------------------------
(***************************************************************************)
(* What the back office promises about the passage of a member through the *)
(* corps: one joins enlisted, opens an account while enlisted, may be      *)
(* dismissed at any time, and comes back or disappears only from there.    *)
(* Nobody who is dismissed acts, and nobody acts who has not been enlisted *)
(* again.                                                                  *)
(***************************************************************************)
EXTENDS Functions

VARIABLE phase  \* of the members there are

Phases == {"recruta", "enlisted", "active"}

Become(m, p) == phase' = [phase EXCEPT ![m] = p]

Join(m) ==
    /\ m \notin DOMAIN phase
    /\ phase' = [x \in DOMAIN phase \cup {m} |-> IF x = m THEN "enlisted" ELSE phase[x]]

Enlist(m)  == phase[m] = "recruta"  /\ Become(m, "enlisted")
Open(m)    == phase[m] = "enlisted" /\ Become(m, "active")
Dismiss(m) == phase[m] # "recruta"  /\ Become(m, "recruta")
Leave(m)   == phase[m] = "recruta"  /\ phase' = Restrict(phase, DOMAIN phase \ {m})

Init == phase \in [DOMAIN phase -> Phases]

Next == \/ \E m \in DOMAIN phase : Enlist(m) \/ Open(m) \/ Dismiss(m) \/ Leave(m)
        \/ \E m \in DOMAIN phase' : Join(m)

Spec == Init /\ [][Next]_phase
=============================================================================
