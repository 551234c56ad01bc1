----------------------------- MODULE Interlocking -----------------------------
(***************************************************************************)
(* What the reservations promise the road (reservation.py): a place of the *)
(* road, an edge or a junction, is one robot's at a time, a robot is       *)
(* inside its own places only, and no place is taken from a robot or given *)
(* up while that robot is inside.                                          *)
(***************************************************************************)
CONSTANTS Robots, Places, Nobody

VARIABLES
    holder,     \* of each place: a robot, or Nobody
    inside      \* which robots under way are inside which places

Of(r) == {p \in Places : holder[p] = r}
Inside(r) == {p \in Places : <<r, p>> \in inside}

Init == holder = [p \in Places |-> Nobody] /\ inside = {}

\* The places that change hands in a step.
Hands == holder' \in [Places -> Robots \cup {Nobody}]
Passed == {p \in Places : holder'[p] # holder[p]}

\* Only free places are taken, by one robot.
Take(r) ==
    /\ Hands /\ \A p \in Passed : holder[p] = Nobody /\ holder'[p] = r
    /\ UNCHANGED inside

\* Places are given up with nobody inside.
GiveUp ==
    /\ Hands /\ \A p \in Passed : holder'[p] = Nobody /\ \A r \in Robots : p \notin Inside(r)
    /\ UNCHANGED inside

\* A robot drives into what it holds.
Drive(r, S) ==
    /\ inside' = {x \in inside : x[1] # r} \cup ({r} \X S)
    /\ UNCHANGED holder

\* It has arrived, and is under way no more: it keeps one place at most.
Park(r, keep) ==
    /\ inside' = {x \in inside : x[1] # r}
    /\ holder' = [p \in Places |-> IF holder[p] = r /\ p # keep THEN Nobody ELSE holder[p]]

\* It sets out again, from a place that is free or its own.
SetOut(r, start) ==
    /\ Inside(r) = {}
    /\ holder' = [p \in Places |->
                    IF p = start /\ holder[p] \in {Nobody, r} THEN r
                    ELSE IF holder[p] = r THEN Nobody ELSE holder[p]]
    /\ UNCHANGED inside

Next ==
    \/ GiveUp
    \/ \E r \in Robots :
         \/ Take(r)
         \/ \E S \in SUBSET Of(r) : Drive(r, S)
         \/ \E p \in Places : Park(r, p) \/ SetOut(r, p)

Spec == Init /\ [][Next]_<<holder, inside>>

-----------------------------------------------------------------------------
(***************************************************************************)
(* Two robots under way are never inside the same place.                   *)
(***************************************************************************)
Apart == \A r, q \in Robots : r # q => Inside(r) \cap Inside(q) = {}
=============================================================================
