----------------------------- MODULE StationLinks -----------------------------
(***************************************************************************)
(* The station with its Nav2 robot, and the domain bridge's wrapper that   *)
(* carries service calls and goals between domains.  They share no state,  *)
(* and in a behaviour one of them moves.                                   *)
(***************************************************************************)
EXTENDS Station, TopicWrap

VARIABLE moving     \* "station" or "wrapper"

linkVars == <<vars, wrapVars, moving>>

LinkInit == Init /\ WrapInit /\ moving \in {"station", "wrapper"}

LinkNext ==
    /\ UNCHANGED moving
    /\ \/ moving = "station" /\ Next /\ UNCHANGED wrapVars
       \/ moving = "wrapper" /\ WrapNext /\ UNCHANGED vars

LinkSpec ==
    /\ LinkInit /\ [][LinkNext]_linkVars
    /\ moving = "station" => Fairness
=============================================================================
