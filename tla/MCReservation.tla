--------------------------- MODULE MCReservation ---------------------------
(***************************************************************************)
(* The road graph of the map5 profile for TLC: three roads meet in the     *)
(* junction J; a fourth, to TL, lets two routes cross there.  A road is a  *)
(* few units long, a waypoint stands at every unit.                        *)
(***************************************************************************)
EXTENDS Reservation

CONSTANTS p1, p2, BL, BR, TR, TL, J, BL_J, J_TR, J_BR, J_TL, ShortRoad, LongRoad

RoadLength(e) == IF e = J_TR THEN LongRoad ELSE ShortRoad

TwoRoads(a, e1, e2, b) ==
  LET mid == RoadLength(e1)
      end == mid + RoadLength(e2)
  IN  [n |-> 2, goalIdx |-> end,
       edges |-> [k \in 0 .. 1 |-> IF k = 0 THEN e1 ELSE e2],
       nodes |-> [k \in 0 .. 2 |-> IF k = 0 THEN a ELSE IF k = 1 THEN J ELSE b],
       endIdx |-> [k \in 0 .. 1 |-> IF k = 0 THEN mid ELSE end],
       cum |-> [i \in 0 .. end |-> i],
       idxAt |-> [s \in 0 .. end |-> s]]

OneRoad(a, e, b) ==
  [n |-> 1, goalIdx |-> RoadLength(e),
   edges |-> [k \in {0} |-> e],
   nodes |-> [k \in 0 .. 1 |-> IF k = 0 THEN a ELSE b],
   endIdx |-> [k \in {0} |-> RoadLength(e)],
   cum |-> [i \in 0 .. RoadLength(e) |-> i],
   idxAt |-> [s \in 0 .. RoadLength(e) |-> s]]

BLtoTR == TwoRoads(BL, BL_J, J_TR, TR)
TRtoBR == TwoRoads(TR, J_TR, J_BR, BR)
BRtoBL == TwoRoads(BR, J_BR, BL_J, BL)
BRtoTL == TwoRoads(BR, J_BR, J_TL, TL)
BRtoJ == OneRoad(BR, J_BR, J)
BLtoBR == TwoRoads(BL, BL_J, J_BR, BR)

AllRobots == {p1, p2}
AllNodes == {BL, BR, TR, TL, J}
AllEdges == {BL_J, J_TR, J_BR, J_TL}
AllRoutes == {BLtoTR, TRtoBR, BRtoBL, BLtoBR, BRtoTL, BRtoJ}
Domains == [r \in AllRobots |-> IF r = p1 THEN 10 ELSE 11]

(* Missions that follow one another, cross, meet head-on, or end where     *)
(* another starts or passes, as an operator may assign them.               *)
RelayMissions ==
  [r \in AllRobots |-> IF r = p1 THEN {BLtoTR, BLtoBR, TRtoBR} ELSE {BRtoBL, BRtoTL, BRtoJ}]

OneRobot == {p1}
OneDomain == [r \in OneRobot |-> 10]
OneMission == [r \in OneRobot |-> {BLtoTR}]
=============================================================================
