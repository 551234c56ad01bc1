----------------------------- MODULE Coordinates ------------------------------
(***************************************************************************)
(* What a robot drives by: the road graph and the map of its profile       *)
(* (RoadNet), and its pose, which comes from the tablet through the        *)
(* gateway, with the events that confirm its arrival (VisionPath).  They   *)
(* share no state, and in a behaviour one of them moves.                   *)
(***************************************************************************)
EXTENDS VisionPath

CONSTANTS
    MaxNodes, MaxMiddle, MaxEdits,
    Profiles, Default, Parameter, MaxOrders, MaxChanges, NetRestarts, NetMoving

VARIABLES
    on,         \* "pose" or "net"
    at, edges, ui, window, disk, edits,
    files, saved, coord, inbox, onRobot, server, mapped, orders, loads, answers,
    changes, was,
    part        \* of RoadNet

Net == INSTANCE RoadNet
         WITH moving <- part, agent <- mapped, MaxRestarts <- NetRestarts, Moving <- NetMoving

ASSUME NetAssumption == Net!RoadNetConstants

netVars == <<at, edges, ui, window, disk, edits, files, saved, coord, inbox, onRobot,
             server, mapped, orders, loads, answers, changes, was, part>>
coordinatesVars == <<vars, netVars, on>>

CoordinatesInit ==
    /\ on \in {"pose", "net"} /\ Init /\ Net!Init
    \* what does not move starts in one state only
    /\ on = "pose" => part = "files"
    /\ on = "net" => moving = "zone"

CoordinatesNext ==
    /\ UNCHANGED on
    /\ \/ on = "pose" /\ Next /\ UNCHANGED netVars
       \/ on = "net" /\ Net!Next /\ UNCHANGED vars

CoordinatesSpec == CoordinatesInit /\ [][CoordinatesNext]_coordinatesVars

-----------------------------------------------------------------------------
(***************************************************************************)
(* An editor that closes without a question has nothing to lose: whatever  *)
(* differs from the file is marked (GraphCanvas.dirty, closeEvent).        *)
(***************************************************************************)
CleanIsSaved == Net!CleanIsSaved

(***************************************************************************)
(* Whatever is clicked, dragged or deleted, and in whichever order, every  *)
(* edge stands on nodes that exist and ends where they are (delete_node,   *)
(* move_node).                                                             *)
(***************************************************************************)
EdgesStand == Net!EdgesStand

(***************************************************************************)
(* A fleet does not come back on other coordinates in silence              *)
(* (resolve_active, write_active).                                         *)
(***************************************************************************)
ComesBackSame == [][Net!BackSame]_netVars
=============================================================================
