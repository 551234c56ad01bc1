------------------------------- MODULE RoadNet --------------------------------
(***************************************************************************)
(* From the editor to the robots: the road graph is drawn and saved, a     *)
(* coordinator that starts finds the files sound or not, and the profile   *)
(* it runs on names the map every robot must hold.  The steps meet in      *)
(* files only, so a behaviour moves one of them: the editor, the files     *)
(* under a coordinator that is started again, or the robot's map.          *)
(***************************************************************************)
EXTENDS Naturals, Sequences

CONSTANTS
    Places, MaxNodes, MaxMiddle, MaxEdits, None,
    Profiles, Default, Parameter, MaxOrders, MaxChanges, MaxRestarts,
    Moving

VARIABLES
    moving,
    at, edges, ui, window, disk, edits,         \* GraphEditor
    files, saved, coord, inbox,        \* ProfileSwitch
    onRobot, server, agent, orders, loads, answers, changes, was

Editor == INSTANCE GraphEditor
Profile == INSTANCE ProfileSwitch

\* What Coordinates assumes of them.
RoadNetConstants ==
    /\ Moving \subseteq {"editor", "files", "maps"} /\ Profile!ProfileConstants
    /\ None \notin Places /\ None \notin [way : Seq(Places), oneway : BOOLEAN]

editorVars == <<at, edges, ui, window, disk, edits>>
profileVars == <<files, saved, coord, inbox, onRobot, server, agent, orders, loads,
                 answers, changes, was>>
vars == <<moving, editorVars, profileVars>>

Init ==
    /\ moving \in Moving
    /\ Editor!GraphEditorInit /\ Profile!ProfileSwitchInit
    \* what does not move starts in one state only
    /\ moving # "maps" => onRobot = [p \in Profiles |-> p]
    /\ moving # "editor" => at[1] = CHOOSE p \in Places : TRUE

Next ==
    /\ UNCHANGED moving
    /\ \/ moving = "editor" /\ Editor!EditorStep /\ UNCHANGED profileVars
       \/ /\ moving = "files" /\ (Profile!FileStep \/ Profile!CoordinatorStep)
          /\ UNCHANGED editorVars
       \/ /\ moving = "maps" /\ (Profile!RobotStep \/ Profile!CoordinatorStep)
          /\ UNCHANGED editorVars

Spec == Init /\ [][Next]_vars

-----------------------------------------------------------------------------
\* What the modules' variables hold.
TypeOK == moving \in Moving /\ Editor!GraphEditorTypeOK /\ Profile!ProfileSwitchTypeOK

(***************************************************************************)
(* An editor that closes without a question has nothing to lose: whatever  *)
(* differs from the file is marked (GraphCanvas.dirty, closeEvent).        *)
(***************************************************************************)
CleanIsSaved == Editor!CleanIsSaved

(***************************************************************************)
(* Whatever is clicked, dragged or deleted, and in whichever order, every  *)
(* edge stands on nodes that exist and ends where they are, so a save is   *)
(* refused for an edge without a length only (delete_node, move_node).     *)
(***************************************************************************)
EdgesStand == Editor!EdgesStand

(***************************************************************************)
(* A fleet does not come back on other coordinates in silence.  After the  *)
(* profile was switched and kept, a coordinator that starts again runs on  *)
(* it, says that it could not, or runs on none; a file broken in the       *)
(* meantime changes nothing about that (resolve_active, write_active).     *)
(***************************************************************************)
ComesBack == ~coord.up /\ coord'.up /\ was # None
BackSame == ComesBack => coord'.active \in {was, None} \/ coord'.note
ComesBackSame == [][BackSame]_vars
=============================================================================
