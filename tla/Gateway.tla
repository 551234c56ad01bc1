------------------------------- MODULE Gateway --------------------------------
(***************************************************************************)
(* The operator's side of the relay: the web gateway with its commands and *)
(* their lease (ControlGateway) and the calibration of its cameras         *)
(* (Calibration), and the vision coordinator's scenarios (ScenarioDesk).   *)
(* One process serves the first two and another the third; they share no   *)
(* state, and in a behaviour one of them moves.                            *)
(***************************************************************************)
EXTENDS Calibration, Sequences

CONSTANTS
    Remote, Local, MaxQueue,
    Robots, Order, Titles, Contents, RobotsIn, Courses, Possible, Preset, Absent,
    MaxPresses, MaxBoots

VARIABLES
    moving,
    allowed, lease, request, queue, fleet, last, ran,
    course, listed, userFile, desk, trip, lastNo, starting, keptBack, told, bot, heard,
    presses, boots

Commands == INSTANCE ControlGateway
Desk == INSTANCE ScenarioDesk

ASSUME OperatorAssumption == Commands!CommandConstants /\ Desk!DeskConstants

commandVars == <<allowed, lease, request, queue, fleet, last, ran>>
deskVars == <<course, listed, userFile, desk, trip, lastNo, starting, keptBack, told, bot,
              heard, presses, boots>>
gatewayVars == <<moving, vars, commandVars, deskVars>>

GatewayInit ==
    /\ moving \in {"commands", "cameras", "scenarios"}
    /\ Init /\ Commands!Init /\ Desk!DeskInit
    \* what does not move starts in one state only
    /\ moving # "cameras" =>
         /\ camera.box = CHOOSE b \in Boxes : TRUE
         /\ robots = CHOOSE c \in Crowds : TRUE
    /\ moving # "scenarios" => course = CHOOSE k \in Courses : TRUE

GatewayNext ==
    /\ UNCHANGED moving
    /\ \/ moving = "commands" /\ Commands!Next /\ UNCHANGED <<vars, deskVars>>
       \/ moving = "cameras" /\ Next /\ UNCHANGED <<commandVars, deskVars>>
       \/ moving = "scenarios" /\ Desk!DeskNext /\ UNCHANGED <<vars, commandVars>>

GatewaySpec == GatewayInit /\ [][GatewayNext]_gatewayVars

-----------------------------------------------------------------------------
(***************************************************************************)
(* No handler tells its client "applied" because of an older result, while *)
(* other clients' commands are dispatched (wait_control_result).           *)
(***************************************************************************)
RepliesAreNew == Commands!RepliesAreNew

(***************************************************************************)
(* A stop or an emergency stop, pressed again or one on top of the other,  *)
(* does not lose the run it interrupted (stop_fleet, resume_fleet).        *)
(***************************************************************************)
RunIsKept == Commands!RunIsKept

(***************************************************************************)
(* What is offered is what the file has, after saves that failed, deletes, *)
(* restarts and edits of the course alike (save_user_scenario).            *)
(***************************************************************************)
ListIsFile == Desk!ListIsFile

(***************************************************************************)
(* A mission that runs has a scenario: no resume and no restart brings     *)
(* back a RUNNING whose right of way nobody rules on                       *)
(* (_restore_control_state, resume_fleet).                                 *)
(***************************************************************************)
RunningHasRun == Desk!RunningHasRun

(***************************************************************************)
(* A robot counts as arrived only in a scenario it has driven in           *)
(* (JunctionPlan.msg: a plan with a new number is a new mission).          *)
(***************************************************************************)
ArrivedDrove == Desk!ArrivedDrove
=============================================================================
