---------------------------- MODULE VisionMission -----------------------------
(***************************************************************************)
(* Both ends of a vision mission: a robot that drives its plan             *)
(* (VisionDriver) and the station that lets robots into the junction       *)
(* (JunctionToken, with the robots as the station sees them).  Each module *)
(* has the other side in it as far as it matters there, so they share no   *)
(* state, and in a behaviour one of them moves.                            *)
(***************************************************************************)
EXTENDS VisionDriver

CONSTANTS
    Robots, DomainId, NoRobot, FarAway, TieWindow, TieDistance, LinesByOrder,
    MaxScenarios, Held, Overhead

VARIABLES
    phase, gap, plan_held, clear, answered, status, command, run, due, stage,
    heard_arrived, stood, holder, requests, locked, grant_order, passed, stop_lines,
    moving          \* "robot" or "station"

Token == INSTANCE JunctionToken WITH seq <- plan_held, arrived <- heard_arrived

tokenVars == <<phase, gap, plan_held, clear, answered, status, command, run, due, stage,
               heard_arrived, stood, holder, requests, locked, grant_order, passed,
               stop_lines>>
missionsVars == <<vars, tokenVars, moving>>

MissionInit ==
    /\ moving \in {"robot", "station"} /\ Init /\ Token!Init
    \* what does not move starts in one state only
    /\ moving = "robot" => \A r \in Robots : gap[r] = FarAway

MissionNext ==
    /\ UNCHANGED moving
    /\ \/ moving = "robot" /\ Next /\ UNCHANGED tokenVars
       \/ moving = "station" /\ Token!Next /\ UNCHANGED vars

(***************************************************************************)
(* What VisionDriver and JunctionToken each call fair, of the end that     *)
(* moves.                                                                  *)
(***************************************************************************)
OfRobot(A) == moving = "robot" /\ A
OfStation(A) == moving = "station" /\ A

MissionFairness ==
    /\ WF_vars(OfRobot(PlanArrives)) /\ WF_vars(OfRobot(CommandArrives))
    /\ SF_vars(OfRobot(Send("START"))) /\ SF_vars(OfRobot(UndisturbedTick))
    /\ WF_tokenVars(OfStation(Token!LoopTick))
    /\ \A r \in Robots :
         /\ WF_tokenVars(OfStation(Token!Progresses(r)))
         /\ WF_tokenVars(OfStation(Token!Hears(r)))
         /\ WF_tokenVars(OfStation(Token!ReportsTruly(r)))
         /\ SF_tokenVars(OfStation(Token!HearsTruly(r)))

MissionSpec == MissionInit /\ [][MissionNext]_missionsVars /\ MissionFairness

-----------------------------------------------------------------------------
(***************************************************************************)
(* Every robot of the scenario arrives and the station hears of it: the    *)
(* right of way is neither lost with a message nor kept by a robot that    *)
(* left (ScenarioRun.tick, JunctionArbiter.tick).                          *)
(***************************************************************************)
ScenarioEnds == moving = "station" => <>[](heard_arrived = Robots)
=============================================================================
