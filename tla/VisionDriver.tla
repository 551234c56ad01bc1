---------------------------- MODULE VisionDriver ----------------------------
(***************************************************************************)
(* One robot of the vision mission: LaneDriver in lane_only mode           *)
(* (pinky_fleet_agent/lane_driver.py) around the drive state machine, the  *)
(* commands and plans the station sends it, and the course it drives.      *)
(*                                                                         *)
(* The course is a line of positions.  Up to Line the robot is in front of *)
(* the junction; the fixed manoeuvre is ManeuverLength units long and ends *)
(* on the far side.  What the camera reports depends on where the robot    *)
(* is.  Each control tick moves it by one unit or, as wheels do, by less   *)
(* than one can tell.                                                      *)
(***************************************************************************)
EXTENDS DriveFsm, FiniteSets, Sequences

CONSTANTS
    LastPos,            \* the course is 0..LastPos
    Line,               \* the stopping place in front of the junction
    ManeuverLength,     \* what the fixed manoeuvre drives
    RedAt,              \* positions that see a red line
    CrosswalkAt,        \* positions that see a crosswalk
    WhiteAt,            \* the white stop lines
    MarkerAt,           \* positions within arrive_distance of the goal marker
    NearMarkerAt,       \* positions within marker_obstacle_distance of it
    Plans,              \* mission number -> [skip_clearance, stop_line_count];
                        \* a count of 0 stands for a goal marker
    StopLineGap,        \* stop_line_min_gap
    RedLineGap,         \* red_line_min_gap
    LaneLostCoast,      \* lane_lost_coast, in ticks
    MaxWire,            \* bound: LaneCommands in flight at once
    Allowed             \* which disturbances happen

SensorDisturbances ==
    {"obstacle", "barricade", "silence", "partial", "blind", "flicker"}

Disturbances ==
    SensorDisturbances \cup {"halt_at_line", "stop", "estop", "late_plan"}

ASSUME CourseAssumption ==
    /\ {LastPos, Line, ManeuverLength, StopLineGap, RedLineGap,
        LaneLostCoast, MaxWire} \subseteq Nat \ {0}
    /\ Line + ManeuverLength < LastPos
    /\ {RedAt, CrosswalkAt, WhiteAt, MarkerAt, NearMarkerAt} \subseteq SUBSET (0..LastPos)
    /\ Allowed \subseteq Disturbances
    /\ Plans \in Seq([skip_clearance : BOOLEAN, stop_line_count : 0..2])
    /\ Plans # << >>

Seqs == DOMAIN Plans
NoPlan == 0
NoManeuver == -1

Commands == {"START", "STOP", "ESTOP", "RESUME", "CLEARANCE"}
Command == [cmd : Commands, route_seq : Seqs, clear_until : 0..1]

VARIABLES
    pos,            \* where the robot is
    station_seq,    \* the mission the station is running
    granted,        \* missions the station has cleared through the junction
    wire,           \* LaneCommands on their way, oldest first
    started, estop, clear_until,
    seq,            \* the plan the driver holds (route_seq)
    maneuver,       \* what is left of the fixed manoeuvre, or NoManeuver
    finished,       \* _maneuver_finished_pending
    junction_passed,
    stop_lines_seen, stop_line_prev, since_count,
    arrived,
    arrive_on_obstacle, \* the robot ahead stands at the same goal already
    red_prev, red_pending, since_red_stop,
    lost_since, rolling,    \* _lost_since, _last_cmd
    fsm,
    motion          \* what the last tick had the wheels do

worldVars == <<pos>>
stationVars == <<station_seq, granted>>
latchVars == <<started, estop, clear_until>>
missionVars ==
    <<seq, maneuver, finished, junction_passed, arrived, arrive_on_obstacle>>
countVars == <<stop_lines_seen, stop_line_prev, since_count>>
redVars == <<red_prev, red_pending, since_red_stop>>
driveVars == <<lost_since, rolling, fsm, motion>>

vars == <<worldVars, stationVars, wire, latchVars, missionVars, countVars,
          redVars, driveVars>>

Motions == {"halt", "rotate", "maneuver", "lane", "coast"}

MissionOpen == seq # NoPlan
Plan == Plans[seq]
ManeuverActive == maneuver # NoManeuver /\ ~junction_passed
HoldsThePlan == seq = station_seq

\* The type invariant.
TypeOK ==
    /\ pos \in 0..LastPos
    /\ station_seq \in Seqs
    /\ granted \subseteq Seqs
    /\ wire \in Seq(Command) /\ Len(wire) <= MaxWire
    /\ started \in BOOLEAN /\ estop \in BOOLEAN /\ clear_until \in 0..1
    /\ seq \in {NoPlan} \cup Seqs
    /\ maneuver \in {NoManeuver} \cup 0..ManeuverLength
    /\ finished \in BOOLEAN /\ junction_passed \in BOOLEAN
    /\ arrived \in BOOLEAN /\ arrive_on_obstacle \in BOOLEAN
    /\ stop_lines_seen \in 0..2 /\ stop_line_prev \in BOOLEAN
    /\ since_count \in 0..StopLineGap
    /\ red_prev \in BOOLEAN /\ red_pending \in BOOLEAN
    /\ since_red_stop \in 0..RedLineGap
    /\ lost_since \in {Unset} \cup 0..(LaneLostCoast + 1)
    /\ rolling \in BOOLEAN
    /\ fsm \in Fsm
    /\ motion \in Motions

Init ==
    /\ pos = 0
    /\ station_seq = 1 /\ granted = {} /\ wire = << >>
    /\ started = FALSE /\ estop = FALSE /\ clear_until = 0
    /\ seq = NoPlan /\ maneuver = NoManeuver /\ finished = FALSE
    /\ junction_passed = FALSE /\ arrived = FALSE
    /\ arrive_on_obstacle = FALSE
    /\ stop_lines_seen = 0 /\ stop_line_prev = FALSE
    /\ since_count = StopLineGap
    /\ red_prev = FALSE /\ red_pending = FALSE /\ since_red_stop = RedLineGap
    /\ lost_since = Unset /\ rolling = FALSE
    /\ fsm = NewFsm /\ motion = "halt"

-----------------------------------------------------------------------------
(***************************************************************************)
(* The station.                                                            *)
(***************************************************************************)

\* A message of the 10 Hz loop.  START is only sent for a mission whose plan
\* has arrived, unless plans may be late.
Send(c) ==
    /\ Len(wire) < MaxWire
    /\ c = "START" => "late_plan" \in Allowed \/ seq = station_seq
    /\ c \in {"STOP"} => "stop" \in Allowed
    /\ c \in {"ESTOP", "RESUME"} => "estop" \in Allowed
    /\ wire' = Append(wire,
         [cmd |-> c, route_seq |-> station_seq,
          clear_until |-> IF c = "CLEARANCE" /\ station_seq \in granted
                          THEN 1 ELSE 0])
    /\ UNCHANGED <<worldVars, stationVars, latchVars, missionVars, countVars,
                   redVars, driveVars>>

\* The station gives this mission the right of way.
Grant ==
    /\ ~Plans[station_seq].skip_clearance
    /\ granted' = granted \cup {station_seq}
    /\ UNCHANGED <<worldVars, station_seq, wire, latchVars, missionVars,
                   countVars, redVars, driveVars>>

\* The next scenario: the robot stands, and has been carried back to a start.
NewScenario ==
    /\ station_seq + 1 \in Seqs
    /\ arrived \/ ~started
    /\ "late_plan" \notin Allowed =>
         \A i \in DOMAIN wire : wire[i].cmd # "START"
    /\ station_seq' = station_seq + 1
    /\ pos' = 0
    /\ UNCHANGED <<granted, wire, latchVars, missionVars, countVars, redVars,
                   driveVars>>

-----------------------------------------------------------------------------
(***************************************************************************)
(* The robot's inputs.                                                     *)
(***************************************************************************)

\* set_plan with a new number: the mission starts over.
SetPlan(q) ==
    /\ q # seq
    /\ seq' = q
    /\ clear_until' = 0
    /\ maneuver' = NoManeuver /\ finished' = FALSE /\ junction_passed' = FALSE
    /\ arrived' = FALSE /\ arrive_on_obstacle' = FALSE
    /\ stop_lines_seen' = 0 /\ stop_line_prev' = FALSE
    /\ since_count' = StopLineGap
    /\ red_pending' = FALSE /\ since_red_stop' = RedLineGap
    /\ fsm' = NewFsm
    /\ UNCHANGED <<started, estop, red_prev, lost_since, rolling, motion>>

PlanArrives ==
    /\ SetPlan(station_seq)
    /\ UNCHANGED <<worldVars, stationVars, wire>>

\* set_plan with the number it has: only the values are taken over.
PlanUpdated ==
    /\ HoldsThePlan /\ ~arrive_on_obstacle
    /\ arrive_on_obstacle' = TRUE
    /\ UNCHANGED <<worldVars, stationVars, wire, latchVars, seq, maneuver,
                   finished, junction_passed, arrived, countVars, redVars,
                   driveVars>>

MutAnyMission(m) == TRUE    \* mutant: a clearance of any mission counts
Accepted(m) == m.route_seq = seq

\* LinkWatch.accepts_motion_command: a START soon after a silence is refused.
Heeds == IF "silence" \in Allowed THEN BOOLEAN ELSE {TRUE}

\* set_command.  While the robot waits at the line for its clearance, the
\* messages that would interrupt the wait come only if Allowed says so.
CommandArrives ==
    /\ wire # << >>
    /\ LET m == Head(wire)
       IN /\ m.cmd \in {"STOP", "ESTOP"} /\ fsm.state = "JUNCTION_STOP"
               => "halt_at_line" \in Allowed
          /\ clear_until' = IF m.cmd = "CLEARANCE" /\ Accepted(m)
                            THEN m.clear_until ELSE clear_until
          /\ \E heeded \in Heeds :
               started' = \/ m.cmd = "START" /\ heeded
                          \/ started /\ m.cmd \notin {"STOP", "ESTOP"}
          /\ estop' = \/ m.cmd = "ESTOP"
                      \/ estop /\ m.cmd # "RESUME"
    /\ wire' = Tail(wire)
    /\ UNCHANGED <<worldVars, stationVars, missionVars, countVars, redVars,
                   driveVars>>

-----------------------------------------------------------------------------
(***************************************************************************)
(* The control tick.                                                       *)
(***************************************************************************)

\* What the sensors may say on a tick, besides what the place shows.  The lane
\* is seen whole, in part (one line, or its middle remembered) or not at all.
Clear ==
    [obstacle |-> FALSE, barricade |-> FALSE, silent |-> FALSE,
     lane |-> "both", flicker |-> FALSE]

View(d) ==
    CASE d = "obstacle" -> [Clear EXCEPT !.obstacle = TRUE]
      [] d = "barricade" -> [Clear EXCEPT !.barricade = TRUE]
      [] d = "silence" -> [Clear EXCEPT !.silent = TRUE]
      [] d = "partial" -> [Clear EXCEPT !.lane = "partial"]
      [] d = "blind" -> [Clear EXCEPT !.lane = "none"]
      [] d = "flicker" -> [Clear EXCEPT !.flicker = TRUE]

Views == {Clear} \cup {View(d) : d \in Allowed \cap SensorDisturbances}

SeesRed == pos \in RedAt
LaneVisible(view) == view.lane # "none"

\* _count_stop_lines: a rising edge, far enough from the last one counted.
Armed == junction_passed /\ ~arrived /\ Plan.stop_line_count > 0
SeesWhite(view) == pos \in WhiteAt /\ ~view.flicker
MutEveryEdge == TRUE    \* mutant: no minimum gap between two lines
FarFromLast == since_count >= StopLineGap
CountsLine(view) == Armed /\ SeesWhite(view) /\ ~stop_line_prev /\ FarFromLast

ByLines == MissionOpen /\ Plan.stop_line_count > 0
LinesSeen(view) ==
    IF ByLines /\ CountsLine(view) THEN stop_lines_seen + 1 ELSE stop_lines_seen

\* _check_arrival: the lines, the goal marker (or an obstacle just before
\* it), or the robot in front that is there already.
AtMarker(view) ==
    /\ ~view.silent
    /\ pos \in MarkerAt \/ (view.obstacle /\ pos \in NearMarkerAt)

ArrivedNow(view) ==
    \/ arrived
    \/ MissionOpen
       /\ \/ ByLines /\ CountsLine(view)
               /\ LinesSeen(view) >= Plan.stop_line_count
          \/ ~ByLines /\ AtMarker(view)
          \/ junction_passed /\ view.obstacle /\ arrive_on_obstacle

\* _red_line_event: the edge of a red line that is not the junction's
\* entrance; one seen during the manoeuvre waits for its end.
RedEdge ==
    /\ SeesRed /\ ~red_prev
    /\ ~MissionOpen \/ junction_passed \/ ManeuverActive
RedWaits == red_pending \/ RedEdge
RedDue == RedWaits /\ ~ManeuverActive /\ ~finished
RedLineEvent == RedDue /\ since_red_stop >= RedLineGap

\* _tick_lane_only: what the state machine is told.
JunctionTrigger ==
    MissionOpen /\ SeesRed /\ ~junction_passed /\ maneuver = NoManeuver
JunctionClear ==
    MissionOpen => Plan.skip_clearance \/ clear_until >= 1

Observed(view) ==
    [started |-> started, estop |-> estop, link_ok |-> ~view.silent,
     path_ok |-> ~view.silent, obstacle |-> view.obstacle,
     at_clearance |-> FALSE, crosswalk_trigger |-> pos \in CrosswalkAt,
     barricade |-> view.barricade, junction_trigger |-> JunctionTrigger,
     junction_clear |-> JunctionClear, red_line_event |-> RedLineEvent,
     maneuver_active |-> ManeuverActive, maneuver_finished |-> finished,
     lane_visible |-> LaneVisible(view), lane_both |-> view.lane = "both",
     arrived |-> ArrivedNow(view)]

\* What the driver makes of the machine's decision.
Blind(out, view) == out.speed # "halt" /\ ~LaneVisible(view)
LostFor == Min({lost_since + 1, LaneLostCoast + 1})
MutStartsOver ==        \* mutant: an interruption starts the plan over
    IF maneuver = NoManeuver \/ motion # "maneuver" THEN ManeuverLength ELSE maneuver
LeftToDrive == IF maneuver = NoManeuver THEN ManeuverLength ELSE maneuver

MotionOf(out, view) ==
    CASE out.fsm.state = "LANE_SEARCH" ->
           IF out.fsm.searchFailed THEN "halt" ELSE "rotate"
      [] MissionOpen /\ out.fsm.state = "JUNCTION_PASS" /\ ~junction_passed ->
           "maneuver"
      [] OTHER ->
           IF out.speed = "halt" \/ (Blind(out, view) /\ LostFor > LaneLostCoast)
           THEN "halt"
           ELSE IF Blind(out, view) THEN "coast" ELSE "lane"

\* How far the wheels take it when they could take it a whole unit.
Moves(m) ==
    /\ pos < LastPos
    /\ \/ m = "lane"
       \/ m = "coast" /\ rolling
       \/ m = "maneuver" /\ LeftToDrive > 0

\* tick.  The manoeuvre is over on the tick that finds nothing left of it.
Tick(view, pace) ==
    \E out \in {Step(fsm, Observed(view))} :
    LET m == MotionOf(out, view)
        d == IF Moves(m) THEN pace ELSE 0
        done == m = "maneuver" /\ LeftToDrive = 0
    IN /\ pos' = pos + d
       /\ fsm' = Travelled(out.fsm, d)
       /\ motion' = IF done THEN "halt" ELSE m
       /\ maneuver' = IF m = "maneuver" THEN LeftToDrive - d ELSE maneuver
       /\ junction_passed' = (junction_passed \/ done)
       /\ finished' = done
       /\ arrived' = ArrivedNow(view)
       /\ stop_lines_seen' = LinesSeen(view)
       /\ stop_line_prev' = IF ByLines /\ ~arrived THEN SeesWhite(view)
                            ELSE stop_line_prev
       /\ since_count' = IF ByLines /\ CountsLine(view) THEN d
                         ELSE Min({since_count + d, StopLineGap})
       /\ red_prev' = SeesRed
       /\ red_pending' = (RedWaits /\ ~RedDue)
       /\ since_red_stop' = IF RedLineEvent THEN d
                            ELSE Min({since_red_stop + d, RedLineGap})
       /\ lost_since' = IF m # "maneuver" /\ Blind(out, view) THEN LostFor
                        ELSE Unset
       /\ rolling' = \/ m = "lane"
                     \/ m = "coast" /\ rolling

\* The disturbances while the robot stands at the line without having been
\* let through happen only if Allowed says so.
Interrupts(view) == view.obstacle \/ view.barricade \/ view.silent

ControlTick(view, pace) ==
    /\ Interrupts(view) /\ fsm.state = "JUNCTION_STOP"
         => "halt_at_line" \in Allowed
    /\ Tick(view, pace)
    /\ UNCHANGED <<stationVars, wire, latchVars, seq, arrive_on_obstacle>>

Next ==
    \/ \E c \in Commands : Send(c)
    \/ Grant
    \/ NewScenario
    \/ PlanArrives
    \/ PlanUpdated
    \/ CommandArrives
    \/ \E view \in Views, pace \in 0..1 : ControlTick(view, pace)

Spec == Init /\ [][Next]_vars

(***************************************************************************)
(* Liveness.  Messages and plans sent arrive (reliable topics), the        *)
(* operator restarts a robot that was stopped, and a robot that may drive  *)
(* gets undisturbed ticks again and again: the control timer runs at 20 Hz *)
(* and no obstacle or silence is there on every tick.                      *)
(***************************************************************************)
UndisturbedTick == started /\ ~estop /\ ControlTick(Clear, 1)

Fairness ==
    /\ WF_vars(PlanArrives)
    /\ WF_vars(CommandArrives)
    /\ SF_vars(Send("START"))
    /\ SF_vars(UndisturbedTick)

FairSpec == Spec /\ Fairness

-----------------------------------------------------------------------------
(***************************************************************************)
(* Properties.                                                             *)
(***************************************************************************)
Permitted == MissionOpen /\ (Plan.skip_clearance \/ seq \in granted)

\* The robot crosses the line into the junction only on the fixed manoeuvre
\* of its plan and only when the station has let this very mission through:
\* not on a clearance of an earlier mission that arrives late, not by
\* following the lane (drive_fsm.py:16-18, lane_driver.py set_plan).
EntersWithPermission ==
    [][(pos <= Line /\ pos' > Line) => motion' = "maneuver" /\ Permitted]_vars

\* Obstacles, silences and stops lose nothing of the manoeuvre and repeat
\* nothing of it: while it lasts, the robot stands exactly as far beyond the
\* line as has been driven off the plan, and it counts as passed only on the
\* far side (maneuver.py: what is left is continued).
ManeuverTracksGround ==
    HoldsThePlan =>
        /\ ManeuverActive => pos = Line + ManeuverLength - maneuver
        /\ junction_passed => pos >= Line + ManeuverLength

\* No white line is counted twice, however its detection flickers and
\* wherever the robot stops: the count never exceeds the lines it has come
\* to (lane_driver.py _count_stop_lines).
CountedOnce ==
    HoldsThePlan =>
        stop_lines_seen <= Cardinality({p \in WhiteAt : p <= pos})

\* A manoeuvre that was begun comes to its end, whatever interrupts it,
\* unless an emergency stop is pressed.
ManeuverEnds == ManeuverActive ~> (~ManeuverActive \/ estop)
=============================================================================
