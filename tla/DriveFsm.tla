------------------------------ MODULE DriveFsm ------------------------------
(***************************************************************************)
(* The robot's drive state machine (pinky_fleet_agent/drive_fsm.py): the   *)
(* only place that decides whether the wheels turn.  DriveFsm.step is a    *)
(* pure function of the machine's memory and of one tick's observations,   *)
(* and that is what Step is here; the drivers that call it own the memory. *)
(*                                                                         *)
(* Time is counted in control ticks and travel in distance units.  Instead *)
(* of the instants and odometer readings the code stores, the memory holds *)
(* how long ago they were, saturated at the largest threshold any rule     *)
(* compares them with.  Unset stands for None.                             *)
(***************************************************************************)
EXTENDS Integers, FiniteSetsExt

CONSTANTS
    CrosswalkStop,      \* crosswalk_stop_seconds
    CrosswalkRelatch,   \* crosswalk_relatch_distance
    SearchAfter,        \* search_after
    SearchOnSingle,     \* search_on_single
    SearchConfirm,      \* search_confirm_seconds
    SearchMax,          \* search_max_seconds
    JunctionStop,       \* junction_stop_seconds
    ExitConfirm,        \* junction_exit_confirm
    JunctionRelatch,    \* junction_relatch_distance
    RedLineStop         \* red_line_stop_seconds

TickThresholds ==
    {CrosswalkStop, SearchAfter, SearchConfirm, SearchMax, JunctionStop,
     ExitConfirm, RedLineStop}

ASSUME FsmAssumption ==
    /\ TickThresholds \subseteq Nat \ {0}
    /\ {CrosswalkRelatch, JunctionRelatch} \subseteq Nat \ {0}
    /\ SearchOnSingle \in BOOLEAN

Unset == -1
AgeMax == Max(TickThresholds)
GoneMax == Max({CrosswalkRelatch, JunctionRelatch})
Timers == {Unset} \cup 0..AgeMax

States ==
    {"IDLE", "CRUISE", "WAIT_CLEARANCE", "CROSSWALK_STOP", "CROSSWALK_CLEAR",
     "OBSTACLE_WAIT", "LANE_LOST", "ARRIVED", "ESTOP", "LINK_LOST",
     "BARRICADE_WAIT", "LANE_SEARCH", "JUNCTION_STOP", "JUNCTION_PASS",
     "RED_LINE_STOP"}

Fsm ==
    [state : States, age : 0..AgeMax, gone : 0..GoneMax,
     sinceStop : 0..JunctionRelatch, nonBoth : Timers, both : Timers,
     exitBoth : Timers, searchFailed : BOOLEAN]

\* A machine as constructed: no junction stop yet counts as one long ago.
NewFsm ==
    [state |-> "IDLE", age |-> 0, gone |-> 0, sinceStop |-> JunctionRelatch,
     nonBoth |-> Unset, both |-> Unset, exitBoth |-> Unset,
     searchFailed |-> FALSE]

Older(t) == IF t = Unset THEN Unset ELSE Min({t + 1, AgeMax})

\* One tick later, before the rules look at it.
Aged(m) ==
    [m EXCEPT !.age = Min({m.age + 1, AgeMax}), !.nonBoth = Older(m.nonBoth),
              !.both = Older(m.both), !.exitBoth = Older(m.exitBoth)]

\* The odometer moved on by d units after the tick.
Travelled(m, d) ==
    [m EXCEPT !.gone = Min({m.gone + d, GoneMax}),
              !.sinceStop = Min({m.sinceStop + d, JunctionRelatch})]

\* _enter: entry time and travel restart only when the state changes.
Enter(m, s) ==
    IF m.state = s THEN m ELSE [m EXCEPT !.state = s, !.age = 0, !.gone = 0]

-----------------------------------------------------------------------------
(***************************************************************************)
(* What the memory has become when the rules further down see it: a stop   *)
(* whose time is up is left on the way, and the search goes on below.      *)
(***************************************************************************)
PastCrosswalk(m) ==
    IF m.state = "CROSSWALK_STOP" THEN Enter(m, "CROSSWALK_CLEAR") ELSE m

PastRedLine(m) == IF m.state = "RED_LINE_STOP" THEN Enter(m, "CRUISE") ELSE m

PastJunctionStop(m) ==
    IF m.state = "JUNCTION_STOP"
    THEN [Enter(m, "JUNCTION_PASS") EXCEPT !.exitBoth = Unset] ELSE m

\* In JUNCTION_PASS: since when the pair of lane lines is back in sight.
WatchExit(m, in) ==
    IF m.state # "JUNCTION_PASS" THEN m
    ELSE [m EXCEPT !.exitBoth =
            IF in.junction_trigger \/ ~in.lane_both THEN Unset
            ELSE Max({m.exitBoth, 0})]

PastJunction(m) ==
    IF m.state = "JUNCTION_PASS" THEN Enter(m, "LANE_LOST") ELSE m

WatchLane(m, in) ==
    [m EXCEPT !.both = IF in.lane_both THEN Max({m.both, 0}) ELSE Unset,
              !.nonBoth = IF in.lane_both THEN Unset ELSE Max({m.nonBoth, 0})]

\* The conditions that stop the robot whatever it is doing, in code order.
Stopping(in) ==
    << <<in.estop, "ESTOP">>,
       <<~in.started, "IDLE">>,
       <<~in.link_ok \/ ~in.path_ok, "LINK_LOST">>,
       <<in.arrived, "ARRIVED">>,
       <<in.obstacle, "OBSTACLE_WAIT">>,
       <<in.barricade, "BARRICADE_WAIT">> >>

StopReasons(in) == {i \in DOMAIN Stopping(in) : Stopping(in)[i][1]}

Decide(memory, speed) == [fsm |-> memory, speed |-> speed]

(***************************************************************************)
(* step: the rules in the order of the code.  Each group decides, or hands *)
(* the memory on to the next.                                              *)
(***************************************************************************)

\* Nothing to hold it: the lane, or the search for it.
LaneRules(m, in) ==
    LET l == WatchLane(m, in)
    IN  IF l.state = "LANE_SEARCH" /\ l.both >= SearchConfirm
        THEN Decide([Enter(l, "CRUISE") EXCEPT !.searchFailed = FALSE], "full")
        ELSE IF l.state = "LANE_SEARCH"
        THEN Decide([l EXCEPT !.searchFailed = @ \/ l.age >= SearchMax], "halt")
        ELSE IF l.nonBoth >= SearchAfter /\ (SearchOnSingle \/ ~in.lane_visible)
        THEN Decide([Enter(l, "LANE_SEARCH") EXCEPT !.searchFailed = FALSE], "halt")
        ELSE IF ~in.lane_visible
        THEN Decide(Enter(l, "LANE_LOST"), "slow")
        ELSE Decide(Enter(l, "CRUISE"), "full")

\* The stop at the junction lasts its time, and then until the clearance.
JunctionHolds(m, in) ==
    m.state = "JUNCTION_STOP" /\ (m.age < JunctionStop \/ ~in.junction_clear)

JunctionSeen(m, in) == in.junction_trigger /\ m.sinceStop >= JunctionRelatch

JunctionRules(m, in) ==
    LET p == WatchExit(PastJunctionStop(m), in)
        j == PastJunction(p)
    IN  IF JunctionHolds(m, in) THEN Decide(m, "halt")
        ELSE IF p.state = "JUNCTION_PASS" /\ p.exitBoth >= ExitConfirm
        THEN Decide(Enter(p, "CRUISE"), "full")
        ELSE IF /\ p.state = "JUNCTION_PASS"
                /\ in.junction_trigger \/ p.gone < JunctionRelatch
        THEN Decide(p, "slow")
        ELSE IF JunctionSeen(j, in)
        THEN Decide([Enter(j, "JUNCTION_STOP") EXCEPT !.sinceStop = 0], "halt")
        ELSE LaneRules(j, in)

\* The fixed manoeuvre of a vision mission, and what follows its end.
ManeuverRules(m, in) ==
    LET done == [m EXCEPT !.sinceStop = 0, !.exitBoth = Unset]
        search == [done EXCEPT !.searchFailed = FALSE, !.both = Unset,
                               !.nonBoth = SearchAfter]
    IN  IF in.maneuver_active THEN Decide(Enter(m, "JUNCTION_PASS"), "full")
        ELSE IF ~in.maneuver_finished THEN JunctionRules(m, in)
        ELSE IF in.lane_both THEN Decide(Enter(done, "CRUISE"), "full")
        ELSE Decide(Enter(search, "LANE_SEARCH"), "halt")

\* Every red line stops the robot once.
RedLineRules(m, in) ==
    IF m.state = "RED_LINE_STOP" /\ m.age < RedLineStop THEN Decide(m, "halt")
    ELSE IF in.red_line_event /\ ~in.maneuver_active
    THEN Decide(Enter(PastRedLine(m), "RED_LINE_STOP"), "halt")
    ELSE ManeuverRules(PastRedLine(m), in)

\* The crosswalk, kept apart by distance, and the edge of the reservation.
RelatchBlocked(m) == m.state = "CROSSWALK_CLEAR" /\ m.gone < CrosswalkRelatch

CrosswalkRules(m, in) ==
    LET c == PastCrosswalk(m)
    IN  IF m.state = "CROSSWALK_STOP" /\ m.age < CrosswalkStop
        THEN Decide(m, "halt")
        ELSE IF in.at_clearance /\ c.state # "JUNCTION_STOP"
        THEN Decide(Enter(c, "WAIT_CLEARANCE"), "halt")
        ELSE IF RelatchBlocked(c) THEN Decide(c, "full")
        ELSE IF in.crosswalk_trigger THEN Decide(Enter(c, "CROSSWALK_STOP"), "halt")
        ELSE RedLineRules(c, in)

Step(memory, in) ==
    LET m == Aged(memory)
        stops == StopReasons(in)
    IN  IF stops # {} THEN Decide(Enter(m, Stopping(in)[Min(stops)][2]), "halt")
        ELSE CrosswalkRules(m, in)
=============================================================================
