---------------------------- MODULE FleetControl ----------------------------
(***************************************************************************)
(* The control plane of the fleet coordinator                              *)
(* (relay_station/fleet/fleet_coordinator.py): starting, stopping and      *)
(* emergency-stopping the fleet, holding one robot, the retries that make  *)
(* START and RESUME arrive, what a restart of the process remembers, and   *)
(* the agents at the other end of topics that delay and lose.              *)
(*                                                                         *)
(* Which permission a robot gets is the business of Reservation: here it   *)
(* is 1 (go) or 0 (stay).  Instants are not modelled; wherever the code    *)
(* compares the time with a limit, the step may find the limit passed or   *)
(* not.  The agents: lane robots are lane_driver.py, Nav2 robots the       *)
(* external route chain as the coordinator's code describes it.            *)
(***************************************************************************)
EXTENDS Integers, Sequences

CONSTANTS
    None, Corrupt,  \* no value; a file that cannot be read
    Robots,
    Nav2,           \* the robots with drive_mode nav2; the others are lane robots
    StartRetries,   \* start_retry_max
    MaxSeq,         \* bound on route numbers
    MaxPresses,     \* bound on what the operator does
    MaxFaults,      \* bound on restarts, of the coordinator or of an agent
    MaxEvents,      \* bound on both together
    DiesInEstop,    \* may the process die between sending and saving an E-stop?
    Boots           \* which robots the mission file may find routes for

ASSUME ControlAssumption ==
    /\ Nav2 \subseteq Robots
    /\ {StartRetries, MaxSeq} \subseteq Nat \ {0}
    /\ {MaxPresses, MaxFaults, MaxEvents} \subseteq Nat
    /\ DiesInEstop \in BOOLEAN
    /\ Boots \subseteq SUBSET Robots

Missions == {"IDLE", "ASSIGNED", "RUNNING", "STOPPED", "ESTOP", "DONE"}
DriveStates == {"IDLE", "CRUISE", "WAIT_CLEARANCE", "ARRIVED", "ESTOP", "LINK_LOST"}
\* held_reason; "none" is the empty string of a robot that is not held.
HeldReasons == {"none", "operator", "estop", "link"}

\* LaneStatus; why: its state_reason is one of STOP_ACK_REASONS.
Reports == [state : DriveStates, seq : 0..MaxSeq, why : BOOLEAN]
NoReport == [state |-> "IDLE", seq |-> 0, why |-> FALSE]

Lane(c, s) == [cmd |-> c, seq |-> s, clear |-> 0]
Clearance(s, n) == [cmd |-> "CLEARANCE", seq |-> s, clear |-> n]

VARIABLES
    up,         \* the coordinator process runs
    fl,         \* its mission state and latch
    ctx,        \* its FleetRobotContext of every robot
    file,       \* fleet_control.json
    route,      \* the Route that waits in the latched topic, 0 for none
    rep,        \* the LaneStatus under way
    bot,        \* the agents
    word,       \* what the operator last asked of the fleet ...
    kept,       \* ... and the robots the operator keeps stopped
    presses, faults

coordinator == <<up, fl, ctx, file>>
wires == <<route, rep>>
operator == <<word, kept, presses>>
vars == <<coordinator, wires, bot, operator, faults>>

Snapshots ==
    [latched : BOOLEAN, preEstop : Missions \cup {None},
     mission : {None, "STOPPED", "DONE"}, preStop : Missions \cup {None},
     held : [Robots -> HeldReasons]]

Fleets ==
    [mission : Missions, latched : BOOLEAN, authority : BOOLEAN,
     preEstop : Missions \cup {None}, preStop : Missions \cup {None}]

Contexts ==
    [seq : 0..MaxSeq, routed : BOOLEAN, clear : 0..1,
     acked : BOOLEAN, armed : BOOLEAN, gaveUp : BOOLEAN, retries : 0..StartRetries,
     held : BOOLEAN, reason : HeldReasons,
     resuming : BOOLEAN,    \* resume_retry_until is set
     heard : BOOLEAN,       \* a report came after the operator's resume
     toStart : BOOLEAN,     \* resume_start_until is set
     released : BOOLEAN,    \* link_lost_released_at is set
     navLost : BOOLEAN,     \* nav_link_lost_since is set
     last : Reports, arrived : BOOLEAN, confirmed : BOOLEAN, zone : BOOLEAN]

Agents ==
    [seq : 0..MaxSeq, started : BOOLEAN, stopped : BOOLEAN, estop : BOOLEAN,
     lost : BOOLEAN, clear : 0..1, home : BOOLEAN]

ASSUME NoValueAssumption ==
    /\ None # Corrupt
    /\ \A v \in {None, Corrupt} :
          /\ v \notin Missions \cup {"STOP", "RESUME", "CANCEL"}
          /\ v \notin Snapshots /\ v \notin Reports

TypeOK ==
    /\ up \in BOOLEAN /\ fl \in Fleets /\ ctx \in [Robots -> Contexts]
    /\ file \in Snapshots \cup {None, Corrupt}
    /\ route \in [Robots -> 0..MaxSeq]
    /\ rep \in [Robots -> Reports \cup {None}]
    /\ bot \in [Robots -> Agents]
    /\ word \in {"none", "go", "stop", "estop"} /\ kept \subseteq Robots
    /\ presses \in 0..MaxPresses /\ faults \in 0..MaxFaults

-----------------------------------------------------------------------------
\* What is kept of the memory (_control_snapshot): stops, never RUNNING.
Snapshot(f, x) ==
    [latched |-> f.latched \/ f.mission = "ESTOP", preEstop |-> f.preEstop,
     mission |-> IF f.mission \in {"STOPPED", "DONE"} THEN f.mission ELSE None,
     preStop |-> f.preStop,
     held |-> [r \in Robots |->
        IF ~x[r].held THEN "none" ELSE IF x[r].reason = "none" THEN "operator" ELSE x[r].reason]]

NothingToSave ==
    [latched |-> FALSE, preEstop |-> None, mission |-> None, preStop |-> None,
     held |-> [r \in Robots |-> "none"]]

\* _save_control_state: written when it differs from what was written last.
Saved(f, x) ==
    IF file = None /\ Snapshot(f, x) = NothingToSave THEN None ELSE Snapshot(f, x)

Routed(r) == ctx[r].routed
Nav(r) == r \in Nav2

NewContext ==
    [seq |-> 0, routed |-> FALSE, clear |-> 0, acked |-> FALSE, armed |-> FALSE,
     gaveUp |-> FALSE, retries |-> 0, held |-> FALSE, reason |-> "none",
     resuming |-> FALSE, heard |-> FALSE, toStart |-> FALSE, released |-> FALSE,
     navLost |-> FALSE, last |-> NoReport, arrived |-> FALSE, confirmed |-> FALSE,
     zone |-> FALSE]

\* A route is assigned: number, arrival and START begin anew.
Assigned(x, s) ==
    [x EXCEPT !.seq = s, !.routed = TRUE, !.clear = 0, !.arrived = FALSE,
              !.confirmed = FALSE, !.acked = FALSE, !.armed = FALSE,
              !.gaveUp = FALSE, !.retries = 0]

\* _arm_start
Armed(x) ==
    [x EXCEPT !.acked = FALSE, !.gaveUp = FALSE, !.armed = TRUE, !.retries = StartRetries]

(***************************************************************************)
(* The agents, as far as commands change them.                             *)
(***************************************************************************)
\* LaneDriver.set_command: STOP forgets the START, and START asks for no route.
LaneObeys(b, m) ==
    CASE m.cmd = "START" -> [b EXCEPT !.started = TRUE]
      [] m.cmd = "STOP" -> [b EXCEPT !.started = FALSE]
      [] m.cmd = "ESTOP" -> [b EXCEPT !.estop = TRUE, !.started = FALSE]
      [] m.cmd = "RESUME" -> [b EXCEPT !.estop = FALSE]
      [] m.cmd = "CLEARANCE" -> [b EXCEPT !.clear = IF m.seq = b.seq THEN m.clear ELSE @]

\* The Nav2 route chain: STOP latches, START undoes that latch, RESUME every latch.
ChainObeys(b, m) ==
    CASE m.cmd = "START" -> IF m.seq = b.seq /\ b.seq # 0
                            THEN [b EXCEPT !.started = TRUE, !.stopped = FALSE] ELSE b
      [] m.cmd = "STOP" -> [b EXCEPT !.stopped = TRUE]
      [] m.cmd = "ESTOP" -> [b EXCEPT !.estop = TRUE]
      [] m.cmd = "RESUME" -> [b EXCEPT !.stopped = FALSE, !.estop = FALSE, !.lost = FALSE]
      [] m.cmd = "CLEARANCE" -> [b EXCEPT !.clear = IF m.seq = b.seq THEN m.clear ELSE @]

\* _on_fleet_command: STOP and CANCEL stop, RESUME undoes a stop (a lane robot's E-stop too).
FleetObeys(r, b, c) ==
    CASE c = None -> b
      [] c # None /\ Nav(r) -> [b EXCEPT !.stopped = c # "RESUME"]
      [] c = "RESUME" /\ ~Nav(r) -> [b EXCEPT !.estop = FALSE]
      [] OTHER -> [b EXCEPT !.started = FALSE]

Obey(r, b, m) == IF Nav(r) THEN ChainObeys(b, m) ELSE LaneObeys(b, m)
Obeyed(r, b, q) ==
    LET after[n \in 0..Len(q)] == IF n = 0 THEN b ELSE Obey(r, after[n - 1], q[n])
    IN after[Len(q)]

\* What becomes of an agent to which LaneCommands q and FleetCommand c are sent.  The two
\* topics have no order between them; one keeps its order and may lose what came first.
Told(r, q, c) ==
    {Obeyed(r, FleetObeys(r, bot[r], c), q)}
      \cup (IF c = None THEN {} ELSE {FleetObeys(r, Obeyed(r, bot[r], q), c)})
Heard(r, q, c) ==
    UNION {Told(r, SubSeq(q, k, Len(q)), d) : k \in 1..(Len(q) + 1), d \in {None, c}}

\* What a handler publishes: LaneCommands l[r] in order, FleetCommand c[r] or None;
\* over topics that lose some, or a time when they lose none.
PublishTo(l, c, lossy) ==
    \E after \in {[r \in Robots |-> IF lossy THEN Heard(r, l[r], c[r]) ELSE Told(r, l[r], c[r])]} :
        bot' \in {b \in [Robots -> UNION {after[r] : r \in Robots}] :
                    \A r \in Robots : b[r] \in after[r]}
Publish(l, c) == PublishTo(l, c, TRUE)

Silent == [r \in Robots |-> <<>>]
NoCommand == [r \in Robots |-> None]
Only(r, q) == [Silent EXCEPT ![r] = q]
OnlyCommand(r, c) == [NoCommand EXCEPT ![r] = c]

Hold(r) == Lane("STOP", ctx[r].seq)

Room == presses + faults < MaxEvents
Press == up /\ Room /\ presses < MaxPresses /\ presses' = presses + 1

-----------------------------------------------------------------------------
(***************************************************************************)
(* The operator's orders to the fleet.                                     *)
(***************************************************************************)
StartFleet ==
    LET f == [fl EXCEPT !.mission = "RUNNING"]
        x == [r \in Robots |-> IF Routed(r) THEN Armed(ctx[r]) ELSE ctx[r]]
    IN /\ Press
       /\ ~fl.latched
       /\ fl' = f /\ ctx' = x /\ file' = Saved(f, x)
       /\ Publish([r \in Robots |-> IF Routed(r) /\ ~ctx[r].held
                                    THEN <<Lane("START", ctx[r].seq)>> ELSE <<>>],
                  [r \in Robots |-> IF ~Routed(r) /\ ~ctx[r].held /\ Nav(r)
                                    THEN "RESUME" ELSE None])
       /\ word' = "go"
       /\ UNCHANGED <<up, wires, kept, faults>>

Stopped ==
    [fl EXCEPT !.preStop = IF fl.mission = "STOPPED" THEN @ ELSE fl.mission,
               !.mission = "STOPPED"]

StopFleet ==
    /\ Press
    /\ ~fl.latched
    /\ fl' = Stopped /\ file' = Saved(Stopped, ctx)
    /\ Publish([r \in Robots |-> IF Routed(r) THEN <<Hold(r)>> ELSE <<>>], NoCommand)
    /\ word' = "stop"
    /\ UNCHANGED <<up, wires, ctx, kept, faults>>

Estopped ==
    [fl EXCEPT !.preEstop = IF fl.mission = "ESTOP" THEN @ ELSE fl.mission,
               !.mission = "ESTOP", !.latched = TRUE, !.authority = TRUE]

EstopAll == Publish([r \in Robots |-> <<Lane("ESTOP", 0)>>], NoCommand)

EstopFleet ==
    /\ Press
    /\ fl' = Estopped /\ EstopAll /\ file' = Saved(Estopped, ctx)
    /\ word' = "estop"
    /\ UNCHANGED <<up, wires, ctx, kept, faults>>

\* Where a resume goes back to; what has not run does not start by it.
ResumedMission ==
    LET before == IF fl.mission = "ESTOP" THEN fl.preEstop ELSE fl.mission
        back == IF before = "STOPPED" THEN fl.preStop ELSE before
    IN CASE back \in {"RUNNING", "IDLE", "ASSIGNED", "DONE"} -> back
         [] back \notin {"RUNNING", "IDLE", "ASSIGNED", "DONE"} ->
              IF \E r \in Robots : Routed(r) THEN "ASSIGNED" ELSE "IDLE"

ResumeFleet ==
    LET f == [mission |-> ResumedMission, latched |-> FALSE, authority |-> TRUE,
              preEstop |-> None, preStop |-> None]
        again == {r \in Robots : /\ f.mission = "RUNNING" /\ Routed(r)
                                 /\ ~ctx[r].held /\ ~ctx[r].arrived}
    IN /\ Press
       /\ fl' = f /\ file' = Saved(f, ctx)
       /\ ctx' = [r \in Robots |-> IF r \in again THEN Armed(ctx[r]) ELSE ctx[r]]
       /\ Publish([r \in Robots |-> IF ctx[r].held THEN <<>>
                                    ELSE <<Lane("RESUME", ctx[r].seq)>>], NoCommand)
       /\ word' = "go"
       /\ UNCHANGED <<up, wires, kept, faults>>

-----------------------------------------------------------------------------
(***************************************************************************)
(* One robot stopped and let go.                                           *)
(***************************************************************************)
StopRobot(r) ==
    LET x == [ctx EXCEPT ![r].held = TRUE]
    IN /\ Press
       /\ ctx' = x /\ file' = Saved(fl, x)
       /\ Publish(Only(r, <<Hold(r)>>), OnlyCommand(r, "STOP"))
       /\ kept' = kept \cup {r}
       /\ UNCHANGED <<up, wires, fl, word, faults>>

\* _link_lost_seen
LinkLostSeen(r, x) == Nav(r) /\ (x.last.state = "LINK_LOST" \/ x.navLost)

\* _reports_not_started
ReportsNotStarted(r, x) ==
    Nav(r) /\ x.routed /\ x.acked /\ x.last.seq = x.seq /\ x.last.state = "IDLE"

\* _rearm_start_if_not_started
Rearmed(r, x, f) ==
    IF f.mission = "RUNNING" /\ ~x.held /\ ~x.arrived /\ ReportsNotStarted(r, x)
    THEN Armed([x EXCEPT !.toStart = FALSE]) ELSE x

\* A slip: only a mission that is done keeps its robots stopped.
MutHaltsDone(f) == f.mission = "DONE"

\* _publish_resume: with the fleet stopped, no permission before it and STOP behind it.
Halts(f) == f.mission \in {"STOPPED", "DONE"}
ResumeMessages(r, f) ==
    IF Halts(f)
    THEN <<Clearance(ctx[r].seq, 0), Lane("RESUME", ctx[r].seq), Hold(r)>>
    ELSE <<Lane("RESUME", ctx[r].seq)>>
ResumeCommand(f) == IF Halts(f) THEN "STOP" ELSE "RESUME"

ResumeRobot(r) ==
    LET latched == \/ ctx[r].reason \in {"link", "estop"}
                   \/ LinkLostSeen(r, ctx[r]) \/ ctx[r].last.state = "ESTOP"
        sends == latched \/ ~Halts(fl)
        freed == [ctx[r] EXCEPT !.held = FALSE, !.reason = "none"]
        armed == IF fl.mission = "RUNNING"
                 THEN Rearmed(r, [freed EXCEPT !.toStart = TRUE], fl) ELSE freed
        x == [ctx EXCEPT ![r] =
                IF sends THEN [armed EXCEPT !.released = TRUE, !.resuming = TRUE, !.heard = FALSE]
                ELSE armed]
    IN /\ Press
       /\ fl.mission # "ESTOP" /\ ~fl.latched
       /\ ctx' = x /\ file' = Saved(fl, x)
       /\ IF sends THEN Publish(Only(r, ResumeMessages(r, fl)), OnlyCommand(r, ResumeCommand(fl)))
          ELSE UNCHANGED bot
       /\ kept' = kept \ {r}
       /\ word' = IF word = "none" THEN "go" ELSE word
       /\ UNCHANGED <<up, wires, fl, faults>>

-----------------------------------------------------------------------------
(***************************************************************************)
(* Missions.                                                               *)
(***************************************************************************)
AssignRoute(r) ==
    LET s == ctx[r].seq + 1
        x == Assigned([ctx[r] EXCEPT !.zone = FALSE], s)
    IN /\ Press
       /\ s <= MaxSeq
       /\ ctx' = [ctx EXCEPT ![r] = IF fl.mission = "RUNNING" THEN Armed(x) ELSE x]
       /\ fl' = [fl EXCEPT !.mission = IF @ = "IDLE" THEN "ASSIGNED" ELSE @]
       /\ route' = [route EXCEPT ![r] = s]
       /\ UNCHANGED <<up, file, rep, bot, word, kept, faults>>

\* profile_switch_blocker
MayMove ==
    /\ ~fl.latched /\ fl.mission \in {"IDLE", "ASSIGNED", "DONE"}
    /\ \A r \in Robots : ctx[r].last.state # "CRUISE"

\* switch_profile, with the robots of the new mission that find a route.
SwitchProfile(found) ==
    LET blank(r) == [ctx[r] EXCEPT !.routed = FALSE, !.clear = 0, !.arrived = FALSE,
                        !.confirmed = FALSE, !.acked = FALSE, !.gaveUp = FALSE,
                        !.armed = FALSE, !.retries = 0, !.zone = FALSE]
        x == [r \in Robots |-> IF r \in found THEN Assigned(blank(r), ctx[r].seq + 1)
                               ELSE blank(r)]
        f == [fl EXCEPT !.mission = "IDLE", !.preEstop = None, !.preStop = None]
    IN /\ Press
       /\ MayMove
       /\ \A r \in found : ctx[r].seq < MaxSeq
       /\ ctx' = x /\ file' = Saved(f, x)
       /\ fl' = IF found = {} THEN f ELSE [f EXCEPT !.mission = "ASSIGNED"]
       /\ route' = [r \in Robots |-> IF r \in found THEN ctx[r].seq + 1 ELSE route[r]]
       /\ word' = "none"
       /\ UNCHANGED <<up, rep, bot, kept, faults>>

-----------------------------------------------------------------------------
(***************************************************************************)
(* What the robots report.  late: the limit the handler looks at (a        *)
(* grace, a confirmation) has passed; settled: the claim to have arrived   *)
(* has lasted and the confirmed pose is at the goal.                       *)
(***************************************************************************)
\* _check_mission_done
Done(f, x) ==
    LET active == {r \in Robots : x[r].routed}
    IN IF /\ f.mission = "RUNNING" /\ active # {}
          /\ \A r \in active : x[r].arrived /\ x[r].confirmed
       THEN [f EXCEPT !.mission = "DONE"] ELSE f

\* A slip: what was let go once is never held again.
MutLinkHeld(r, x, latched, late) ==
    CASE latched /\ ~x.held /\ ~x.released -> [x EXCEPT !.held = TRUE, !.reason = "link"]
      [] ~latched /\ ~LinkLostSeen(r, x) -> [x EXCEPT !.released = FALSE]
      [] OTHER -> x

\* _apply_link_lost_hold; latched: _link_lost_latched.
LinkHeld(r, x, latched, late) ==
    CASE latched /\ ~x.held /\ (x.released => late) ->
            [x EXCEPT !.held = TRUE, !.reason = "link"]
      [] ~latched /\ ~LinkLostSeen(r, x) -> [x EXCEPT !.released = FALSE]
      [] OTHER -> x

\* A slip: only a coordinator that knows restores.
MutLatchRestored(m) ==
    IF m.state = "ESTOP" /\ ~fl.latched /\ fl.authority
    THEN [fl EXCEPT !.latched = TRUE, !.preEstop = fl.mission, !.mission = "ESTOP"]
    ELSE fl

\* A robot that says ESTOP to a coordinator that knows of none: it was restarted.
LatchRestored(m) ==
    IF m.state = "ESTOP" /\ ~fl.latched /\ ~fl.authority
    THEN [fl EXCEPT !.latched = TRUE, !.preEstop = fl.mission, !.mission = "ESTOP"]
    ELSE fl
HoldRestored(x, m) ==
    IF m.state = "ESTOP" /\ ~fl.authority /\ ~x.held
    THEN [x EXCEPT !.held = TRUE, !.reason = "estop"] ELSE x

Acknowledged(r, x, m, f) ==
    LET stopReason == Nav(r) /\ m.why
    IN CASE /\ m.state \notin {"IDLE", "ESTOP", "LINK_LOST"}
            /\ ~stopReason /\ m.seq = x.seq -> [x EXCEPT !.acked = TRUE]
         [] /\ stopReason /\ x.acked /\ f.mission = "RUNNING" /\ ~x.held
            /\ x.routed /\ m.seq = x.seq -> Armed(x)
         [] OTHER -> x

StartsAgain(r, x, f, late) ==
    CASE x.toStart /\ late -> [x EXCEPT !.toStart = FALSE]
      [] x.toStart /\ ~late -> Rearmed(r, x, f)
      [] OTHER -> x

ArrivedAt(x, m, settled, late) ==
    IF m.state = "ARRIVED" /\ m.seq = x.seq /\ ~x.arrived /\ settled
    THEN [x EXCEPT !.arrived = TRUE, !.confirmed = @ \/ (x.zone /\ ~late)] ELSE x

\* _cb_lane_status
StatusArrives(r, late, settled) ==
    LET m == rep[r]
        f == LatchRestored(m)
        heard == [ctx[r] EXCEPT !.last = m, !.heard = TRUE]
        held == LinkHeld(r, HoldRestored(heard, m),
                         Nav(r) /\ (m.state = "LINK_LOST" \/ (heard.navLost /\ late)), late)
        started == StartsAgain(r, Acknowledged(r, held, m, f), f, late)
        x == [ctx EXCEPT ![r] = ArrivedAt(started, m, settled, late)]
        g == IF x[r].confirmed THEN Done(f, x) ELSE f
    IN /\ up /\ m # None /\ UNCHANGED <<up, route, bot, operator, faults>>
       /\ rep' = [rep EXCEPT ![r] = None]
       /\ fl' = g /\ ctx' = x /\ file' = Saved(g, x)

\* _cb_robot_state: the only voice of a Nav2 agent without a route.
StateArrives(r, late) ==
    LET x == [ctx[r] EXCEPT !.heard = TRUE, !.navLost = bot[r].lost]
        latched == x.last.state = "LINK_LOST" \/ (ctx[r].navLost /\ x.navLost /\ late)
    IN /\ up /\ Nav(r)
       /\ ctx' = [ctx EXCEPT ![r] = LinkHeld(r, x, latched, late)]
       /\ UNCHANGED <<up, fl, file, wires, bot, operator, faults>>

\* _cb_vision_zone_event: the goal zone of this robot, newest of its series.
ZoneArrives(r) ==
    LET x == [ctx EXCEPT ![r].zone = TRUE, ![r].confirmed = @ \/ ctx[r].arrived]
        f == Done(fl, x)
    IN /\ up /\ Routed(r) /\ ~ctx[r].confirmed
       /\ ctx' = x /\ fl' = f /\ file' = Saved(f, x)
       /\ UNCHANGED <<up, wires, bot, operator, faults>>

-----------------------------------------------------------------------------
(***************************************************************************)
(* The ten ticks a second.  time[r]: how the limits of r's retries stand,  *)
(* "due" once the interval, "over" once the whole window has passed.       *)
(***************************************************************************)
\* The permission a robot is granted, for as long as the fleet runs.
Granted(r, granted) ==
    [ctx[r] EXCEPT !.clear =
        CASE fl.mission = "RUNNING" -> IF r \in granted THEN 1 ELSE @
          [] fl.mission \in {"IDLE", "ASSIGNED", "ESTOP"} -> 0
          [] OTHER -> @]

\* _retry_resumes
RetryEnds(r, x, f, time) ==
    \/ time[r] = "over" \/ x.held \/ f.latched \/ f.mission = "ESTOP"
    \/ x.heard /\ ~LinkLostSeen(r, x) /\ x.last.state # "ESTOP"
ResumesAgain(r, x, f, time) == x.resuming /\ ~RetryEnds(r, x, f, time) /\ time[r] = "due"

\* START is owed: it is sent again, or given up when all retries are used.
Unstarted(x, f) == f.mission = "RUNNING" /\ ~x.held /\ x.routed /\ ~x.acked

\* A slip: retries run out without a word.
MutRetriedSilent(r, x, f, time) ==
    [x EXCEPT !.resuming = @ /\ ~RetryEnds(r, x, f, time),
              !.released = @ \/ ResumesAgain(r, x, f, time),
              !.retries = IF Unstarted(x, f) /\ time[r] # "early" /\ @ > 0 THEN @ - 1 ELSE @]

Retried(r, x, f, time) ==
    LET due == Unstarted(x, f) /\ time[r] # "early"
    IN [x EXCEPT
         !.resuming = @ /\ ~RetryEnds(r, x, f, time),
         !.released = @ \/ ResumesAgain(r, x, f, time),
         !.gaveUp = @ \/ (due /\ x.retries = 0 /\ x.armed),
         !.retries = IF due /\ @ > 0 THEN @ - 1 ELSE @]

\* _publish_lane_commands, the LaneCommand half
LaneTold(r, x, f, time) ==
    CASE x.held /\ f.mission # "ESTOP" -> <<Hold(r)>>
      [] f.mission = "ESTOP" -> <<Lane("ESTOP", IF x.routed THEN x.seq ELSE 0)>>
      [] x.held = FALSE /\ x.routed /\ Halts(f) -> <<Hold(r)>>
      [] Unstarted(x, f) /\ time[r] # "early" /\ x.retries > 0 -> <<Lane("START", x.seq)>>
      [] f.mission = "RUNNING" /\ ~x.held /\ x.routed /\ x.acked ->
            <<Clearance(x.seq, x.clear)>>
      [] OTHER -> <<>>

\* ... and the FleetCommand half: lane robots are stopped whenever they have no permission.
FleetTold(r, x, f) ==
    CASE (x.held /\ f.mission # "ESTOP") \/ (~x.held /\ Halts(f)) -> "STOP"
      [] f.mission = "ESTOP" /\ ~Nav(r) -> "CANCEL"
      [] f.mission = "RUNNING" /\ ~x.held /\ ~Nav(r) ->
            IF x.clear = 0 THEN "STOP" ELSE "RESUME"
      [] OTHER -> None

Tick(granted, time, lossy) ==
    LET seen == [r \in Robots |-> Granted(r, granted)]
        f == Done(fl, seen)
        x == [r \in Robots |-> Retried(r, seen[r], f, time)]
        resumed(r) == ResumesAgain(r, seen[r], f, time)
    IN /\ up /\ UNCHANGED <<up, wires, operator, faults>>
       /\ fl' = f /\ ctx' = x /\ file' = Saved(f, seen)
       /\ PublishTo(
                  [r \in Robots |->
                     (IF resumed(r) THEN ResumeMessages(r, f) ELSE <<>>)
                       \o LaneTold(r, seen[r], f, time)],
                  [r \in Robots |->
                     IF resumed(r) /\ FleetTold(r, seen[r], f) = None
                     THEN ResumeCommand(f) ELSE FleetTold(r, seen[r], f)], lossy)

-----------------------------------------------------------------------------
(***************************************************************************)
(* The agents.                                                             *)
(***************************************************************************)
NewAgent ==
    [seq |-> 0, started |-> FALSE, stopped |-> FALSE, estop |-> FALSE,
     lost |-> FALSE, clear |-> 0, home |-> FALSE]

StateOf(b) ==
    CASE b.estop -> "ESTOP"
      [] ~b.estop /\ b.lost -> "LINK_LOST"
      [] ~b.estop /\ ~b.lost /\ (~b.started \/ b.seq = 0) -> "IDLE"
      [] OTHER -> IF b.home THEN "ARRIVED"
                  ELSE IF b.stopped \/ b.clear = 0 THEN "WAIT_CLEARANCE" ELSE "CRUISE"
StatusOf(b) ==
    [state |-> StateOf(b), seq |-> b.seq, why |-> b.stopped /\ StateOf(b) = "WAIT_CLEARANCE"]
Moves(r) == StateOf(bot[r]) = "CRUISE"

\* A Route: a Nav2 agent is back before its start, a lane robot keeps what it was told.
RouteArrives(r) ==
    /\ route[r] # 0
    /\ bot' = [bot EXCEPT ![r].seq = route[r], ![r].clear = 0, ![r].home = FALSE,
                          ![r].started = @ /\ ~Nav(r)]
    /\ route' = [route EXCEPT ![r] = 0]
    /\ UNCHANGED <<coordinator, rep, operator, faults>>

Report(r) ==
    /\ up
    /\ rep' = [rep EXCEPT ![r] = StatusOf(bot[r])]
    /\ UNCHANGED <<coordinator, route, bot, operator, faults>>

Travel(r) ==
    /\ Moves(r)
    /\ bot' = [bot EXCEPT ![r].home = TRUE]
    /\ UNCHANGED <<coordinator, wires, operator, faults>>

-----------------------------------------------------------------------------
(***************************************************************************)
(* What goes wrong.                                                        *)
(***************************************************************************)
Fault == Room /\ faults < MaxFaults /\ faults' = faults + 1

\* The dead man's switch of a Nav2 agent, while nobody sends.
LinkLost(r) ==
    /\ ~up /\ Nav(r) /\ ~bot[r].lost
    /\ bot' = [bot EXCEPT ![r].lost = TRUE]
    /\ UNCHANGED <<coordinator, wires, operator, faults>>

AgentRestarts(r) ==
    /\ Fault
    /\ bot' = [bot EXCEPT ![r] = NewAgent]
    /\ route' = [route EXCEPT ![r] = IF up /\ Routed(r) THEN ctx[r].seq ELSE 0]
    /\ UNCHANGED <<coordinator, rep, operator>>

NewFleet ==
    [mission |-> "IDLE", latched |-> FALSE, authority |-> FALSE,
     preEstop |-> None, preStop |-> None]

\* The memory is gone, and with writer and reader the routes and reports under way.
Dies ==
    /\ up /\ Fault
    /\ up' = FALSE /\ fl' = NewFleet /\ ctx' = [r \in Robots |-> NewContext]
    /\ route' = [r \in Robots |-> 0] /\ rep' = [r \in Robots |-> None]

Crash ==
    Dies /\ UNCHANGED <<file, bot, operator>>

\* Stops are saved before they are sent, and the process dies in between ...
DiesStopping ==
    /\ Dies /\ Press
    /\ \/ ~fl.latched /\ file' = Saved(Stopped, ctx) /\ word' = "stop" /\ UNCHANGED kept
       \/ \E r \in Robots :
            /\ file' = Saved(fl, [ctx EXCEPT ![r].held = TRUE])
            /\ kept' = kept \cup {r}
            /\ UNCHANGED word
    /\ UNCHANGED bot

\* ... an E-stop is sent before it is saved.
DiesEstopping ==
    /\ DiesInEstop
    /\ Dies /\ Press
    /\ EstopAll
    /\ word' = "estop"
    /\ UNCHANGED <<file, kept>>

\* The file is damaged: what was held is remembered nowhere.
FileBreaks ==
    /\ ~up
    /\ file \notin {None, Corrupt}
    /\ file' = Corrupt /\ kept' = {}
    /\ UNCHANGED <<up, fl, ctx, wires, bot, word, presses, faults>>

\* _restore_control_state, with f the fleet that has assigned its routes.
Restored(f) ==
    CASE file = None -> f
      [] file = Corrupt -> [f EXCEPT !.latched = TRUE, !.mission = "ESTOP"]
      [] file \notin {None, Corrupt} ->
            LET keep == {"STOPPED", "DONE"}
                preStop == IF file.preStop = "DONE" THEN "DONE" ELSE None
            IN CASE file.latched ->
                      [mission |-> "ESTOP", latched |-> TRUE, authority |-> TRUE,
                       preEstop |-> IF file.preEstop \in keep THEN file.preEstop ELSE None,
                       preStop |-> preStop]
                 [] ~file.latched /\ file.mission # None ->
                      [f EXCEPT !.mission = file.mission, !.preStop = preStop]
                 [] OTHER -> f

Restart(found) ==
    LET f == Restored([NewFleet EXCEPT !.mission = IF found = {} THEN @ ELSE "ASSIGNED"])
        why(r) == IF file \in {None, Corrupt} THEN "none" ELSE file.held[r]
        x == [r \in Robots |->
                [(IF r \in found THEN Assigned(NewContext, 1) ELSE NewContext) EXCEPT
                    !.held = why(r) # "none", !.reason = why(r)]]
    IN /\ ~up
       /\ up' = TRUE /\ fl' = f /\ ctx' = x
       /\ file' = IF file = Corrupt THEN Snapshot(f, x) ELSE file
       /\ route' = [r \in Robots |-> IF r \in found THEN 1 ELSE 0]
       /\ word' = IF file = Corrupt THEN "estop" ELSE word
       /\ UNCHANGED <<rep, bot, kept, presses, faults>>

-----------------------------------------------------------------------------
Init ==
    /\ up = FALSE /\ fl = NewFleet /\ ctx = [r \in Robots |-> NewContext]
    /\ file = None
    /\ route = [r \in Robots |-> 0]
    /\ rep = [r \in Robots |-> None]
    /\ bot = [r \in Robots |-> NewAgent]
    /\ word = "none" /\ kept = {} /\ presses = 0 /\ faults = 0

Times == [Robots -> {"early", "due", "over"}]

Operator ==
    \/ StartFleet \/ StopFleet \/ EstopFleet \/ ResumeFleet
    \/ \E r \in Robots : StopRobot(r) \/ ResumeRobot(r) \/ AssignRoute(r)
    \/ \E found \in Boots : SwitchProfile(found)

\* A limit is looked at where something waits for it, a claim where one is made.
Claims(r) == rep[r] # None /\ rep[r].state = "ARRIVED"
Waits(r) == ctx[r].navLost \/ ctx[r].released

Messages ==
    \E r \in Robots :
        \/ \E late, settled \in BOOLEAN :
              /\ late => Waits(r) \/ ctx[r].toStart \/ Claims(r)
              /\ settled => Claims(r)
              /\ StatusArrives(r, late, settled)
        \/ \E late \in BOOLEAN : (late => Waits(r)) /\ StateArrives(r, late)
        \/ ZoneArrives(r) \/ RouteArrives(r) \/ Report(r)
        \/ Travel(r) \/ LinkLost(r) \/ AgentRestarts(r)

\* A grant counts while the fleet runs, a limit while something is retried.
Counts(r, granted, time) ==
    /\ r \in granted => fl.mission = "RUNNING"
    /\ time[r] # "early" => ctx[r].resuming \/ Unstarted(ctx[r], fl)

Ticks ==
    \E granted \in SUBSET Robots, time \in Times :
        /\ \A r \in Robots : Counts(r, granted, time)
        /\ Tick(granted, time, TRUE)

Process ==
    \/ Crash \/ DiesStopping \/ DiesEstopping \/ FileBreaks
    \/ \E found \in Boots : Restart(found)

Next == Operator \/ Messages \/ Ticks \/ Process

Spec == Init /\ [][Next]_vars

(***************************************************************************)
(* The timers run and the process is started again by its service; a       *)
(* command that is sent again and again gets through, a report and a       *)
(* route too.  The operator, travel and faults are promised nothing.       *)
(***************************************************************************)
Fairness ==
    /\ WF_vars(Tick(Robots, [r \in Robots |-> "due"], FALSE))
    /\ WF_vars(\E found \in Boots : Restart(found))
    /\ \A r \in Robots :
        /\ WF_vars(RouteArrives(r)) /\ WF_vars(Report(r))
        /\ SF_vars(StatusArrives(r, TRUE, TRUE)) /\ WF_vars(StateArrives(r, TRUE))

FairSpec == Spec /\ Fairness

-----------------------------------------------------------------------------
(***************************************************************************)
(* A robot is told to go, or let out of a latch, only when the operator's  *)
(* last words allow it: not while the fleet is emergency-stopped, not a    *)
(* robot that is kept stopped, and START and permissions only to a fleet   *)
(* that was started.  Retries, restarts of the process and a process that  *)
(* dies between saving a stop and sending it change nothing about that.    *)
(* After a change of profile nobody has started anything, yet a robot      *)
(* whose RESUME is still repeated may drive on along its old route: the    *)
(* switch leaves resume_retry_until as it is.                              *)
(***************************************************************************)
MayGo(r) == r \notin kept' /\ (word' = "go" \/ (word' = "none" /\ ctx[r].resuming))
NeverReleased ==
    [][\A r \in Robots : bot'[r] # bot[r] =>
         /\ Moves(r)' => Moves(r) \/ MayGo(r)
         /\ bot[r].estop /\ ~bot'[r].estop /\ bot'[r] # NewAgent =>
                word' # "estop" /\ r \notin kept'
      ]_vars

(***************************************************************************)
(* A robot of a running fleet that may go goes, or the console says why it *)
(* stands: START given up, back at its start, held with a reason.          *)
(***************************************************************************)
Expected(r) ==
    up /\ fl.mission = "RUNNING" /\ Routed(r) /\ ~ctx[r].held /\ ~ctx[r].arrived
StandingIsExplained ==
    \A r \in Robots :
        Expected(r) ~> ~Expected(r) \/ Moves(r) \/ bot[r].home
                         \/ ctx[r].gaveUp \/ ReportsNotStarted(r, ctx[r])

(***************************************************************************)
(* An emergency stop that was sent but not saved before the process died   *)
(* is restored from what the robots report.                                *)
(***************************************************************************)
Unaware ==
    /\ up /\ ~fl.authority /\ ~fl.latched
    /\ \E r \in Robots : bot[r].estop
EstopComesBack == Unaware ~> ~Unaware

(***************************************************************************)
(* After a robot was let go its link-lost latch opens, or the coordinator  *)
(* holds it again and says so.                                             *)
(***************************************************************************)
Latched(r) == up /\ bot[r].lost /\ ~ctx[r].held
LostIsHeld == \A r \in Nav2 : Latched(r) ~> ~Latched(r)
=============================================================================
