----------------------------- MODULE VisionPath ------------------------------
(***************************************************************************)
(* What the tablet sees, on its way through the gateway: PoseFix to a      *)
(* robot's localisation on two topics, and zone events to the              *)
(* coordinator's arrival.  The two ways share only the relay: "moving"     *)
(* says which one a behaviour is about.                                    *)
(***************************************************************************)
EXTENDS Integers, Sequences, FiniteSets

CONSTANTS
    Robots, RobotOrder, Me, Places, Origin, Nowhere, None, MaxAge,
    PostTimeout,                                \* tablet, poses and events
    Cameras, Goal, EnterFrames, ExitFrames, MaxEvents, MaxEventAge, MaxRetries,
    Backoff, MaxZoneQueue, MaxRestarts,
    Confirm, FixTimeout, TfCache, PoseTimeout, MaxOutage,  \* the robot
    GoalTimeout, ConfirmTime,                   \* the coordinator
    Moving

ASSUME VisionAssumption ==
    /\ Me \in Robots /\ Origin \in Places /\ Goal \in Cameras /\ Moving \subseteq {"worker", "pose", "zone"}
    /\ \A n \in 1..MaxRetries : Backoff[n] \in Nat
    /\ RobotOrder \in Seq(Robots)
    /\ {FixTimeout, TfCache, PoseTimeout, MaxOutage} \subseteq Nat
    /\ {PostTimeout, MaxEventAge, MaxZoneQueue, MaxAge, MaxEvents} \subseteq Nat
    /\ MaxRetries \in Nat \ {0} /\ {GoalTimeout, ConfirmTime} \subseteq Nat

VARIABLES
    moving, restarts,
    egress, timed, H, latest, batch, spent,     \* TabletPose
    wire,                                       \* the two topics to Me
    fuser, tf, odom, agent, ran,      \* PoseFuser
    det, number, todo, loop, queue, took,       \* TabletZones
    last,       \* _zone_event_seq
    stored,     \* Me's last_zone_event, with its delay and the time since it was received
    arrival,    \* Me's claim, whether it was accepted, and on what sighting
    taken,      \* ghost: Me's events taken since the tablet was started
    doubled     \* ghost: those taken twice

Tablet == INSTANCE TabletPose
Robot == INSTANCE PoseFuser
Zones == INSTANCE TabletZones

poseVars == <<egress, timed, H, latest, batch, spent, wire, fuser, tf, odom, agent,
              ran>>
coordinator == <<last, stored, arrival, taken, doubled>>
zoneVars == <<det, number, todo, loop, queue, took, coordinator>>
vars == <<moving, restarts, poseVars, zoneVars>>

Topics == {"pose_fix", "overhead_pose"}
Sightings == [camera : Cameras, type : {"ENTER", "EXIT"}, delay : 0..MaxAge, age : 0..MaxAge]
Arrivals == [claim : 0..ConfirmTime \cup {None}, arrived : BOOLEAN, confirmed : BOOLEAN,
             gap : 0..2 * MaxAge]

TypeOK ==
    /\ moving \in Moving /\ restarts \in 0..MaxRestarts
    /\ Tablet!TabletPoseTypeOK /\ Robot!PoseFuserTypeOK /\ Zones!TabletZonesTypeOK
    /\ wire \in [Topics -> Tablet!Fixes \cup {None}]
    /\ last \in [Robots -> [Cameras -> 0..MaxEvents]]
    /\ stored \in Sightings \cup {None}
    /\ arrival \in Arrivals
    /\ taken \subseteq Cameras \X (1..MaxEvents) /\ doubled \subseteq taken

Unclaimed == [claim |-> None, arrived |-> FALSE, confirmed |-> FALSE, gap |-> 0]

Init ==
    /\ moving \in Moving /\ restarts = 0
    /\ Tablet!TabletPoseInit /\ Robot!PoseFuserInit /\ Zones!TabletZonesInit
    /\ wire = [t \in Topics |-> None]
    /\ last = [r \in Robots |-> [c \in Cameras |-> 0]]
    /\ stored = None /\ arrival = Unclaimed
    /\ taken = {} /\ doubled = {}
    \* what does not move starts in one state only
    /\ moving \notin {"worker", "pose"} => ~egress
    /\ timed = (moving = "worker")

-----------------------------------------------------------------------------
\* What becomes of a POST: answered, handled without the answer being heard, or neither.
Outcomes == {"answered", "unheard", "lost"}

-----------------------------------------------------------------------------
\* Poses.
Pose == moving \in {"worker", "pose"} /\ UNCHANGED <<moving, restarts, zoneVars>>
Quiet == wire = [t \in Topics |-> None]    \* what was published is received at once
PoseTablet == Pose /\ Quiet /\ UNCHANGED <<wire, fuser, tf, odom, agent, ran>>
PoseRobot == Pose /\ UNCHANGED <<egress, timed, H, latest, batch, spent>>
Timers == moving = "pose" /\ PoseRobot /\ Quiet /\ UNCHANGED wire

\* What a picture can be of: all of it where the worker is followed, and where the
\* robot is, one robot and an idle worker.
Pictures == IF moving = "worker" THEN {{}, {Me}, Robots} ELSE {{Me}}
Fits == IF moving = "worker" THEN Tablet!Grades \cup {None} ELSE {"good", "rough"}
Frame ==
    /\ PoseTablet /\ (moving = "worker" \/ batch = <<>>)
    /\ \E seen \in Pictures, place \in Places, grade \in Fits : Tablet!Frame(seen, place, grade)
Take == PoseTablet /\ Tablet!Take
PoseRestart == PoseTablet /\ moving = "worker" /\ Tablet!TabletPoseRestart

\* POST /api/vision/pose_fix: what is valid is published on both topics.
Published(fix) == [t \in Topics |-> fix]
PostPose(outcome) ==
    /\ Pose /\ batch # <<>> /\ Quiet
    /\ Tablet!Posted(outcome = "answered")
    /\ wire' = IF outcome # "lost" /\ Head(batch).robot = Me THEN Published(Head(batch)) ELSE wire
    /\ UNCHANGED <<fuser, tf, odom, agent, ran>>

\* _on_fix refuses a rough fix, _on_pose cannot tell.
Receive(t) ==
    /\ PoseRobot /\ wire[t] # None /\ wire' = [wire EXCEPT ![t] = None]
    /\ IF moving = "worker" \/ (t = "pose_fix" /\ wire[t].rough)
       THEN UNCHANGED <<fuser, tf, odom, agent, ran>>
       ELSE Robot!OnFix(wire[t].place)

Drive(v) == Timers /\ Robot!ControlTick(v)
PublishTf == Timers /\ Robot!PublishTf
InitialPose == Timers /\ \E p \in Places : Robot!OnInitialPose(p)
BaseReturns == Timers /\ Robot!BaseReturns

PoseTick(base) ==
    /\ Pose /\ Quiet
    /\ Tablet!TabletPoseTick
    /\ IF moving = "worker" THEN UNCHANGED <<fuser, tf, odom, agent, ran>>
       ELSE Robot!PoseFuserTick(base)
    /\ UNCHANGED wire

-----------------------------------------------------------------------------
\* Zone events.
Zone == moving = "zone" /\ UNCHANGED <<moving, poseVars>>
ZoneTablet == Zone /\ UNCHANGED <<restarts, coordinator>>

\* Bound: after a restart, one event less is followed.
ZoneFrame ==
    /\ ZoneTablet
    /\ \E c \in Cameras, saw \in SUBSET Zones!Targets : Zones!ZoneFrame(c, saw)
    /\ number' + restarts <= MaxEvents
Send == ZoneTablet /\ Zones!Send
Skip == ZoneTablet /\ Zones!Skip

\* The tablet is started again: its events start from 1.
ZoneRestart ==
    /\ Zone /\ restarts < MaxRestarts /\ restarts' = restarts + 1
    /\ Zones!TabletZonesRestart /\ taken' = {} /\ doubled' = {}
    /\ UNCHANGED <<last, stored, arrival>>

MutIsNew(e) == e.number >= last[e.robot][e.camera]

\* _cb_vision_zone_event: event 1 is taken for a restart of the tablet.
IsNew(e) == e.number = 1 \/ e.number > last[e.robot][e.camera]

\* _is_valid_goal_zone_event, for an event received "age" before the reference time.
AtGoal(z, age) == z.camera = Goal /\ z.type = "ENTER" /\ age <= GoalTimeout

Confirmed(a, z, age) == [a EXCEPT !.confirmed = TRUE, !.gap = z.delay + age]

\* What it means for Me.
Seen(e) ==
    LET z == [camera |-> e.camera, type |-> e.type, delay |-> e.age, age |-> 0]
    IN /\ stored' = z
       /\ arrival' = IF arrival.arrived /\ AtGoal(z, 0) THEN Confirmed(arrival, z, 0) ELSE arrival
       /\ taken' = taken \cup {<<e.camera, e.number>>}
       /\ doubled' = doubled \cup ({<<e.camera, e.number>>} \cap taken)

\* The coordinator has the event.
Taken(e) ==
    IF IsNew(e)
    THEN /\ last' = [last EXCEPT ![e.robot][e.camera] = e.number]
         /\ IF e.robot = Me THEN Seen(e) ELSE UNCHANGED <<stored, arrival, taken, doubled>>
    ELSE UNCHANGED coordinator

\* POST /api/vision/zone_event
PostZone(outcome) ==
    /\ Zone /\ Zones!Posting /\ Zones!Answered(outcome = "answered")
    /\ IF outcome # "lost" THEN Taken(Zones!Posted) ELSE UNCHANGED coordinator
    /\ UNCHANGED restarts

Claimed == arrival.claim # None

\* The robot says it has arrived, and is believed after ConfirmTime.
Claim ==
    /\ Zone /\ arrival = Unclaimed /\ arrival' = [arrival EXCEPT !.claim = 0]
    /\ UNCHANGED <<restarts, det, number, todo, loop, queue, took, last, stored, taken, doubled>>

\* StatusArrives: the sighting must be fresh as of the claim, from which "age" no longer grows.
Arrive ==
    LET landed == [arrival EXCEPT !.arrived = TRUE]
    IN /\ Zone /\ Claimed /\ arrival.claim >= ConfirmTime /\ ~arrival.arrived
       /\ arrival' = IF stored # None /\ AtGoal(stored, stored.age)
                     THEN Confirmed(landed, stored, stored.age) ELSE landed
       /\ UNCHANGED <<restarts, det, number, todo, loop, queue, took, last, stored, taken, doubled>>

ZoneTick ==
    /\ Zone /\ Zones!TabletZonesTick
    /\ stored' = IF stored = None \/ Claimed THEN stored
                 ELSE [stored EXCEPT !.age = IF @ > GoalTimeout THEN @ ELSE @ + 1]
    /\ arrival' = IF Claimed THEN [arrival EXCEPT !.claim = IF @ = ConfirmTime THEN @ ELSE @ + 1]
                  ELSE arrival
    /\ UNCHANGED <<restarts, last, taken, doubled>>

-----------------------------------------------------------------------------
Next ==
    \/ Frame \/ Take \/ PoseRestart
    \/ \E outcome \in Outcomes : PostPose(outcome) \/ PostZone(outcome)
    \/ \E t \in Topics : Receive(t)
    \/ \E v \in BOOLEAN : Drive(v)
    \/ PublishTf \/ InitialPose \/ BaseReturns
    \/ \E base \in BOOLEAN : PoseTick(base)
    \/ ZoneFrame \/ Send \/ Skip \/ ZoneRestart
    \/ Claim \/ Arrive \/ ZoneTick

Spec == Init /\ [][Next]_vars

-----------------------------------------------------------------------------
(***************************************************************************)
(* On a route the wheels do not turn on a pose nobody has confirmed: the   *)
(* fuser stops publishing, tf2 still answers for its cache, then the agent *)
(* stops (pose_fuser_node._publish_tf, lane_agent_node._control_tick).     *)
(* While odometry is missing tf2 answers with what was true before, so     *)
(* that time comes on top.                                                 *)
(***************************************************************************)
MovesOnRecentFix ==
    agent.wheels /\ odom = 0 /\ "control" \in ran
        => fuser.age < FixTimeout + TfCache + PoseTimeout + MaxOutage

(***************************************************************************)
(* An arrival is confirmed by a sighting of the goal camera that is not    *)
(* older than the tablet's limit, its POST and those of a full retry queue *)
(* before it, and the coordinator's own limit (flush_zone_events,          *)
(* _is_valid_goal_zone_event).                                             *)
(***************************************************************************)
ArrivalWitnessed ==
    arrival.confirmed => arrival.gap <=
        MaxEventAge + (MaxZoneQueue + 1) * PostTimeout + GoalTimeout

(***************************************************************************)
(* An event whose answer was lost is sent again and not counted again,     *)
(* unless event 1, which is always taken, is of the same robot and camera  *)
(* (_cb_vision_zone_event).                                                *)
(***************************************************************************)
EventTakenOnce == \A d \in doubled : <<d[1], 1>> \in taken

=============================================================================
