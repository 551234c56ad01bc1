------------------------------ MODULE PoseFuser ------------------------------
(***************************************************************************)
(* How a robot knows where it is: pose_fuser.py turns fixes into map->odom *)
(* behind a gate against jumps, pose_fuser_node.py publishes it while      *)
(* fixes come, and lane_agent_node.py, on a route, looks it up and turns   *)
(* the wheels.                                                             *)
(*                                                                         *)
(* Places are farther apart than the gate; between two fixes odometry is   *)
(* exact, so the place a map->odom stands for does not change.             *)
(***************************************************************************)
EXTENDS Naturals

CONSTANTS
    Places, Nowhere,
    Confirm,        \* fixes that must agree before a jump is believed
    FixTimeout,     \* the node stops publishing
    TfCache,        \* how far back tf2 answers
    PoseTimeout,    \* the agent stops
    MaxOutage       \* bound: ticks odometry may be missing

VARIABLES
    fuser,      \* PoseFuser: map_odom, the candidate and how often it was seen, last_fix_time
    tf,         \* age of the last map->odom published
    odom,       \* age of the last odometry
    agent,      \* the lane agent: time since _pose_time, whether it turns the wheels
    ran         \* the timers that have run since time last passed

robot == <<fuser, tf, odom, agent, ran>>

MaxTf == TfCache + MaxOutage + 1        \* older, or never sent: no lookup succeeds
MaxFix == FixTimeout + TfCache + PoseTimeout + MaxOutage + 1
Known == Places \cup {Nowhere}
PoseFuserTypeOK ==
    /\ fuser \in [map : Known, cand : Known, count : 0..Confirm, age : 0..MaxFix]
    /\ tf \in 0..MaxTf /\ odom \in 0..MaxOutage
    /\ agent \in [age : 0..PoseTimeout, wheels : BOOLEAN]
    /\ ran \subseteq {"tf", "control"}

PoseFuserInit ==
    /\ fuser = [map |-> Nowhere, cand |-> Nowhere, count |-> 0, age |-> MaxFix]
    /\ tf = MaxTf /\ odom = 0
    /\ agent = [age |-> PoseTimeout, wheels |-> FALSE]
    /\ ran = {}

Aged(a, most) == IF a < most THEN a + 1 ELSE a

-----------------------------------------------------------------------------
Jump(place) == fuser.map \notin {Nowhere, place}

Counted(place) == IF fuser.cand = place THEN fuser.count + 1 ELSE 1

\* on_fix: a jump waits until Confirm fixes agree on it.
Adopted(place) == [map |-> place, cand |-> Nowhere, count |-> 0, age |-> 0]
Held(place) == [fuser EXCEPT !.cand = place, !.count = Counted(place)]
Fused(place) ==
    IF Jump(place) /\ Counted(place) < Confirm THEN Held(place) ELSE Adopted(place)

\* _on_pose, _on_fix: attached to an odometry that must be recent.
OnFix(place) ==
    /\ fuser' = IF odom = 0 THEN Fused(place) ELSE fuser
    /\ UNCHANGED <<tf, odom, agent, ran>>

\* _on_initialpose: no gate, and the candidate stays.
OnInitialPose(place) ==
    /\ fuser' = [fuser EXCEPT !.map = place, !.age = 0]
    /\ UNCHANGED <<tf, odom, agent, ran>>

\* alive
MutAlive == fuser.map # Nowhere

Alive == fuser.map # Nowhere /\ fuser.age <= FixTimeout

\* _publish_tf, 20 Hz
PublishTf ==
    /\ "tf" \notin ran
    /\ tf' = IF Alive THEN 0 ELSE tf
    /\ ran' = ran \cup {"tf"}
    /\ UNCHANGED <<fuser, odom, agent>>

\* lookup_transform(Time()): the newest time both transforms have; tf2 keeps
\* each for TfCache behind its own newest.
Common == IF tf > odom THEN tf ELSE odom
Lookup == tf < MaxTf /\ Common - tf <= TfCache /\ Common - odom <= TfCache

\* _update_pose: the pose counts from when it was looked up.
Updated == IF Lookup THEN [agent EXCEPT !.age = 0] ELSE agent
Localized(a) == a.age < PoseTimeout

\* _control_tick, 20 Hz; v: the driver would turn the wheels.
ControlTick(v) ==
    /\ "control" \notin ran
    /\ agent' = [Updated EXCEPT !.wheels = v /\ Localized(Updated)]
    /\ ran' = ran \cup {"control"}
    /\ UNCHANGED <<fuser, tf, odom>>

\* The base stops to send odometry; the next control tick follows its return.
BaseReturns ==
    /\ odom > 0 /\ odom' = 0 /\ ran' = {}
    /\ UNCHANGED <<fuser, tf, agent>>

\* Time passes once the timers have run.
PoseFuserTick(base) ==
    /\ ran = {"tf", "control"} /\ ran' = {}
    /\ IF base THEN odom = 0 /\ odom' = 0 ELSE odom < MaxOutage /\ odom' = odom + 1
    /\ fuser' = [fuser EXCEPT !.age = Aged(@, MaxFix)]
    /\ tf' = Aged(tf, MaxTf)
    /\ agent' = [agent EXCEPT !.age = Aged(@, PoseTimeout)]
=============================================================================
