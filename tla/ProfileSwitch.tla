---------------------------- MODULE ProfileSwitch ----------------------------
(***************************************************************************)
(* Coordinate profiles (fleet/profiles.py and its use by the coordinator,  *)
(* the gateway and the robot's agent): which road graph, mission and map   *)
(* the fleet runs on.  The files may change under a running coordinator,   *)
(* which reads them when it starts.  A profile's map has its own name and  *)
(* its own size, and is written with the profile's name here; the file a   *)
(* robot keeps under that name may be another.                             *)
(***************************************************************************)
EXTENDS Naturals, Sequences

CONSTANTS
    Profiles, Default,
    Parameter,          \* the map_name the agent is started with
    None,
    MaxOrders,          \* bound: commands under way, to the coordinator or to the robot
    MaxChanges,         \* bound: files changed and coordinators ended
    MaxRestarts         \* bound: agents started again

\* What RoadNet assumes of them.
ProfileConstants == Default \in Profiles /\ Parameter \in Profiles \cup {None}

VARIABLES
    files,      \* what a profile's files are: sound, lacking a node the mission names, torn
    saved,      \* the state file: the profile chosen last
    coord,      \* the coordinator
    inbox,      \* commands on their way to the coordinator
    onRobot,    \* the robot's map file under each name
    server,     \* the map its map_server has loaded
    agent,      \* _map_name and _map_info
    orders,     \* CMD_SET_MAP on its way
    loads,      \* LoadMap requests at the map_server
    answers,    \* its answers on their way
    changes,
    was         \* ghost: what the coordinator that ended ran on and had kept

robot == <<onRobot, server, agent, orders, loads, answers>>
profileVars == <<files, saved, coord, inbox, robot, changes, was>>

Kinds == {"sound", "lacking", "torn"}
Commands == [cmd : {"profile"}, name : Profiles] \cup [cmd : {"robot_maps"}]
States == [name : Profiles \cup {None}, map : Profiles \cup {None}]

ProfileSwitchTypeOK ==
    /\ files \in [Profiles -> Kinds] /\ saved \in Profiles \cup {None}
    /\ coord.up \in BOOLEAN /\ coord.busy \in BOOLEAN /\ coord.note \in BOOLEAN
    /\ coord.active \in Profiles \cup {None} /\ coord.writing \in BOOLEAN
    /\ coord.known \in [Profiles -> Kinds] /\ coord.seen \in States \cup {None}
    /\ Len(inbox) <= MaxOrders /\ \A i \in DOMAIN inbox : inbox[i] \in Commands
    /\ onRobot \in [Profiles -> Profiles \cup {None}] /\ server \in Profiles
    /\ agent \in States
    /\ orders \in Seq(Profiles) /\ loads \in Seq(Profiles)
    /\ \A i \in DOMAIN answers : answers[i] \in [name : Profiles, ok : BOOLEAN]
    /\ changes \in 0..MaxChanges /\ was \in Profiles \cup {None}

\* A coordinator that has just read the files, with the profile it chose.
Fresh(name, note) ==
    [up |-> TRUE, busy |-> FALSE, note |-> note, active |-> name, writing |-> FALSE,
     known |-> files, seen |-> None]

ProfileSwitchInit ==
    /\ files = [p \in Profiles |-> "sound"] /\ saved = None
    /\ coord = Fresh(Default, FALSE) /\ inbox = <<>>
    /\ onRobot \in [Profiles -> Profiles \cup {None}] /\ onRobot[Default] # None
    /\ server = onRobot[Default] /\ agent = [name |-> Parameter, map |-> None]
    /\ orders = <<>> /\ loads = <<>> /\ answers = <<>>
    /\ changes = 0 /\ was = None

-----------------------------------------------------------------------------
\* Profile._load and valid: the mission's nodes are in the graph, the graph on the map.
Valid(p) == files[p] = "sound"

\* Someone saves a road graph, or the save is torn.
FileChanges ==
    /\ changes < MaxChanges /\ changes' = changes + 1
    /\ \E p \in Profiles, k \in Kinds : files' = [files EXCEPT ![p] = k]
    /\ UNCHANGED <<saved, coord, inbox, robot, was>>

\* resolve_active: what the state file says, else the default, with a note if it said another.
Resolved ==
    IF saved = None \/ Valid(saved) THEN [name |-> IF saved = None THEN Default ELSE saved, note |-> FALSE]
    ELSE [name |-> Default, note |-> TRUE]

\* __init__: without a valid profile, the default's mission file as it is.
CoordinatorStarts ==
    /\ ~coord.up
    /\ \/ Valid(Resolved.name) /\ coord' = Fresh(Resolved.name, Resolved.note)
       \/ ~Valid(Resolved.name) /\ files[Default] # "torn" /\ coord' = Fresh(None, FALSE)
    /\ UNCHANGED <<files, saved, inbox, robot, changes, was>>

\* The gateway, with the coordinator in it, is stopped or dies.
CoordinatorEnds ==
    /\ coord.up /\ changes < MaxChanges /\ changes' = changes + 1
    /\ was' = IF coord.writing \/ coord.note THEN None ELSE coord.active
    /\ coord' = [coord EXCEPT !.up = FALSE, !.writing = FALSE, !.seen = None]
    /\ inbox' = <<>>
    /\ UNCHANGED <<files, saved, robot>>

\* A mission starts, runs and is done: profile_switch_blocker in between.
Mission == coord.up /\ coord' = [coord EXCEPT !.busy = ~@]
           /\ UNCHANGED <<files, saved, inbox, robot, changes, was>>

-----------------------------------------------------------------------------
\* The page asks (PROFILE_COMMANDS); refusals that need no coordinator are left out.
Ask(c) ==
    /\ coord.up /\ Len(inbox) < MaxOrders
    /\ ~coord.busy
    /\ c.cmd = "profile" => coord.known[c.name] = "sound"
    /\ inbox' = Append(inbox, c)
    /\ UNCHANGED <<files, saved, coord, robot, changes, was>>

-----------------------------------------------------------------------------
\* The coordinator handles a command; it handles one at a time.
\* switch_profile: the fleet is on the new profile, then the state file says so.
SwitchProfile ==
    /\ coord.up /\ ~coord.writing /\ inbox # <<>> /\ Head(inbox).cmd = "profile"
    /\ LET p == Head(inbox).name
       IN IF coord.known[p] = "sound" /\ ~coord.busy
          THEN /\ coord' = [coord EXCEPT !.active = p, !.note = FALSE, !.writing = TRUE]
               /\ UNCHANGED inbox
          ELSE UNCHANGED coord /\ inbox' = Tail(inbox)
    /\ UNCHANGED <<files, saved, robot, changes, was>>

\* write_active, which may fail: then the note.
MutWriteActive(fails) ==
    coord.writing /\ coord' = [coord EXCEPT !.writing = FALSE] /\ UNCHANGED saved
WriteActive(fails) ==
    /\ coord.writing
    /\ IF fails THEN coord' = [coord EXCEPT !.writing = FALSE, !.note = TRUE] /\ UNCHANGED saved
       ELSE coord' = [coord EXCEPT !.writing = FALSE] /\ saved' = coord.active
ProfileKept ==
    /\ \E fails \in BOOLEAN : WriteActive(fails)
    /\ inbox' = Tail(inbox)
    /\ UNCHANGED <<files, robot, changes, was>>

\* send_robot_maps
SendRobotMaps ==
    /\ coord.up /\ ~coord.writing /\ inbox # <<>> /\ Head(inbox).cmd = "robot_maps"
    /\ inbox' = Tail(inbox)
    /\ IF coord.active # None /\ ~coord.busy
       THEN Len(orders) < MaxOrders /\ orders' = Append(orders, coord.active)
       ELSE UNCHANGED orders
    /\ UNCHANGED <<files, saved, coord, onRobot, server, agent, loads, answers, changes, was>>

-----------------------------------------------------------------------------
\* resolve_map_path: the robot has a map of that name.
HasMap(n) == onRobot[n] # None

\* The agent's _set_map: not while it drives or is latched, not for the name it has, not
\* without the file or the service.
SetMap(refused) ==
    /\ orders # <<>> /\ orders' = Tail(orders)
    /\ Len(loads) + Len(answers) <= MaxOrders
    /\ LET n == Head(orders)
       IN loads' = IF refused \/ n = agent.name \/ ~HasMap(n) THEN loads ELSE Append(loads, n)
    /\ UNCHANGED <<files, saved, coord, inbox, onRobot, server, agent, answers, changes, was>>

\* The map_server (external) loads what the file holds, and answers.
LoadMap(fails) ==
    /\ loads # <<>> /\ loads' = Tail(loads)
    /\ server' = IF fails THEN server ELSE onRobot[Head(loads)]
    /\ answers' = Append(answers, [name |-> Head(loads), ok |-> ~fails])
    /\ UNCHANGED <<files, saved, coord, inbox, onRobot, agent, orders, changes, was>>

\* _on_load_map_result, _on_map: two topics, in either order.
LoadMapResult ==
    /\ answers # <<>> /\ answers' = Tail(answers)
    /\ agent' = IF Head(answers).ok THEN [agent EXCEPT !.name = Head(answers).name] ELSE agent
    /\ UNCHANGED <<files, saved, coord, inbox, onRobot, server, orders, loads, changes, was>>
MapHeard ==
    /\ agent.map # server /\ agent' = [agent EXCEPT !.map = server]
    /\ UNCHANGED <<files, saved, coord, inbox, onRobot, server, orders, loads, answers, changes, was>>

\* A new agent: the name it is given, the answers to the old one lost.
AgentRestarts ==
    /\ changes < MaxRestarts /\ changes' = changes + 1
    /\ agent' = [name |-> Parameter, map |-> None] /\ orders' = <<>> /\ answers' = <<>>
    /\ UNCHANGED <<files, saved, coord, inbox, onRobot, server, loads, was>>

\* RobotState, ten times a second: what the coordinator holds is the last that came.
Report ==
    /\ coord.up /\ coord.seen # agent /\ coord' = [coord EXCEPT !.seen = agent]
    /\ UNCHANGED <<files, saved, inbox, robot, changes, was>>

-----------------------------------------------------------------------------
CoordinatorStep ==
    \/ \E c \in Commands : Ask(c)
    \/ SwitchProfile \/ ProfileKept
FileStep == FileChanges \/ CoordinatorStarts \/ CoordinatorEnds \/ Mission
RobotStep ==
    \/ SendRobotMaps
    \/ \E b \in BOOLEAN : SetMap(b) \/ LoadMap(b)
    \/ LoadMapResult \/ MapHeard \/ AgentRestarts
    \/ Report
=============================================================================
