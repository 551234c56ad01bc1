----------------------------- MODULE ScenarioDesk -----------------------------
(***************************************************************************)
(* The scenarios of the vision mission: the list of presets and of what    *)
(* the operator saved, its file (pinky_lane_station/vision_mission.py),    *)
(* starting, stopping and resuming one of them                             *)
(* (relay_station/fleet/vision_coordinator.py), restarts of the process,   *)
(* and the robots, which keep the plan they got last.                      *)
(*                                                                         *)
(* What a scenario says is one value: which robots take part in it and on  *)
(* which courses it is valid.  The right of way is JunctionToken's, a lost *)
(* link, the hold after it and the robots' own latches are FleetControl's. *)
(***************************************************************************)
EXTENDS Naturals, FiniteSets

CONSTANTS
    Robots,       \* the robots of the fleet
    Order,      \* robot -> its place among the sorted names, from 0
    Titles,     \* names of scenarios
    Contents,   \* what a scenario may say
    RobotsIn,     \* content -> the robots that take part
    Courses,    \* versions of vision_mission.yaml, edited between two starts
    Possible,   \* course -> the contents that are valid on it
    Preset,     \* course -> name -> its preset, or Absent
    Absent,
    MaxPresses, MaxBoots    \* bounds on what the operator does, and on restarts

Custom == "custom"      \* CUSTOM_NAME
States == {"IDLE", "RUNNING", "STOPPED", "ESTOP", "DONE"}

\* What Gateway assumes of them.
DeskConstants ==
    /\ Absent \notin Contents \cup States /\ RobotsIn \in [Contents -> SUBSET Robots \ {{}}]
    /\ Possible \in [Courses -> SUBSET Contents]
    /\ Preset \in [Courses -> [Titles -> Contents \cup {Absent}]]
    /\ \A k \in Courses, n \in Titles : Preset[k][n] \in Possible[k] \cup {Absent}

VARIABLES
    course,     \* vision_mission.yaml as it was when the process started
    listed,     \* cfg.scenarios
    userFile,   \* vision_mission_user.yaml
    desk,       \* the mission state, where a resume leads, vision_scenario, vision_custom
    trip,       \* vision_run: its scenario, its robots' numbers, due and arrived
    lastNo,     \* _vision_seq
    starting,   \* of each robot: has START been armed, acknowledged, given up?
    keptBack,   \* held robots
    told,       \* JunctionPlan: the number that waits in the latched topic
    bot,        \* the robots
    heard,      \* LaneStatus under way
    presses, boots

deskVars == <<course, listed, userFile, desk, trip, lastNo, starting, keptBack, told,
              bot, heard, presses, boots>>

Sayings == Contents \cup {Absent}
NoTrip == [says |-> Absent, no |-> [r \in Robots |-> 0], due |-> {}, arrived |-> {}]

DeskTypeOK ==
    /\ course \in Courses /\ {listed, userFile} \subseteq [Titles -> Sayings]
    /\ desk \in [mission : States, preEstop : States \cup {Absent},
                 preStop : States \cup {Absent},
                 chosen : Titles \cup {Custom, Absent}, custom : Sayings]
    /\ trip \in [says : Sayings, no : [Robots -> Nat], due : SUBSET Robots, arrived : SUBSET Robots]
    /\ lastNo \in Nat /\ keptBack \subseteq Robots
    /\ starting \in [Robots -> {"unarmed", "armed", "gaveUp", "acked"}]
    /\ told \in [Robots -> Nat]
    /\ bot \in [Robots -> [no : Nat, started : BOOLEAN, arrived : BOOLEAN, drove : BOOLEAN]]
    /\ heard \in [Robots -> [no : Nat, state : {"IDLE", "CRUISE", "ARRIVED"}] \cup {Absent}]

Taking == RobotsIn[trip.says]
On == trip # NoTrip
AllArrived == Taking \subseteq trip.arrived     \* ScenarioRun.done

-----------------------------------------------------------------------------
(***************************************************************************)
(* The list and the file.                                                  *)
(***************************************************************************)
\* vision_config_from_dict, load_user_scenarios: of the file, what no preset is called
\* and what is valid on this course.
Loaded(k, file) ==
    [n \in Titles |-> IF Preset[k][n] # Absent THEN Preset[k][n]
                      ELSE IF file[n] \in Possible[k] THEN file[n] ELSE Absent]

\* _write_user_file: those with source user, all in one file that is replaced.
Written(l) == [n \in Titles |-> IF Preset[course][n] # Absent THEN Absent ELSE l[n]]

\* A write that fails is undone in the list.
MutListAfter(l, writes) == l
ListAfter(l, writes) == IF writes THEN l ELSE listed

Press == presses < MaxPresses /\ presses' = presses + 1 /\ UNCHANGED boots

Store(l) ==
    /\ Press
    /\ \E writes \in BOOLEAN :
        /\ listed' = ListAfter(l, writes)
        /\ userFile' = IF writes THEN Written(l) ELSE userFile
    /\ UNCHANGED <<course, desk, trip, lastNo, starting, keptBack, told, bot, heard>>

\* save_user_scenario; check_scenario_name keeps the names of presets.
SaveUserScenario(n, c) ==
    /\ Preset[course][n] = Absent /\ c \in Possible[course]
    /\ Store([listed EXCEPT ![n] = c])

\* delete_user_scenario
DeleteUserScenario(n) ==
    /\ Preset[course][n] = Absent /\ listed[n] # Absent
    /\ ~(desk.chosen = n /\ desk.mission = "RUNNING")
    /\ Store([listed EXCEPT ![n] = Absent])

-----------------------------------------------------------------------------
(***************************************************************************)
(* Starting and stopping.                                                  *)
(***************************************************************************)
MayStart == desk.mission # "ESTOP" /\ ~(desk.mission = "RUNNING" /\ On /\ ~AllArrived)

\* The rest of start_scenario: new numbers, plans for the robots that take part, START anew.
Begin(n, c) ==
    LET no == [r \in Robots |-> IF r \in RobotsIn[c]
                THEN lastNo + 1 + Cardinality({q \in RobotsIn[c] : Order[q] < Order[r]})
                ELSE 0]
    IN /\ trip' = [says |-> c, no |-> no, due |-> {}, arrived |-> {}]
       /\ lastNo' = lastNo + Cardinality(RobotsIn[c]) + 1
       /\ starting' = [r \in Robots |-> "unarmed"]
       /\ told' = [r \in Robots |-> IF r \in RobotsIn[c] THEN no[r] ELSE told[r]]
       /\ bot' = [r \in Robots |-> [bot[r] EXCEPT !.drove = FALSE]]

\* start_scenario, by a name or with what the page says.
StartScenario(n, c) ==
    /\ Press /\ MayStart
    /\ Begin(n, c)
    /\ desk' = [desk EXCEPT !.mission = "RUNNING", !.chosen = n,
                            !.custom = IF n = Custom THEN c ELSE @]
    /\ UNCHANGED <<course, listed, userFile, keptBack, heard>>

ContentOf(n) == IF n = Custom THEN desk.custom ELSE listed[n]
StartNamed(n) == ContentOf(n) # Absent /\ StartScenario(n, ContentOf(n))
StartCustom(c) == c \in Possible[course] /\ StartScenario(Custom, c)

\* start_fleet: once more what was chosen last.
StartAgain == desk.chosen # Absent /\ StartNamed(desk.chosen)

Turns(d) ==
    /\ Press /\ desk' = d
    /\ UNCHANGED <<course, listed, userFile, trip, lastNo, keptBack, told, bot, heard>>

\* stop_fleet, estop_fleet of the fleet coordinator.
StopFleet ==
    /\ desk.mission # "ESTOP" /\ UNCHANGED starting
    /\ Turns([desk EXCEPT !.preStop = IF desk.mission = "STOPPED" THEN @ ELSE desk.mission,
                           !.mission = "STOPPED"])
EstopFleet ==
    /\ desk.mission # "ESTOP" /\ UNCHANGED starting
    /\ Turns([desk EXCEPT !.preEstop = desk.mission, !.mission = "ESTOP"])

\* What a resume comes back to; without routes, anything else is IDLE.
Before ==
    LET b == IF desk.mission = "ESTOP" THEN desk.preEstop ELSE desk.mission
        back == IF b = "STOPPED" THEN desk.preStop ELSE b
    IN IF back \in {"RUNNING", "IDLE", "DONE"} THEN back ELSE "IDLE"

Armed(S) == [r \in Robots |-> IF r \in S THEN "armed" ELSE starting[r]]

\* resume_fleet: START again for the robots that had set out.
ResumeFleet ==
    /\ starting' = IF Before = "RUNNING" /\ On
                   THEN Armed(trip.due \ (keptBack \cup trip.arrived)) ELSE starting
    /\ Turns([desk EXCEPT !.mission = Before, !.preEstop = Absent, !.preStop = Absent])

StopRobot(r) ==
    /\ Press /\ r \notin keptBack /\ keptBack' = keptBack \cup {r}
    /\ UNCHANGED <<course, listed, userFile, desk, trip, lastNo, starting, told, bot, heard>>

\* resume_robot
ResumeRobot(r) ==
    /\ Press /\ r \in keptBack /\ desk.mission # "ESTOP"
    /\ keptBack' = keptBack \ {r}
    /\ starting' = IF desk.mission = "RUNNING" /\ On /\ r \in trip.due \ trip.arrived
                   THEN Armed({r}) ELSE starting
    /\ UNCHANGED <<course, listed, userFile, desk, trip, lastNo, told, bot, heard>>

-----------------------------------------------------------------------------
\* A departure delay is over.
Departs(r) ==
    /\ On /\ r \in Taking \ trip.due
    /\ trip' = [trip EXCEPT !.due = @ \cup {r}]
    /\ UNCHANGED <<course, listed, userFile, desk, lastNo, starting, keptBack, told, bot,
                   heard, presses, boots>>

\* _loop_tick and _publish_vision_commands; late: the retries are used up.
LoopTick ==
    LET m == IF desk.mission = "RUNNING" /\ On /\ AllArrived THEN "DONE" ELSE desk.mission
        asks == {r \in Robots : /\ m = "RUNNING" /\ On /\ r \in trip.due \ trip.arrived
                              /\ r \notin keptBack /\ starting[r] # "acked"}
        stops == {r \in Robots : m \in {"STOPPED", "DONE", "ESTOP"} \/ r \in keptBack}
        unsent == {r \in asks : starting[r] = "gaveUp"}
    IN /\ desk' = [desk EXCEPT !.mission = m]
       /\ \E late \in SUBSET {r \in asks : starting[r] = "armed"} :
            starting' = [r \in Robots |-> IF r \in late \cup unsent THEN "gaveUp"
                                        ELSE IF r \in asks THEN "armed" ELSE starting[r]]
       /\ \E arrives \in SUBSET (stops \cup (asks \ unsent)) :
            bot' = [r \in Robots |-> IF r \in arrives
                      THEN [bot[r] EXCEPT !.started = r \notin stops] ELSE bot[r]]
       /\ UNCHANGED <<course, listed, userFile, trip, lastNo, keptBack, told, heard, presses, boots>>

\* _cb_lane_status
StatusArrives(r) ==
    LET m == heard[r]
    IN /\ m # Absent /\ heard' = [heard EXCEPT ![r] = Absent]
       /\ IF On /\ r \in Taking /\ m.no = trip.no[r]
          THEN /\ starting' = IF m.state = "IDLE" THEN starting
                              ELSE [starting EXCEPT ![r] = "acked"]
               /\ trip' = IF m.state = "ARRIVED" THEN [trip EXCEPT !.arrived = @ \cup {r}]
                          ELSE trip
          ELSE UNCHANGED <<starting, trip>>
       /\ UNCHANGED <<course, listed, userFile, desk, lastNo, keptBack, told, bot, presses, boots>>

\* _restore_control_state: where a resume may lead after a restart.
MutLeadsTo(s) == s
LeadsTo(s) == IF s \in {"STOPPED", "DONE"} THEN s ELSE Absent

\* The process dies and comes back, perhaps after the course was edited: what it has
\* kept is the stops and the held robots, the list comes from the files.  What the
\* robots say and what waits for them is gone with its topics.
Restart(k) ==
    LET latched == desk.mission = "ESTOP"
    IN /\ boots < MaxBoots /\ boots' = boots + 1
       /\ course' = k /\ listed' = Loaded(k, userFile)
       /\ desk' = [mission |-> IF latched THEN "ESTOP" ELSE "IDLE",
                   preEstop |-> IF latched THEN LeadsTo(desk.preEstop) ELSE Absent,
                   preStop |-> IF /\ desk.mission \in {"ESTOP", "STOPPED", "DONE"}
                                  /\ desk.preStop = "DONE" THEN "DONE" ELSE Absent,
                   chosen |-> Absent, custom |-> Absent]
       /\ trip' = NoTrip /\ lastNo' = 0 /\ starting' = [r \in Robots |-> "unarmed"]
       /\ told' = [r \in Robots |-> 0] /\ heard' = [r \in Robots |-> Absent]
       /\ UNCHANGED <<userFile, keptBack, bot, presses>>

-----------------------------------------------------------------------------
\* LaneDriver.set_plan: a number it has not is a new mission.
PlanArrives(r) ==
    /\ told[r] \notin {0, bot[r].no}
    /\ bot' = [bot EXCEPT ![r].no = told[r], ![r].arrived = FALSE]
    /\ UNCHANGED <<course, listed, userFile, desk, trip, lastNo, starting, keptBack, told,
                   heard, presses, boots>>

\* It drives, and comes to the end.
Drives(r) ==
    /\ bot[r].started /\ bot[r].no # 0 /\ ~bot[r].arrived
    /\ \E there \in BOOLEAN :
        bot' = [bot EXCEPT ![r].drove = TRUE, ![r].arrived = there]
    /\ UNCHANGED <<course, listed, userFile, desk, trip, lastNo, starting, keptBack, told,
                   heard, presses, boots>>

Reports(r) ==
    /\ heard' = [heard EXCEPT ![r] =
         [no |-> bot[r].no, state |-> IF ~bot[r].started THEN "IDLE"
                                      ELSE IF bot[r].arrived THEN "ARRIVED" ELSE "CRUISE"]]
    /\ UNCHANGED <<course, listed, userFile, desk, trip, lastNo, starting, keptBack, told,
                   bot, presses, boots>>

DeskInit ==
    /\ course \in Courses /\ userFile = [n \in Titles |-> Absent]
    /\ listed = Loaded(course, userFile)
    /\ desk = [mission |-> "IDLE", preEstop |-> Absent, preStop |-> Absent,
               chosen |-> Absent, custom |-> Absent]
    /\ trip = NoTrip /\ lastNo = 0 /\ starting = [r \in Robots |-> "unarmed"]
    /\ keptBack = {} /\ told = [r \in Robots |-> 0]
    /\ bot = [r \in Robots |-> [no |-> 0, started |-> FALSE, arrived |-> FALSE, drove |-> FALSE]]
    /\ heard = [r \in Robots |-> Absent] /\ presses = 0 /\ boots = 0

DeskNext ==
    \/ \E n \in Titles : DeleteUserScenario(n) \/ \E c \in Contents : SaveUserScenario(n, c)
    \/ \E n \in Titles : StartNamed(n)
    \/ \E c \in Contents : StartCustom(c)
    \/ StartAgain \/ StopFleet \/ EstopFleet \/ ResumeFleet \/ LoopTick
    \/ \E r \in Robots : \/ StopRobot(r) \/ ResumeRobot(r) \/ Departs(r) \/ StatusArrives(r)
                       \/ PlanArrives(r) \/ Drives(r) \/ Reports(r)
    \/ \E k \in Courses : Restart(k)

DeskSpec == DeskInit /\ [][DeskNext]_deskVars

-----------------------------------------------------------------------------
(***************************************************************************)
(* What is offered is what the file has, after saves that failed, deletes, *)
(* restarts and edits of the course alike, but for what this course cannot *)
(* have: no scenario is offered that a restart would lose, and none that   *)
(* was deleted comes back (vision_mission.py, save_user_scenario).         *)
(***************************************************************************)
ListIsFile ==
    \A n \in Titles :
        Preset[course][n] = Absent /\ userFile[n] \in Possible[course] \cup {Absent} =>
            listed[n] = userFile[n]

(***************************************************************************)
(* A mission that runs has a scenario: no resume and no restart brings     *)
(* back a RUNNING whose right of way nobody rules on (vision_coordinator.py*)
(* "not revived from a saved RUNNING to set out").                         *)
(***************************************************************************)
RunningHasRun == desk.mission = "RUNNING" => On

(***************************************************************************)
(* A robot counts as arrived only in a scenario it has driven in:          *)
(* JunctionPlan.msg says that a plan with a new number is a new mission.   *)
(***************************************************************************)
ArrivedDrove == \A r \in trip.arrived : bot[r].drove
=============================================================================
