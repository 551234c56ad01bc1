---------------------------- MODULE JunctionToken ----------------------------
(***************************************************************************)
(* The right of way at the junction of the vision mission: JunctionArbiter *)
(* and ScenarioRun (pinky_lane_station/vision_mission.py) as driven by     *)
(* VisionFleetCoordinator (relay_station/fleet/vision_coordinator.py),     *)
(* with the robots at the other end of the status and command topics.      *)
(*                                                                         *)
(* A robot is what the arbiter can tell of it: how far it is from the      *)
(* stopping place at the entrance and which stage of its plan it is in.    *)
(* Its status and the last command to it are in flight for as long as they *)
(* like; a newer message replaces one not yet read.                        *)
(***************************************************************************)
EXTENDS Integers, FiniteSetsExt, SequencesExt, TLC

CONSTANTS
    Robots,
    DomainId,       \* robot -> domain_id
    NoRobot,        \* None
    FarAway,        \* the distance a mission starts from
    TieWindow,      \* tie_window, in station ticks
    TieDistance,    \* tie_distance
    LinesByOrder,   \* stop_lines_by_order
    MaxScenarios,   \* bound: scenarios the operator starts
    Held,           \* robots somebody may hold for good before the junction
    Overhead        \* BOOLEAN: the overhead camera is in use

ASSUME TokenAssumption ==
    /\ IsFiniteSet(Robots) /\ NoRobot \notin Robots
    /\ DomainId \in [Robots -> Nat] /\ IsInjective(DomainId)
    /\ {FarAway, TieWindow, TieDistance, MaxScenarios} \subseteq Nat
    /\ MaxScenarios > 0 /\ FarAway > 0
    /\ LinesByOrder \in Seq(Nat)
    /\ Len(LinesByOrder) >= Cardinality(Robots) /\ IsInjective(LinesByOrder)
    /\ Held \subseteq Robots /\ Overhead \in BOOLEAN

\* Where a robot is in its mission, and what it reports there: drive_state
\* and stage.  Only the states the station acts on are told apart.
Phases == {"approach", "stopped", "inside", "leaving", "after", "arrived"}

StatusOf(p) ==
    CASE p = "approach" -> [state |-> "CRUISE", stage |-> "approach"]
      [] p = "stopped" -> [state |-> "JUNCTION_STOP", stage |-> "approach"]
      [] p = "inside" -> [state |-> "JUNCTION_PASS", stage |-> "junction"]
      [] p = "leaving" -> [state |-> "OTHER", stage |-> "after_junction"]
      [] p = "after" -> [state |-> "CRUISE", stage |-> "after_junction"]
      [] p = "arrived" -> [state |-> "ARRIVED", stage |-> "arrived"]

DriveStates == {"CRUISE", "JUNCTION_STOP", "JUNCTION_PASS", "OTHER", "ARRIVED"}
Stages == {"approach", "junction", "after_junction", "arrived"}
Scenarios == 1..MaxScenarios
AgeMax == TieWindow + 1
NoRequest == -1
NoMessage == <<>>

VARIABLES
    phase, gap,         \* the robots: stage, distance to the entrance
    seq, clear,         \* and the plan and clearance they hold
    answered,           \* the clearance answers the stop the robot reported
    status, command,    \* the messages in flight
    run,                \* the scenario that runs
    due,                \* robots whose depart_delay is over
    stage, arrived,     \* what ScenarioRun has heard
    stood,              \* robots heard standing at the entrance
    holder, requests, locked, grant_order, passed,  \* JunctionArbiter
    stop_lines          \* ScenarioRun.stop_lines

robotVars == <<phase, gap, seq, clear, answered>>
wireVars == <<status, command>>
heardVars == <<stage, arrived, stood>>
arbiterVars == <<holder, requests, locked, grant_order, passed>>
vars == <<robotVars, wireVars, run, due, heardVars, arbiterVars, stop_lines>>

Status == [seq : 0..MaxScenarios, state : DriveStates, stage : Stages]
Clearance == [seq : Scenarios, clear : 0..1, answers : BOOLEAN]

\* The type invariant.
TypeOK ==
    /\ phase \in [Robots -> Phases] /\ gap \in [Robots -> 0..FarAway]
    /\ seq \in [Robots -> 0..MaxScenarios] /\ clear \in [Robots -> 0..1]
    /\ answered \subseteq Robots
    /\ \A r \in Robots : /\ status[r] = NoMessage \/ status[r] \in Status
                         /\ command[r] = NoMessage \/ command[r] \in Clearance
    /\ run \in Scenarios /\ due \subseteq Robots
    /\ stage \in [Robots -> Stages] /\ arrived \subseteq Robots
    /\ stood \subseteq Robots
    /\ holder \in Robots \cup {NoRobot}
    /\ requests \in [Robots -> {NoRequest} \cup 0..AgeMax]
    /\ locked \subseteq Robots /\ passed \subseteq Robots
    /\ ToSet(grant_order) \subseteq Robots /\ IsInjective(grant_order)
    /\ stop_lines \in [Robots -> {0} \cup ToSet(LinesByOrder)]

Everywhere(v) == [r \in Robots |-> v]

\* A scenario starts: ScenarioRun.__init__, and the robots are at their
\* starting points, still holding the plan of the scenario before.
Fresh ==
    /\ phase' = Everywhere("approach")
    /\ gap' \in [Robots -> {FarAway} \cup {FarAway - 1}]
    /\ answered' = {}
    /\ due' = {} /\ stage' = Everywhere("approach") /\ arrived' = {}
    /\ stood' = {} /\ holder' = NoRobot /\ requests' = Everywhere(NoRequest)
    /\ locked' = {} /\ grant_order' = << >> /\ passed' = {}
    /\ stop_lines' = Everywhere(0)

Init ==
    /\ phase = Everywhere("approach")
    /\ gap \in [Robots -> {FarAway, FarAway - 1}]
    /\ seq = Everywhere(0) /\ clear = Everywhere(0) /\ answered = {}
    /\ status = Everywhere(NoMessage) /\ command = Everywhere(NoMessage)
    /\ run = 1 /\ due = {} /\ stage = Everywhere("approach") /\ arrived = {}
    /\ stood = {} /\ holder = NoRobot /\ requests = Everywhere(NoRequest)
    /\ locked = {} /\ grant_order = << >> /\ passed = {}
    /\ stop_lines = Everywhere(0)

-----------------------------------------------------------------------------
(***************************************************************************)
(* The arbiter.                                                            *)
(***************************************************************************)
Waiting == {r \in Robots : requests[r] # NoRequest}

\* ScenarioRun.clearance
ClearanceOf(h, r) == IF r = h \/ r \in passed THEN 1 ELSE 0

\* on_status: what the message does to the arbiter.
MutNeverGivesBack(r, m) == FALSE    \* mutant: it stays with the first
GivesBack(r, m) ==
    /\ r = holder
    /\ \/ m.state = "ARRIVED"
       \/ m.state = "CRUISE" /\ m.stage = "after_junction"

Asks(r, m) ==
    /\ m.state = "JUNCTION_STOP" /\ r # holder
    /\ r \notin Waiting \cup passed

MutNeverLocks(r, m) == FALSE    \* mutant: a used grant is handed over too
Locks(r, m) == r = holder /\ m.state \in {"JUNCTION_STOP", "JUNCTION_PASS"}

OnStatus(r) ==
    /\ status[r] # NoMessage
    /\ status' = [status EXCEPT ![r] = NoMessage]
    /\ LET m == status[r]
       IN IF m.seq = run
          THEN /\ stage' = [stage EXCEPT ![r] = m.stage]
               /\ arrived' = arrived \cup {q \in {r} : m.state = "ARRIVED"}
               /\ stood' = stood \cup {q \in {r} : m.state = "JUNCTION_STOP"}
               /\ requests' = IF Asks(r, m) THEN [requests EXCEPT ![r] = 0]
                              ELSE requests
               /\ holder' = IF GivesBack(r, m) THEN NoRobot ELSE holder
               /\ passed' = IF GivesBack(r, m) THEN passed \cup {r} ELSE passed
               /\ locked' = IF GivesBack(r, m) THEN locked \ {r}
                            ELSE IF Locks(r, m) THEN locked \cup {r} ELSE locked
          ELSE UNCHANGED <<heardVars, requests, holder, passed, locked>>
    /\ UNCHANGED <<robotVars, command, run, due, grant_order, stop_lines>>

\* What the overhead camera measures of the distance to the entrance: that,
\* or zero in the junction and close behind it, or nothing at all.
Distance(r) == IF phase[r] = "approach" THEN gap[r] ELSE 0

Oldest(S) == Max({NoRequest} \cup {requests[r] : r \in S})

FirstByDomain(S) == CHOOSE r \in S : \A q \in S : DomainId[r] <= DomainId[q]

\* _pick: the nearest, then who stood first, then the smaller domain.  Of
\* two that stopped within one tick either may have been the first.
Picks(near) ==
    LET least == Min({near[r] : r \in DOMAIN near})
        tied == {r \in DOMAIN near : near[r] <= least + TieDistance}
        first == {r \in tied : requests[r] = Oldest(tied)}
    IN  IF first \subseteq Waiting THEN first ELSE {FirstByDomain(first)}

\* The first to have stood, or the smaller domain among those in the window.
FirstStopped ==
    FirstByDomain({r \in Waiting : requests[r] >= Oldest(Waiting) - TieWindow})

MutKeepsOrder(order, r) == order    \* mutant: the handed-over grant stays
Withdrawn(order, r) == RemoveFirst(order, r)

\* Requests age together, until the oldest is past the window.
Aged(S) ==
    LET older == IF Oldest(Waiting) < AgeMax THEN 1 ELSE 0
    IN  [r \in Robots |-> IF r \in S THEN requests[r] + older ELSE NoRequest]

\* _grant, and the stop line the order of the grants gives (ScenarioRun.tick).
Grant(r, order) ==
    /\ holder' = r
    /\ requests' = Aged(Waiting \ {r})
    /\ locked' = IF r \in Waiting THEN locked \cup {r} ELSE locked
    /\ grant_order' = Append(order, r)
    /\ stop_lines' =
         [stop_lines EXCEPT ![r] =
            LinesByOrder[Min({Len(order) + 1, Len(LinesByOrder)})]]

NoGrant ==
    /\ requests' = Aged(Waiting)
    /\ UNCHANGED <<holder, locked, grant_order, stop_lines>>

\* tick.  measured: the robots on their way to the junction that the camera
\* sees -> their distance.
Assigns(measured) ==
    LET far == [r \in DOMAIN measured \ passed |-> measured[r]]
        near == [r \in Waiting \cup DOMAIN far |->
                   IF r \in Waiting THEN 0 ELSE far[r]]
        Closer(r) == /\ r # holder
                     /\ holder \in DOMAIN near =>
                          near[r] < near[holder] - TieDistance
    IN  IF DOMAIN far # {}
        THEN \E best \in Picks(near) :
               IF holder = NoRobot THEN Grant(best, grant_order)
               ELSE IF holder \notin locked /\ Closer(best)
               THEN Grant(best, Withdrawn(grant_order, holder))
               ELSE NoGrant
        ELSE IF /\ holder = NoRobot /\ Waiting # {}
                /\ Oldest(Waiting) >= TieWindow
        THEN Grant(FirstStopped, grant_order)
        ELSE NoGrant

\* ScenarioRun.tick takes only the robots still on their way.
OnTheirWay == {r \in due \ arrived : stage[r] # "after_junction"}

\* _loop_tick: assign, then send every robot its clearance.
LoopTick ==
    /\ \E seen \in IF Overhead THEN SUBSET OnTheirWay ELSE {{}} :
         Assigns([r \in seen |-> Distance(r)])
    /\ UNCHANGED passed
    /\ command' = [r \in Robots |->
                     [seq |-> run, clear |-> ClearanceOf(holder', r),
                      answers |-> r \in stood]]
    /\ UNCHANGED <<robotVars, status, run, due, heardVars>>

\* depart_delay is over.
Departs(r) ==
    /\ r \notin due
    /\ due' = due \cup {r}
    /\ UNCHANGED <<robotVars, wireVars, run, heardVars, arbiterVars, stop_lines>>

\* start_scenario: after the last one is done, or was stopped and the robots
\* were carried away.
StartScenario ==
    /\ run < MaxScenarios
    /\ run' = run + 1
    /\ Fresh
    /\ UNCHANGED <<seq, clear, wireVars>>

-----------------------------------------------------------------------------
(***************************************************************************)
(* The robots.                                                             *)
(***************************************************************************)

\* set_plan of a new mission.
PlanArrives(r) ==
    /\ seq[r] # run
    /\ seq' = [seq EXCEPT ![r] = run]
    /\ clear' = [clear EXCEPT ![r] = 0]
    /\ answered' = answered \ {r}
    /\ UNCHANGED <<phase, gap, wireVars, run, due, heardVars, arbiterVars,
                   stop_lines>>

\* CMD_CLEARANCE.
Hears(r) ==
    /\ command[r] # NoMessage
    /\ command' = [command EXCEPT ![r] = NoMessage]
    /\ clear' = IF command[r].seq = seq[r]
                THEN [clear EXCEPT ![r] = command[r].clear] ELSE clear
    /\ answered' = IF command[r].seq = seq[r] /\ command[r].answers
                   THEN answered \cup {r} ELSE answered
    /\ UNCHANGED <<phase, gap, seq, status, run, due, heardVars, arbiterVars,
                   stop_lines>>

\* _status_tick: what it does, or that something interrupts it.
Reports(r) ==
    /\ \E s \in {StatusOf(phase[r]).state}
                \cup {x \in {"OTHER"} : phase[r] \notin {"stopped", "arrived"}} :
         status' = [status EXCEPT ![r] =
           [seq |-> seq[r], state |-> s, stage |-> StatusOf(phase[r]).stage]]
    /\ UNCHANGED <<robotVars, command, run, due, heardVars, arbiterVars,
                   stop_lines>>

Driving(r) == r \in due /\ seq[r] = run

Goes(r, from, to) ==
    /\ Driving(r) /\ phase[r] = from
    /\ phase' = [phase EXCEPT ![r] = to]
    /\ UNCHANGED <<seq, clear, answered, wireVars, run, due, heardVars,
                   arbiterVars, stop_lines>>

Approaches(r) ==
    /\ Driving(r) /\ phase[r] = "approach" /\ gap[r] > 0
    /\ gap' = [gap EXCEPT ![r] = @ - 1]
    /\ UNCHANGED <<phase, seq, clear, answered, wireVars, run, due, heardVars,
                   arbiterVars, stop_lines>>

Stops(r) == gap[r] = 0 /\ Goes(r, "approach", "stopped") /\ UNCHANGED gap

\* The stop lasts longer than a report and the answer to it take.
Enters(r) ==
    /\ clear[r] = 1 /\ r \in answered
    /\ Goes(r, "stopped", "inside") /\ UNCHANGED gap

Leaves(r) == Goes(r, "inside", "leaving") /\ UNCHANGED gap
FindsLane(r) == Goes(r, "leaving", "after") /\ UNCHANGED gap
ArrivesAtOnce(r) == Goes(r, "leaving", "arrived") /\ UNCHANGED gap
Arrives(r) == Goes(r, "after", "arrived") /\ UNCHANGED gap

Next ==
    \/ LoopTick
    \/ StartScenario
    \/ \E r \in Robots :
         \/ OnStatus(r) \/ Departs(r)
         \/ PlanArrives(r) \/ Hears(r) \/ Reports(r)
         \/ Approaches(r) \/ Stops(r) \/ Enters(r) \/ Leaves(r)
         \/ FindsLane(r) \/ ArrivesAtOnce(r) \/ Arrives(r)

Spec == Init /\ [][Next]_vars

(***************************************************************************)
(* The timers of both sides keep running, messages arrive, and robots      *)
(* nobody holds drive on.  A report of what the robot really does gets     *)
(* through now and then.                                                   *)
(***************************************************************************)
IsTrue(r, m) == m.state = StatusOf(phase[r]).state

ReportsTruly(r) == Reports(r) /\ IsTrue(r, status'[r])
HearsTruly(r) == OnStatus(r) /\ IsTrue(r, status[r])

Progresses(r) ==
    \/ Departs(r) \/ PlanArrives(r)
    \/ r \notin Held /\ Approaches(r)
    \/ Stops(r) \/ Enters(r) \/ Leaves(r) \/ FindsLane(r) \/ Arrives(r)

Fairness ==
    /\ WF_vars(LoopTick)
    /\ \A r \in Robots :
         /\ WF_vars(Progresses(r)) /\ WF_vars(Hears(r))
         /\ WF_vars(ReportsTruly(r)) /\ SF_vars(HearsTruly(r))

FairSpec == Spec /\ Fairness

-----------------------------------------------------------------------------
(***************************************************************************)
(* Properties.                                                             *)
(***************************************************************************)
InJunction(r) == phase[r] \in {"inside", "leaving"}

\* One right of way, one robot in the junction: not two because a grant was
\* handed to a nearer robot while the first was arriving, nor because a
\* message of the scenario before is still on its way
\* (vision_mission.py:16-21).
OneInJunction ==
    \A r, q \in Robots : InJunction(r) /\ InJunction(q) => r = q

\* Robots that went through, or may, get different stop lines, by the order
\* in which they were let in, however often a grant changed hands before it
\* was used (vision_mission.py:27, ScenarioRun.tick).
LinesDiffer ==
    \A r, q \in passed \cup ToSet(grant_order) :
        stop_lines[r] = stop_lines[q] => r = q

\* Every robot of the last scenario arrives, and the station hears of it.
ScenarioEnds == <>[](arrived = Robots)

=============================================================================
