--------------------------- MODULE StationLinksProofs ---------------------------
(***************************************************************************)
(* The wrapper of services and actions implements OnceOnly, for all ids,   *)
(* bounds and deadlines: however letters are repeated, lost or delayed.    *)
(* And a Nav2 robot sets out only for a goal that is still wanted.         *)
(***************************************************************************)
EXTENDS StationLinks, TLAPS

----------------------------------------------------------------------------
(* The wrapper. *)

USE DEF Ids


LEMMA InitTyped == WrapInit => WrapTypeOK
BY WrapAssumption DEF WrapInit, WrapTypeOK

LEMMA FinishTyped ==
    ASSUME WrapTypeOK, NEW i \in Ids, Finish(i)
    PROVE  /\ inflight' \subseteq Ids
           /\ done' \in [Ids -> 0..Ttl \cup {Unknown}]
           /\ handles' \subseteq Goals
BY WrapAssumption DEF WrapTypeOK, Finish

LEMMA StepTyped ==
    ASSUME WrapTypeOK, [WrapNext]_wrapVars
    PROVE  WrapTypeOK'
<1> USE WrapAssumption DEF WrapTypeOK
<1>1. CASE UNCHANGED wrapVars
  BY <1>1 DEF wrapVars
<1>2. ASSUME NEW i \in Ids, SendLetter(i) PROVE WrapTypeOK'
  BY <1>2 DEF SendLetter
<1>3. ASSUME NEW i \in Ids, LoseLetter(i) PROVE WrapTypeOK'
  BY <1>3 DEF LoseLetter
<1>4. ASSUME NEW i \in Ids, AnswerFromMemory(i) PROVE WrapTypeOK'
  BY <1>4 DEF AnswerFromMemory
<1>5. ASSUME NEW i \in Ids, Refuse(i) PROVE WrapTypeOK'
  BY <1>5 DEF Refuse, Fresh
<1>6. ASSUME NEW i \in Ids, CallServer(i) PROVE WrapTypeOK'
  <2>1. timers' \in [Requests -> SUBSET (0..Deadline)]
    BY <1>6 DEF CallServer, Timer
  <2>. QED  BY <1>6, <2>1 DEF CallServer, Fresh
<1>7. ASSUME NEW i \in Ids, ServerAnswers(i) PROVE WrapTypeOK'
  BY <1>7, FinishTyped DEF ServerAnswers
<1>8. ASSUME NEW g \in Goals, WrapGoalAccepted(g) PROVE WrapTypeOK'
  BY <1>8 DEF WrapGoalAccepted
<1>9. ASSUME NEW g \in Goals, WrapGoalEnds(g) PROVE WrapTypeOK'
  BY <1>9, FinishTyped DEF WrapGoalEnds
<1>10. ASSUME NEW i \in Requests, TimerFires(i) PROVE WrapTypeOK'
  <2>1. timers' \in [Requests -> SUBSET (0..Deadline)]
    BY <1>10 DEF TimerFires
  <2>. QED  BY <1>10, <2>1, FinishTyped DEF TimerFires
<1>11. CASE WrapTick
  <2>1. ASSUME NEW i \in Requests, NEW t \in timers[i] PROVE t - 1 \in 0..Deadline
    BY <1>11, <2>1 DEF WrapTick
  <2>2. timers' \in [Requests -> SUBSET (0..Deadline)]
    BY <1>11, <2>1 DEF WrapTick
  <2>3. \A i \in Ids : Older(i) \in 0..Ttl \cup {Unknown}
    BY DEF Older
  <2>. QED  BY <1>11, <2>2, <2>3 DEF WrapTick
<1>. QED
  BY <1>1, <1>2, <1>3, <1>4, <1>5, <1>6, <1>7, <1>8, <1>9, <1>10, <1>11 DEF WrapNext

(***************************************************************************)
(* The tables of the wrapper keep their types: a goal handle is one of a   *)
(* goal, a timer is never beyond its deadline (domain_bridge/              *)
(* topic_wrap.py, ResultCache and the two wrappers).                       *)
(***************************************************************************)
THEOREM WrapTyped == WrapSpec => []WrapTypeOK
<1>1. WrapInit => WrapTypeOK  BY InitTyped
<1>2. WrapTypeOK /\ [WrapNext]_wrapVars => WrapTypeOK'  BY StepTyped
<1>. QED  BY <1>1, <1>2, PTL DEF WrapSpec

-----------------------------------------------------------------------------
LEMMA InitMaps == WrapInit => Once!Init
BY WrapAssumption DEF WrapInit, Once!Init, Standing

\* An id that leaves the table and gets a fresh answer is answered in the abstraction.
LEMMA AnsweredMaps ==
    ASSUME NEW i \in Ids, UNCHANGED called,
           \A j \in Ids : /\ j \in inflight' <=> j \in inflight /\ j # i
                         /\ done'[j] = IF j = i THEN 0 ELSE done[j]
    PROVE  Once!Answer(i)
<1>1. \A j \in Ids : Standing'[j] = IF j = i THEN "answered" ELSE Standing[j]
  BY WrapAssumption DEF Standing
<1>2. Standing' = [Standing EXCEPT ![i] = "answered"]
  BY <1>1 DEF Standing
<1>. QED  BY <1>2 DEF Once!Answer

\* To finish an id, whatever became of it before, is to answer it.
LEMMA FinishMaps ==
    ASSUME WrapTypeOK, NEW i \in Ids, Finish(i), UNCHANGED called
    PROVE  Once!Answer(i)
<1>1. \A j \in Ids : (j \in inflight' <=> j \in inflight /\ j # i)
                   /\ done'[j] = IF j = i THEN 0 ELSE done[j]
  BY DEF WrapTypeOK, Finish
<1>. QED  BY <1>1, AnsweredMaps

LEMMA TickMaps ==
    ASSUME WrapTypeOK, WrapTick
    PROVE  Once!Forget
<1> DEFINE S == {i \in Ids : i \notin inflight /\ done[i] # Unknown /\ Older(i) = Unknown}
<1>1. S \in SUBSET {i \in Ids : Standing[i] = "answered"}
  BY DEF Standing
<1>2. ASSUME NEW i \in Ids
      PROVE  Standing'[i] = IF i \in S THEN "new" ELSE Standing[i]
  <2>1. inflight' = inflight /\ done'[i] = Older(i)
    BY DEF WrapTick
  <2>2. done[i] = Unknown => Older(i) = Unknown
    BY DEF Older
  <2>. QED  BY <2>1, <2>2 DEF Standing
<1>3. Standing' = [i \in Ids |-> IF i \in S THEN "new" ELSE Standing[i]]
  BY <1>2 DEF Standing
<1>. QED  BY <1>1, <1>3 DEF Once!Forget, WrapTick

LEMMA StepMaps ==
    ASSUME WrapTypeOK, [WrapNext]_wrapVars
    PROVE  [Once!Next]_<<Standing, called>>
<1>1. CASE UNCHANGED wrapVars
  BY <1>1 DEF wrapVars, Standing
<1>2. ASSUME NEW i \in Ids, SendLetter(i) \/ LoseLetter(i) \/ AnswerFromMemory(i)
      PROVE  UNCHANGED <<Standing, called>>
  BY <1>2 DEF SendLetter, LoseLetter, AnswerFromMemory, Standing
<1>3. ASSUME NEW i \in Ids, Refuse(i) PROVE Once!Answer(i)
  <2>1. \A j \in Ids : (j \in inflight' <=> j \in inflight /\ j # i)
                     /\ done'[j] = IF j = i THEN 0 ELSE done[j]
    BY <1>3 DEF WrapTypeOK, Refuse, Fresh, Known
  <2>. QED  BY <1>3, <2>1, AnsweredMaps DEF Refuse
<1>4. ASSUME NEW i \in Ids, CallServer(i) PROVE Once!Call(i)
  BY <1>4, WrapAssumption DEF WrapTypeOK, CallServer, Fresh, Known, Once!Call, Standing
<1>5. ASSUME NEW i \in Ids, ServerAnswers(i) PROVE Once!Answer(i)
  BY <1>5, FinishMaps DEF ServerAnswers
<1>6. ASSUME NEW g \in Goals, WrapGoalAccepted(g) PROVE UNCHANGED <<Standing, called>>
  BY <1>6 DEF WrapGoalAccepted, Standing
<1>7. ASSUME NEW g \in Goals, WrapGoalEnds(g) PROVE Once!Answer(g)
  BY <1>7, FinishMaps DEF WrapGoalEnds
<1>8. ASSUME NEW i \in Requests, TimerFires(i)
      PROVE  Once!Answer(i) \/ UNCHANGED <<Standing, called>>
  <2>1. CASE i \in inflight
    BY <1>8, <2>1, FinishMaps DEF TimerFires
  <2>2. CASE i \notin inflight
    BY <1>8, <2>2 DEF TimerFires, Standing
  <2>. QED  BY <2>1, <2>2
<1>9. CASE WrapTick
  BY <1>9, TickMaps DEF Once!Next
<1>. QED
  BY <1>1, <1>2, <1>3, <1>4, <1>5, <1>6, <1>7, <1>8, <1>9 DEF WrapNext, Once!Next

(***************************************************************************)
(* The service is not called again for an id that is under way or whose    *)
(* answer is remembered, for any number of ids, letters and late answers   *)
(* (domain_bridge/topic_wrap.py, _on_request and _on_goal).                *)
(***************************************************************************)
THEOREM CalledOnceHolds == WrapSpec => CalledOnce
<1>1. WrapInit => Once!Init  BY InitMaps
<1>2. WrapTypeOK /\ [WrapNext]_wrapVars => [Once!Next]_<<Standing, called>>
  BY StepMaps
<1>. QED  BY <1>1, <1>2, WrapTyped, PTL DEF WrapSpec, CalledOnce, Once!Spec

----------------------------------------------------------------------------
(* The robot. *)

\* What a robot could set out for is wanted: a goal the agent would take up again, and
\* a GOTO that is not one the transport repeats, which the link watch refuses.
GoalsAreWanted ==
    /\ nav.asks = <<>>
    /\ agent.valid => wanted
    /\ fromGui = "GOTO_AGAIN" => link.lost \/ link.grace

StationTyped ==
    /\ agent \in Agents /\ link \in Links /\ nav \in Navs
    /\ wanted \in BOOLEAN /\ fromCoordinator \in {"STOP", "RESUME", "CANCEL", Nothing}

StationInv == StationTyped /\ GoalsAreWanted

LEMMA StationStart == Init => StationInv
<1> SUFFICES ASSUME Init PROVE StationInv
  OBVIOUS
<1>1. nav \in Navs /\ nav.asks = <<>>
  <2>1. << >> \in Seq({"cur", "old"})
    OBVIOUS
  <2>2. QED BY <2>1 DEF Init, AgentInit, Navs
<1>2. QED
  BY <1>1 DEF Init, AgentInit, StationInv, StationTyped, GoalsAreWanted, Agents, Links,
     Statuses, Nothing

LEMMA NoAsks ==
  ASSUME nav \in Navs, nav.asks = <<>>
  PROVE  /\ Forgotten(nav) \in Navs /\ Forgotten(nav).asks = <<>>
         /\ Forgotten(nav).run # "cur"
         /\ Cancelled(nav) \in Navs /\ Cancelled(nav).asks = <<>>
         /\ Cancelled(nav).run = nav.run
         /\ Forgotten(Cancelled(nav)) \in Navs /\ Forgotten(Cancelled(nav)).asks = <<>>
         /\ Forgotten(Cancelled(nav)).run # "cur"
<1>1. \A n \in Navs : n.asks = <<>> =>
        Forgotten(n) \in Navs /\ Forgotten(n).asks = <<>> /\ Forgotten(n).run # "cur"
  <2> TAKE n \in Navs
  <2> HAVE n.asks = <<>>
  <2>1. [k \in 1..Len(n.asks) |-> "old"] = <<>>
    OBVIOUS
  <2>2. QED BY <2>1 DEF Forgotten, Navs
<1>2. /\ Cancelled(nav) \in Navs /\ Cancelled(nav).asks = <<>>
      /\ Cancelled(nav).run = nav.run
  BY DEF Cancelled, Navs
<1>3. QED BY <1>1, <1>2

\* Only a goal that is sent sets the robot off, and only with the link of long standing.
LEMMA SendGoalWanted ==
  ASSUME StationTyped, nav.asks = <<>>, ~SlowAnswers, NEW a \in Agents, SendGoal(a)
  PROVE  /\ agent' \in Agents /\ agent'.valid = a.valid
         /\ nav' \in Navs /\ nav'.asks = <<>>
<1>1. agent' \in Agents /\ agent'.valid = a.valid
  BY DEF SendGoal, Agents, Statuses
<1>2. nav' \in {nav, TakesUp(Forgotten(nav), "cur"), Forgotten(nav)}
  BY DEF SendGoal
<1>3. \A n \in Navs : TakesUp(n, "cur") \in Navs /\ TakesUp(n, "cur").asks = n.asks
  BY DEF TakesUp, Navs
<1>4. QED BY <1>1, <1>2, <1>3, NoAsks DEF StationTyped

\* A command other than GOTO sets off at most for a goal that is wanted.
LEMMA CommandWanted ==
  ASSUME StationInv, ~SlowAnswers, NEW c, Command(c)
  PROVE  /\ agent' \in Agents /\ link' \in Links /\ nav' \in Navs /\ nav'.asks = <<>>
         /\ agent'.valid => agent.valid \/ (c = "GOTO" /\ MotionAccepted)
         /\ SetsOut => agent.valid \/ (c = "GOTO" /\ MotionAccepted)
         /\ c = "CANCEL" => ~agent'.valid /\ ~SetsOut
         /\ link.lost \/ link.grace => link'.grace
<1> USE DEF StationInv, StationTyped, GoalsAreWanted
<1>1. link' \in Links /\ (link.lost \/ link.grace => link'.grace)
  BY DEF Command, Heard, Links
<1>2. CASE c = "GOTO" /\ MotionAccepted
  <2>1. Goto
    BY <1>2 DEF Command
  <2>2. [agent EXCEPT !.hold = FALSE, !.valid = TRUE] \in Agents
    BY DEF Agents
  <2>3. QED BY <1>1, <1>2, <2>1, <2>2, SendGoalWanted DEF Goto
<1>3. CASE c = "STOP"
  <2>1. Stop
    BY <1>3 DEF Command
  <2>2. QED BY <1>1, <1>3, <2>1, NoAsks DEF Stop, Agents, Statuses, SetsOut
<1>4. CASE c = "RESUME"
  <2>1. Resume
    BY <1>4 DEF Command
  <2>2. CASE agent.hold /\ agent.valid
    <3>1. [agent EXCEPT !.hold = FALSE] \in Agents
      BY DEF Agents
    <3>2. SendGoal([agent EXCEPT !.hold = FALSE])
      BY <2>1, <2>2 DEF Resume
    <3>3. QED BY <1>1, <1>4, <2>2, <3>1, <3>2, SendGoalWanted
  <2>3. CASE ~(agent.hold /\ agent.valid)
    <3>1. nav' = nav /\ agent' \in {agent, [agent EXCEPT !.hold = FALSE, !.status = "IDLE"]}
      BY <2>1, <2>3 DEF Resume, Agents
    <3>2. QED BY <1>1, <1>4, <3>1 DEF Agents, Statuses, SetsOut
  <2>4. QED BY <2>2, <2>3
<1>5. CASE c = "CANCEL"
  <2>1. Cancel
    BY <1>5 DEF Command
  <2>2. QED BY <1>1, <1>5, <2>1, NoAsks DEF Cancel, Agents, Statuses, SetsOut
<1>6. CASE /\ ~(c = "GOTO" /\ MotionAccepted)
           /\ c \notin {"STOP", "RESUME", "CANCEL"}
  <2>1. UNCHANGED <<agent, nav>>
    BY <1>6 DEF Command
  <2>2. QED BY <1>1, <1>6, <2>1 DEF SetsOut
<1>7. QED BY <1>2, <1>3, <1>4, <1>5, <1>6

\* A robot that gives up its goal wants none.
LEMMA GivesUpWanted ==
  ASSUME StationTyped, nav.asks = <<>>, NEW a \in Agents, GivesUp(a)
  PROVE  /\ agent' \in Agents /\ ~agent'.valid
         /\ nav' \in Navs /\ nav'.asks = <<>> /\ ~SetsOut
BY NoAsks DEF GivesUp, Agents, StationTyped, SetsOut

\* A step of the station that leaves the robot, its link and the operator's goal alone.
LEMMA RobotUnmoved ==
  ASSUME StationInv, UNCHANGED <<agent, link, nav, wanted>>,
         fromGui' = "GOTO_AGAIN" => fromGui = "GOTO_AGAIN",
         fromCoordinator' \in {"STOP", "RESUME", "CANCEL", Nothing}
  PROVE  StationInv' /\ (SetsOut => wanted')
BY DEF StationInv, StationTyped, GoalsAreWanted, SetsOut

LEMMA CommandsKeep ==
  ASSUME StationInv, ~SlowAnswers,
         GuiCommandArrives \/ CoordinatorCommandArrives \/ Heartbeat
  PROVE  StationInv' /\ (SetsOut => wanted')
<1> USE DEF StationInv, StationTyped, GoalsAreWanted
<1>1. CASE GuiCommandArrives
  <2>1. fromGui' = Nothing /\ Nothing # "GOTO_AGAIN"
    BY <1>1 DEF GuiCommandArrives, Nothing
  <2> fromCoordinator' = fromCoordinator
    BY <1>1 DEF GuiCommandArrives
  <2>2. CASE fromGui = "GOTO"
    <3>1. Command("GOTO") /\ wanted' = (wanted \/ MotionAccepted)
      BY <1>1, <2>2 DEF GuiCommandArrives
    <3>2. QED BY <2>1, <3>1, CommandWanted
  <2>3. CASE fromGui = "GOTO_AGAIN"
    <3>1. Command("GOTO") /\ wanted' = wanted
      BY <1>1, <2>3 DEF GuiCommandArrives
    <3>2. ~MotionAccepted
      BY <2>3 DEF MotionAccepted
    <3>3. QED BY <2>1, <3>1, <3>2, CommandWanted
  <2>4. CASE fromGui = "CANCEL"
    <3>1. Command("CANCEL") /\ wanted' = FALSE
      BY <1>1, <2>4 DEF GuiCommandArrives
    <3>2. QED BY <2>1, <3>1, CommandWanted
  <2>5. CASE fromGui \notin {"GOTO", "GOTO_AGAIN", "CANCEL"}
    <3>1. Command(fromGui) /\ wanted' = wanted
      BY <1>1, <2>5 DEF GuiCommandArrives
    <3>2. QED BY <2>1, <2>5, <3>1, CommandWanted
  <2>6. QED BY <2>2, <2>3, <2>4, <2>5
<1>2. CASE CoordinatorCommandArrives
  <2>1. /\ Command(fromCoordinator) /\ fromGui' = fromGui
        /\ wanted' = (wanted /\ fromCoordinator # "CANCEL")
        /\ fromCoordinator' = Nothing
    BY <1>2 DEF CoordinatorCommandArrives
  <2>2. fromCoordinator # "GOTO"
    BY DEF Nothing
  <2>3. QED BY <2>1, <2>2, CommandWanted
<1>3. CASE Heartbeat
  <2>1. /\ Command("HEARTBEAT") /\ fromGui' = fromGui /\ wanted' = wanted
        /\ fromCoordinator' = fromCoordinator
    BY <1>3 DEF Heartbeat, stationVars
  <2>2. QED BY <2>1, CommandWanted
<1>4. QED BY <1>1, <1>2, <1>3

LEMMA LinkKeeps ==
  ASSUME StationInv, LinkFalls \/ GraceOver
  PROVE  StationInv' /\ (SetsOut => wanted')
<1> USE DEF StationInv, StationTyped, GoalsAreWanted
<1>1. CASE LinkFalls
  <2>1. /\ link' \in Links /\ link'.lost /\ wanted' = FALSE
        /\ fromCoordinator' = fromCoordinator
    BY <1>1 DEF LinkFalls, DeadMan, Links
  <2>2. CASE agent.valid \/ agent.hold
    <3>1. GivesUp(agent)
      BY <1>1, <2>2 DEF LinkFalls, DeadMan
    <3>2. QED BY <2>1, <3>1, GivesUpWanted
  <2>3. CASE ~(agent.valid \/ agent.hold)
    <3>1. UNCHANGED <<agent, nav>>
      BY <1>1, <2>3 DEF LinkFalls, DeadMan
    <3>2. QED BY <2>1, <2>3, <3>1 DEF SetsOut
  <2>4. QED BY <2>2, <2>3
<1>2. CASE GraceOver
  BY <1>2 DEF GraceOver, GraceEnds, stationVars, Links, SetsOut
<1>3. QED BY <1>1, <1>2

LEMMA AgentKeeps ==
  ASSUME StationInv, AgentSteps
  PROVE  StationInv' /\ (SetsOut => wanted')
<1> USE DEF StationInv, StationTyped, GoalsAreWanted
<1> UNCHANGED <<fromGui, fromCoordinator>>
  BY DEF AgentSteps, Given, stationVars
<1>1. ASSUME NEW accepted \in BOOLEAN, Given(GoalAnswered(accepted))
      PROVE  FALSE
  BY <1>1 DEF Given, GoalAnswered
<1>2. ASSUME NEW end \in Ends, Given(GoalEnds(end)), UNCHANGED wanted
      PROVE  StationInv' /\ (SetsOut => wanted')
  BY <1>2 DEF Given, GoalEnds, Agents, Navs, Ends, SetsOut
<1>3. CASE Given(GoalResult) /\ wanted' = (wanted /\ nav.result # "SUCCEEDED")
  <2>1. nav' \in Navs /\ nav'.asks = nav.asks /\ nav'.run = nav.run /\ UNCHANGED link
    BY <1>3 DEF Given, GoalResult, Navs
  <2>2. agent' \in Agents /\ agent'.valid = (agent.valid /\ nav.result # "SUCCEEDED")
    BY <1>3 DEF Given, GoalResult, Agents, Statuses, Navs, Ends
  <2>3. QED BY <1>3, <2>1, <2>2 DEF SetsOut
<1>4. CASE Given(HoldWatchdog) /\ wanted' = FALSE
  <2>1. [agent EXCEPT !.status = "IDLE"] \in Agents
    BY DEF Agents, Statuses
  <2>2. GivesUp([agent EXCEPT !.status = "IDLE"]) /\ UNCHANGED link
    BY <1>4 DEF Given, HoldWatchdog
  <2>3. QED BY <1>4, <2>1, <2>2, GivesUpWanted
<1>5. CASE Given(ShutDown) /\ UNCHANGED wanted
  <2>1. agent' \in Agents /\ (agent'.valid => agent.valid) /\ UNCHANGED link
    BY <1>5 DEF Given, ShutDown, Agents
  <2>2. nav' = Cancelled(nav)
    BY <1>5 DEF Given, ShutDown
  <2>3. QED BY <1>5, <2>1, <2>2, NoAsks DEF SetsOut
<1>6. QED BY <1>1, <1>2, <1>3, <1>4, <1>5 DEF AgentSteps, Given

PhaseTyped == yield \in [phase : {"NORMAL", "YIELD"}, stall : Nat, cooling : BOOLEAN]

LEMMA PhaseKeeps ==
  ASSUME PhaseTyped, [Next]_vars
  PROVE  PhaseTyped'
<1> USE DEF PhaseTyped
<1>1. CASE yield' = yield
  BY <1>1
<1>2. ASSUME NEW s \in Situations, Tick(s)
      PROVE  PhaseTyped'
  <2>1. s.fresh \in BOOLEAN
    BY DEF Situations
  <2>. yield \in [phase : {"NORMAL", "YIELD"}, stall : Nat, cooling : BOOLEAN]
    OBVIOUS
  <2>7. Release => PhaseTyped'
    BY DEF Release
  <2>2. CASE ~s.fresh /\ yield.phase = "YIELD"
    <3>1. Release
      BY <1>2, <2>2 DEF Tick
    <3>2. QED BY <2>7, <3>1
  <2>3. CASE ~s.fresh /\ yield.phase = "NORMAL"
    <3>1. yield' = [yield EXCEPT !.stall = 0]
      BY <1>2, <2>3 DEF Tick
    <3>2. QED BY <3>1
  <2>4. CASE s.fresh /\ yield.phase = "NORMAL"
    <3>1. TickNormal(s)
      BY <1>2, <2>4 DEF Tick
    <3> DEFINE cooling == yield.cooling /\ ~s.cooled
               stall == IF ~cooling /\ s.tight /\ seen THEN yield.stall + 1 ELSE 0
    <3>2. cooling \in BOOLEAN /\ stall \in Nat
      OBVIOUS
    <3>3. yield' \in {[phase |-> "YIELD", stall |-> 0, cooling |-> cooling],
                     [phase |-> "NORMAL", stall |-> stall, cooling |-> cooling]}
      BY <3>1 DEF TickNormal
    <3> HIDE DEF cooling, stall
    <3>4. QED BY <3>2, <3>3
  <2>5. CASE s.fresh /\ yield.phase = "YIELD"
    <3>1. TickYield(s)
      BY <1>2, <2>5 DEF Tick
    <3>2. QED BY <2>7, <3>1 DEF TickYield
  <2>6. QED BY <2>1, <2>2, <2>3, <2>4, <2>5
<1>3. CASE UNCHANGED stationVars
  BY <1>1, <1>3 DEF stationVars
<1>4. CASE AgentSteps
  BY <1>3, <1>4 DEF AgentSteps, Given
<1>5. CASE UNCHANGED vars
  BY <1>1, <1>5 DEF vars, stationVars
<1>6. CASE \/ \E c \in {"GOTO", "CANCEL"} : Press(c)
           \/ GuiCloses \/ CoordinatorCloses \/ Dies
           \/ StateArrives \/ GuiCommandArrives \/ CoordinatorCommandArrives \/ Lost
           \/ Heartbeat \/ LinkFalls \/ GraceOver
  BY <1>1, <1>6 DEF Press, GuiCloses, CoordinatorCloses, Dies, StateArrives, GuiCommandArrives,
     CoordinatorCommandArrives, Lost, Heartbeat, LinkFalls, GraceOver, stationVars
<1>7. QED BY <1>2, <1>4, <1>5, <1>6 DEF Next

LEMMA StationStep ==
  ASSUME StationInv, PhaseTyped, ~SlowAnswers, [Next]_vars
  PROVE  StationInv' /\ [SetsOut => wanted']_vars
<1>1. ASSUME UNCHANGED <<agent, link, nav, wanted>>,
             fromGui' = "GOTO_AGAIN" => fromGui = "GOTO_AGAIN",
             fromCoordinator' \in {"STOP", "RESUME", "CANCEL", Nothing}
      PROVE  StationInv' /\ (SetsOut => wanted')
  BY <1>1, RobotUnmoved
<1> fromCoordinator \in {"STOP", "RESUME", "CANCEL", Nothing}
  BY DEF StationInv, StationTyped
<1>2. CASE UNCHANGED vars
  BY <1>1, <1>2 DEF vars, agentVars, stationVars
<1>3. ASSUME NEW c \in {"GOTO", "CANCEL"}, Press(c)
      PROVE  StationInv' /\ (SetsOut => wanted')
  BY <1>1, <1>3 DEF Press, agentVars
<1>4. CASE GuiCloses \/ CoordinatorCloses \/ Dies \/ StateArrives \/ Lost
  BY <1>1, <1>4 DEF GuiCloses, CoordinatorCloses, Dies, StateArrives, Lost, agentVars, Nothing
<1>5. ASSUME NEW s \in Situations, Tick(s)
      PROVE  StationInv' /\ (SetsOut => wanted')
  <2>1. UNCHANGED <<agent, link, nav, wanted, fromGui>>
    BY <1>5 DEF Tick, agentVars
  <2>2. ASSUME Release \/ TickNormal(s) \/ TickYield(s) \/ UNCHANGED fromCoordinator
        PROVE  fromCoordinator' \in {fromCoordinator, "STOP", "RESUME"}
    <3>1. ASSUME TickNormal(s) PROVE fromCoordinator' \in {fromCoordinator, "STOP"}
      BY <3>1 DEF TickNormal
    <3>2. ASSUME TickYield(s) PROVE fromCoordinator' \in {fromCoordinator, "RESUME"}
      BY <3>2 DEF TickYield, Release
    <3>3. QED BY <2>2, <3>1, <3>2 DEF Release
  <2>3. Release \/ TickNormal(s) \/ TickYield(s) \/ UNCHANGED fromCoordinator
    <3>1. CASE ~s.fresh /\ yield.phase = "YIELD"
      BY <1>5, <3>1 DEF Tick
    <3>2. CASE ~s.fresh /\ yield.phase = "NORMAL"
      BY <1>5, <3>2 DEF Tick
    <3>3. CASE s.fresh /\ yield.phase = "NORMAL"
      BY <1>5, <3>3 DEF Tick
    <3>4. CASE s.fresh /\ yield.phase = "YIELD"
      BY <1>5, <3>4 DEF Tick
    <3>5. s.fresh \in BOOLEAN
      BY DEF Situations
    <3>6. QED BY <3>1, <3>2, <3>3, <3>4, <3>5 DEF PhaseTyped
  <2>4. QED BY <1>1, <2>1, <2>2, <2>3
<1>6. CASE GuiCommandArrives \/ CoordinatorCommandArrives \/ Heartbeat
  BY <1>6, CommandsKeep
<1>7. CASE LinkFalls \/ GraceOver
  BY <1>7, LinkKeeps
<1>8. CASE AgentSteps
  BY <1>8, AgentKeeps
<1>9. QED BY <1>2, <1>3, <1>4, <1>5, <1>6, <1>7, <1>8 DEF Next

(***************************************************************************)
(* The robot sets out only for a goal the operator still wants, if Nav2    *)
(* answers a request for a goal before another callback of the agent runs: *)
(* no RESUME brings back a goal that was cancelled, given up or lost with  *)
(* the link, and no repeated GOTO passes the link watch (agent_node.py     *)
(* _on_command, _check_link, link_watch.py accepts_motion_command).        *)
(***************************************************************************)
THEOREM RobotWaitsForGoals ==
  ASSUME ~SlowAnswers
  PROVE  LinkSpec => NoSelfStart
<1>1. LinkInit => StationInv /\ PhaseTyped
  BY StationStart DEF LinkInit, Init, PhaseTyped
<1>2. [LinkNext]_linkVars => [Next]_vars
  BY DEF LinkNext, linkVars
<1>3. StationInv /\ PhaseTyped /\ [LinkNext]_linkVars => (StationInv /\ PhaseTyped)'
  BY <1>2, StationStep, PhaseKeeps
<1>4. StationInv /\ PhaseTyped /\ [LinkNext]_linkVars => [SetsOut => wanted']_vars
  BY <1>2, StationStep
<1>5. QED BY <1>1, <1>3, <1>4, PTL DEF LinkSpec, NoSelfStart
=============================================================================
