------------------------------- MODULE Station -------------------------------
(***************************************************************************)
(* The fleet station and a Nav2 robot: the window of the operator          *)
(* (gui_node.py), the coordinator that makes one of two robots give way    *)
(* when they stand close to each other (coordinator_node.py), the command  *)
(* topic they share, and the agent of the robot with the larger domain,    *)
(* the only one the coordinator commands.  The other robot is what the     *)
(* coordinator sees of it, and may be anything at every tick.              *)
(***************************************************************************)
EXTENDS Nav2Agent

CONSTANTS
    StallTicks      \* stall_duration, in ticks of the coordinator

ASSUME StationAssumption == StallTicks \in Nat \ {0}

VARIABLES
    gui, coordinator,   \* the two processes: do they run?
    fromGui,            \* the command of each that is under way
    fromCoordinator,
    seen,               \* is ACTIVE the nav_status the coordinator received last?
    yield,              \* its state: phase, stall timer, cooldown
    wanted              \* the operator's goal stands: asked for, and neither reached,
                        \* cancelled, nor given up since

stationVars == <<gui, coordinator, fromGui, fromCoordinator, seen, yield>>
vars == <<agentVars, stationVars, wanted>>

Nothing == "NOTHING"
\* "GOTO_AGAIN": a GOTO sent before the link was lost, which the transport repeats.
GuiCommands == {"GOTO", "GOTO_AGAIN", "CANCEL"}

TypeOK ==
    /\ AgentTypeOK
    /\ {gui, coordinator, wanted, seen} \subseteq BOOLEAN
    /\ fromGui \in GuiCommands \cup {Nothing}
    /\ fromCoordinator \in {"STOP", "RESUME", "CANCEL", Nothing}
    /\ yield \in [phase : {"NORMAL", "YIELD"}, stall : 0..StallTicks, cooling : BOOLEAN]

Init ==
    /\ AgentInit
    /\ gui = TRUE /\ coordinator = TRUE
    /\ fromGui = Nothing /\ fromCoordinator = Nothing
    /\ seen = FALSE
    /\ yield = [phase |-> "NORMAL", stall |-> 0, cooling |-> FALSE]
    /\ wanted = FALSE

-----------------------------------------------------------------------------
\* The buttons: send_goto, send_cancel.
Press(c) ==
    /\ gui
    /\ fromGui' = c
    /\ UNCHANGED <<agentVars, gui, coordinator, fromCoordinator, seen, yield, wanted>>

\* closeEvent: the robots are cancelled and the heartbeats end.
GuiCloses ==
    /\ gui
    /\ gui' = FALSE /\ fromGui' = "CANCEL"
    /\ UNCHANGED <<agentVars, coordinator, fromCoordinator, seen, yield, wanted>>

\* shutdown_robots
CoordinatorCloses ==
    /\ coordinator
    /\ coordinator' = FALSE /\ fromCoordinator' = "CANCEL"
    /\ UNCHANGED <<agentVars, gui, fromGui, seen, yield, wanted>>

\* Either process may also just be gone.
Dies ==
    /\ \/ gui /\ gui' = FALSE /\ UNCHANGED coordinator
       \/ coordinator /\ coordinator' = FALSE /\ UNCHANGED gui
    /\ UNCHANGED <<agentVars, fromGui, fromCoordinator, seen, yield, wanted>>

-----------------------------------------------------------------------------
(***************************************************************************)
(* The coordinator's tick.  fresh: both states are recent; tight: the      *)
(* leader drives, both robots stand, and close; room: the leader is done   *)
(* or far enough; cooled, late: the cooldown and the resume timeout are    *)
(* over.                                                                   *)
(***************************************************************************)
Situations ==
    {s \in [fresh : BOOLEAN, tight : BOOLEAN, room : BOOLEAN, cooled : BOOLEAN, late : BOOLEAN] :
        ~(s.tight /\ s.room)}

\* _release
Release ==
    /\ yield' = [phase |-> "NORMAL", stall |-> 0, cooling |-> TRUE]
    /\ fromCoordinator' = "RESUME"

\* _tick_normal: two robots that drive but stand close for long: the second gives way.
TickNormal(s) ==
    LET cooling == yield.cooling /\ ~s.cooled
        stall == IF ~cooling /\ s.tight /\ seen THEN yield.stall + 1 ELSE 0
    IN IF stall >= StallTicks
       THEN /\ yield' = [phase |-> "YIELD", stall |-> 0, cooling |-> cooling]
            /\ fromCoordinator' = "STOP"
       ELSE /\ yield' = [phase |-> "NORMAL", stall |-> stall, cooling |-> cooling]
            /\ UNCHANGED fromCoordinator

\* _tick_yield: room, a leader that is done, or enough waited.
TickYield(s) ==
    IF s.room \/ s.late THEN Release
    ELSE UNCHANGED <<yield, fromCoordinator>>

Tick(s) ==
    /\ coordinator
    /\ CASE ~s.fresh /\ yield.phase = "YIELD" -> Release
         [] ~s.fresh /\ yield.phase = "NORMAL" ->
               yield' = [yield EXCEPT !.stall = 0] /\ UNCHANGED fromCoordinator
         [] s.fresh /\ yield.phase = "NORMAL" -> TickNormal(s)
         [] s.fresh /\ yield.phase = "YIELD" -> TickYield(s)
    /\ UNCHANGED <<agentVars, gui, coordinator, fromGui, seen, wanted>>

StateArrives ==
    /\ alive /\ coordinator
    /\ seen' = (Shown = "ACTIVE")
    /\ UNCHANGED <<agentVars, gui, coordinator, fromGui, fromCoordinator, yield,
                   wanted>>

-----------------------------------------------------------------------------
(***************************************************************************)
(* The command topic: two senders without an order between them; what is   *)
(* under way when the next is sent is lost.                                *)
(***************************************************************************)
GuiCommandArrives ==
    /\ fromGui # Nothing
    /\ Command(IF fromGui = "GOTO_AGAIN" THEN "GOTO" ELSE fromGui)
    /\ wanted' = CASE fromGui = "GOTO" /\ MotionAccepted -> TRUE
                   [] fromGui = "CANCEL" -> FALSE
                   [] OTHER -> wanted
    /\ fromGui' = Nothing
    /\ UNCHANGED <<gui, coordinator, fromCoordinator, seen, yield>>

CoordinatorCommandArrives ==
    /\ fromCoordinator # Nothing
    /\ Command(fromCoordinator)
    /\ wanted' = (wanted /\ fromCoordinator # "CANCEL")
    /\ fromCoordinator' = Nothing
    /\ UNCHANGED <<gui, coordinator, fromGui, seen, yield>>

Lost ==
    /\ \/ fromGui' = Nothing /\ UNCHANGED fromCoordinator
       \/ fromCoordinator' = Nothing /\ UNCHANGED fromGui
    /\ UNCHANGED <<agentVars, gui, coordinator, seen, yield, wanted>>

\* _publish_heartbeats, of either process.
Heartbeat ==
    /\ gui \/ coordinator
    /\ Command("HEARTBEAT")
    /\ UNCHANGED <<stationVars, wanted>>

\* The link falls silent for command_timeout; a GOTO under way will be a repeated one.
LinkFalls ==
    /\ DeadMan
    /\ wanted' = FALSE
    /\ fromGui' = IF fromGui = "GOTO" THEN "GOTO_AGAIN" ELSE fromGui
    /\ UNCHANGED <<gui, coordinator, fromCoordinator, seen, yield>>

\* The transport repeats within milliseconds of the link's return.
GraceOver ==
    /\ GraceEnds
    /\ fromGui # "GOTO_AGAIN"
    /\ UNCHANGED <<stationVars, wanted>>

Given(A) == A /\ UNCHANGED stationVars

AgentSteps ==
    \/ Given(\E accepted \in BOOLEAN : GoalAnswered(accepted)) /\ UNCHANGED wanted
    \/ Given(\E end \in Ends : GoalEnds(end)) /\ UNCHANGED wanted
    \/ Given(GoalResult) /\ wanted' = (wanted /\ nav.result # "SUCCEEDED")
    \/ Given(HoldWatchdog) /\ wanted' = FALSE
    \/ Given(ShutDown) /\ UNCHANGED wanted

Next ==
    \/ \E c \in {"GOTO", "CANCEL"} : Press(c)
    \/ GuiCloses \/ CoordinatorCloses \/ Dies
    \/ \E s \in Situations : Tick(s)
    \/ StateArrives \/ GuiCommandArrives \/ CoordinatorCommandArrives \/ Lost
    \/ Heartbeat \/ LinkFalls \/ GraceOver
    \/ AgentSteps

Spec == Init /\ [][Next]_vars

(***************************************************************************)
(* The timers of the agent and the coordinator run, Nav2 answers, and a    *)
(* robot that was told to cancel a goal ends it.                           *)
(***************************************************************************)
Fairness ==
    /\ WF_vars(LinkFalls /\ ~gui /\ ~coordinator)
    /\ WF_vars(Given(HoldWatchdog) /\ wanted' = FALSE)
    /\ WF_vars(\E s \in Situations : s.late /\ Tick(s))
    /\ WF_vars(Given(\E accepted \in BOOLEAN : GoalAnswered(accepted)) /\ UNCHANGED wanted)
    /\ WF_vars(nav.stopping /\ Given(\E end \in Ends : GoalEnds(end)) /\ UNCHANGED wanted)
    /\ WF_vars(Given(GoalResult) /\ wanted' = (wanted /\ nav.result # "SUCCEEDED"))

FairSpec == Spec /\ Fairness

-----------------------------------------------------------------------------
(***************************************************************************)
(* The robot sets out only for a goal the operator still wants: not by a   *)
(* RESUME after the goal was cancelled, after the link was lost or the     *)
(* wait was given up, and not by a GOTO that the transport repeats when    *)
(* the link is back.                                                       *)
(***************************************************************************)
SetsOut == nav.run # "cur" /\ nav'.run = "cur"
NoSelfStart == [][SetsOut => wanted']_vars

(***************************************************************************)
(* When the whole station is gone, the robot stops: by the cancel that was *)
(* sent at closing or, if that is lost or was never sent, by its own dead  *)
(* man's switch.                                                           *)
(***************************************************************************)
Deserted == ~gui /\ ~coordinator /\ alive /\ link.armed
SilentStops == Deserted ~> nav.run = "none" \/ ~alive

(***************************************************************************)
(* Giving way ends: whatever becomes of the commands, of the coordinator   *)
(* or of the leader, the robot does not hold for ever.                     *)
(***************************************************************************)
YieldEnds == agent.hold ~> ~agent.hold \/ ~alive
=============================================================================
