------------------------------ MODULE Nav2Agent ------------------------------
(***************************************************************************)
(* The agent on a Nav2 robot (pinky_fleet_agent/agent_node.py) with its    *)
(* dead man's switch (link_watch.py), and the navigate_to_pose action of   *)
(* Nav2 it drives, external code modelled by what the agent's callbacks    *)
(* expect of it.  Loading a map touches none of this and is left out.      *)
(*                                                                         *)
(* Goals are told apart by whether the agent still listens to them: the    *)
(* callbacks of a goal whose number is not _goal_seq any more return at    *)
(* once.  Instants are not modelled: a limit may have passed or not.       *)
(***************************************************************************)
EXTENDS Naturals, Sequences

CONSTANTS
    SlowAnswers,    \* may callbacks run between a goal's request and its answer?
    MaxAsks         \* bound on goal requests under way

ASSUME AgentAssumption ==
    SlowAnswers \in BOOLEAN /\ MaxAsks \in Nat \ {0}

VARIABLES
    alive,      \* the agent process runs
    agent,      \* what it keeps about the goal
    link,       \* its LinkWatch
    nav         \* Nav2: goal requests, the goal it drives, a result under way

agentVars == <<alive, agent, link, nav>>

Statuses == {"IDLE", "ACTIVE", "HOLD", "SUCCEEDED", "ABORTED", "CANCELED"}
Ends == {"SUCCEEDED", "CANCELED", "ABORTED"}

Agents ==
    [hold : BOOLEAN, valid : BOOLEAN, status : Statuses,
     handle : {"none", "run", "gone"}]  \* _goal_handle: none, of the goal driven, of one past

Links == [armed : BOOLEAN, lost : BOOLEAN,
          grace : BOOLEAN]              \* less than restore_grace since the link came back

\* "cur": the agent listens to the goal; "old": it does not.
Navs == [asks : Seq({"cur", "old"}), run : {"none", "cur", "old"}, stopping : BOOLEAN,
         result : Ends \cup {"none"}]

AgentTypeOK ==
    /\ alive \in BOOLEAN /\ agent \in Agents /\ link \in Links
    /\ nav \in Navs /\ Len(nav.asks) <= MaxAsks

AgentInit ==
    /\ alive = TRUE
    /\ agent = [hold |-> FALSE, valid |-> FALSE, status |-> "IDLE", handle |-> "none"]
    /\ link = [armed |-> FALSE, lost |-> FALSE, grace |-> FALSE]
    /\ nav = [asks |-> <<>>, run |-> "none", stopping |-> FALSE, result |-> "none"]

-----------------------------------------------------------------------------
\* _goal_seq + 1: the callbacks of every earlier goal will return at once.
Forgotten(n) ==
    [n EXCEPT !.asks = [k \in 1..Len(n.asks) |-> "old"],
              !.run = IF @ = "none" THEN @ ELSE "old", !.result = "none"]

\* _cancel_goal: only a goal the agent has a handle of.
Cancelled(n) == [n EXCEPT !.stopping = @ \/ (agent.handle = "run")]

\* Nav2 takes a goal up and drops the one it drives.
TakesUp(n, tag) == [n EXCEPT !.run = tag, !.stopping = FALSE]

\* _send_goal, with a as the rest of the handler leaves it.
SendGoal(a) ==
    \/ /\ agent' = [a EXCEPT !.status = "ABORTED"]      \* no action server
       /\ UNCHANGED nav
    \/ /\ SlowAnswers /\ Len(nav.asks) < MaxAsks
       /\ agent' = [a EXCEPT !.status = "ACTIVE"]
       /\ nav' = [Forgotten(nav) EXCEPT !.asks = Append(@, "cur")]
    \/ /\ ~SlowAnswers
       /\ \/ /\ agent' = [a EXCEPT !.status = "ACTIVE", !.handle = "run"]
             /\ nav' = TakesUp(Forgotten(nav), "cur")
          \/ /\ agent' = [a EXCEPT !.status = "ABORTED"]
             /\ nav' = Forgotten(nav)

Goto ==
    SendGoal([agent EXCEPT !.hold = FALSE, !.valid = TRUE])

Stop ==
    /\ agent' = [agent EXCEPT !.hold = TRUE,
                              !.status = IF agent.handle = "none" THEN "HOLD" ELSE @]
    /\ nav' = Cancelled(nav)

Resume ==
    CASE ~agent.hold -> UNCHANGED <<agent, nav>>
      [] agent.hold /\ agent.valid -> SendGoal([agent EXCEPT !.hold = FALSE])
      [] agent.hold /\ ~agent.valid ->
            agent' = [agent EXCEPT !.hold = FALSE, !.status = "IDLE"] /\ UNCHANGED nav

Cancel ==
    /\ agent' = [agent EXCEPT !.hold = FALSE, !.valid = FALSE, !.status = "CANCELED"]
    /\ nav' = Cancelled(nav)

\* LinkWatch.on_command: a lost link comes back with any command, and grace begins.
Heard(heartbeat) ==
    link' = [link EXCEPT !.armed = @ \/ heartbeat, !.lost = FALSE,
                         !.grace = @ \/ link.lost]

MutMotionAcceptedAlways == TRUE

\* accepts_motion_command, asked after on_command.
MotionAccepted == ~link.grace /\ ~link.lost

\* _on_command
Command(c) ==
    /\ alive
    /\ Heard(c = "HEARTBEAT")
    /\ CASE c = "GOTO" /\ MotionAccepted -> Goto
         [] c = "STOP" -> Stop
         [] c = "RESUME" -> Resume
         [] c = "CANCEL" -> Cancel
         [] OTHER -> UNCHANGED <<agent, nav>>
    /\ UNCHANGED alive

-----------------------------------------------------------------------------
(***************************************************************************)
(* Nav2's answers and the callbacks that take them.                        *)
(***************************************************************************)
\* Nav2 answers the goal that was asked for first; _on_goal_response.
GoalAnswered(accepted) ==
    /\ nav.asks # <<>>
    /\ LET tag == Head(nav.asks)
           n == [nav EXCEPT !.asks = Tail(@)]
           gone == IF agent.handle = "run" /\ accepted THEN "gone" ELSE agent.handle
       IN /\ nav' = IF accepted THEN TakesUp(n, tag) ELSE n
          /\ agent' = CASE ~alive \/ tag = "old" -> [agent EXCEPT !.handle = gone]
                        [] alive /\ tag = "cur" /\ accepted ->
                              [agent EXCEPT !.handle = "run", !.status = "ACTIVE"]
                        [] alive /\ tag = "cur" /\ ~accepted ->
                              [agent EXCEPT !.status = "ABORTED"]
    /\ UNCHANGED <<alive, link>>

\* The goal ends: reached, given up, or cancelled when that was asked.
GoalEnds(end) ==
    /\ nav.run # "none"
    /\ end = "CANCELED" => nav.stopping
    /\ nav' = [nav EXCEPT !.run = "none", !.stopping = FALSE,
                          !.result = IF nav.run = "cur" THEN end ELSE @]
    /\ agent' = [agent EXCEPT !.handle = IF @ = "run" THEN "gone" ELSE @]
    /\ UNCHANGED <<alive, link>>

\* _on_goal_result: a goal cancelled by STOP waits for RESUME.
GoalResult ==
    /\ alive /\ nav.result # "none"
    /\ agent' = [agent EXCEPT
          !.handle = "none",
          !.valid = @ /\ nav.result # "SUCCEEDED",
          !.status = IF nav.result = "CANCELED" /\ agent.hold THEN "HOLD" ELSE nav.result]
    /\ nav' = [nav EXCEPT !.result = "none"]
    /\ UNCHANGED <<alive, link>>

-----------------------------------------------------------------------------
(***************************************************************************)
(* The state timer.                                                        *)
(***************************************************************************)
MutGivesUpForgetsFirst(a) ==        \* the handle is dropped before the cancel
    /\ agent' = [a EXCEPT !.hold = FALSE, !.valid = FALSE, !.handle = "none"]
    /\ nav' = Forgotten(nav)

\* The goal is given up for good: cancelled, and no callback of it heard.
GivesUp(a) ==
    /\ agent' = [a EXCEPT !.hold = FALSE, !.valid = FALSE, !.handle = "none"]
    /\ nav' = Forgotten(Cancelled(nav))

\* _check_link: LinkWatch.poll says LOST, once.
DeadMan ==
    /\ alive /\ link.armed /\ ~link.lost
    /\ link' = [link EXCEPT !.lost = TRUE, !.grace = FALSE]
    /\ IF agent.valid \/ agent.hold THEN GivesUp(agent) ELSE UNCHANGED <<agent, nav>>
    /\ UNCHANGED alive

GraceEnds ==
    /\ link.grace
    /\ link' = [link EXCEPT !.grace = FALSE]
    /\ UNCHANGED <<alive, agent, nav>>

MutHoldWatchdogGoalOnly ==
    /\ alive /\ agent.hold /\ agent.valid
    /\ GivesUp([agent EXCEPT !.status = "IDLE"])
    /\ UNCHANGED <<alive, link>>

\* _check_hold_watchdog
HoldWatchdog ==
    /\ alive /\ agent.hold
    /\ GivesUp([agent EXCEPT !.status = "IDLE"])
    /\ UNCHANGED <<alive, link>>

\* nav_status of the RobotState that _publish_state sends.
Shown == IF link.lost THEN "LINK_LOST" ELSE agent.status

\* shutdown_navigation: SIGINT cancels the goal the agent has a handle of.
ShutDown ==
    /\ alive
    /\ alive' = FALSE
    /\ nav' = Cancelled(nav)
    /\ agent' = [agent EXCEPT !.valid = @ /\ agent.handle = "none"]
    /\ UNCHANGED link
=============================================================================
