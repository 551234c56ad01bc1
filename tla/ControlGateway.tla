--------------------------- MODULE ControlGateway ---------------------------
(***************************************************************************)
(* The commands of the web gateway: the control lease (control_policy.py), *)
(* the HTTP handlers that check a command, put it on the control topic and *)
(* wait for what became of it (gateway_web_server.py), and the             *)
(* coordinator's dispatch of the topic.  Each client is one address with   *)
(* one request at a time; every request has a thread of its own.           *)
(*                                                                         *)
(* Instants are not modelled: a lease may have run out, a wait may be      *)
(* over.  FleetControl has what this module leaves out of the coordinator: *)
(* routes, the robots and what they report, the control file and restarts. *)
(***************************************************************************)
EXTENDS Naturals, Sequences, FiniteSets

CONSTANTS
    Remote,     \* the addresses the operator may put on the allow list
    Local,      \* the relay's own console
    None,
    MaxQueue    \* bound on commands under way on the control topic

\* What Gateway assumes of them.
CommandConstants ==
    Local \notin Remote /\ None \notin Remote \cup {Local} /\ MaxQueue \in Nat \ {0}

VARIABLES
    allowed,    \* the enabled entries of control_allow.json
    lease,      \* ControlPolicy.holder; quiet: silent for longer than ttl_s
    request,    \* of each client: its command and how far its thread has got
    queue,      \* /fleet/lane/control
    fleet,      \* the coordinator: mission state, the states before a stop and an
                \* emergency stop
    last,       \* last_control
    ran         \* the fleet was started since it was last assigned or done

vars == <<allowed, lease, request, queue, fleet, last, ran>>

Clients == Remote \cup {Local}
Moving == {"start", "resume", "resume_robot", "profile"}
Stopping == {"stop", "estop"}
Missions == {"ASSIGNED", "RUNNING", "STOPPED", "ESTOP", "DONE"}

NoRequest == [cmd |-> "none", stage |-> "idle", news |-> FALSE, ok |-> FALSE]

\* last_control while no thread looks at it.
Unread == [cmd |-> "none", ok |-> FALSE]

TypeOK ==
    /\ allowed \subseteq Remote
    /\ lease \in [holder : Clients \cup {None}, quiet : BOOLEAN]
    /\ request \in [Clients ->
          [cmd : Moving \cup Stopping \cup {"none"},
           stage : {"idle", "waiting"},
           news : BOOLEAN,      \* a command was dispatched since this one was sent
           ok : BOOLEAN]]       \* a command of this kind was applied since then
    /\ queue \in Seq(Moving \cup Stopping) /\ Len(queue) <= MaxQueue
    /\ fleet \in [mission : Missions, preStop : Missions \cup {None},
                  preEstop : Missions \cup {None}]
    /\ last \in [cmd : Moving \cup Stopping \cup {"none"}, ok : BOOLEAN]
    /\ ran \in BOOLEAN

Init ==
    /\ allowed = {} /\ lease = [holder |-> None, quiet |-> FALSE]
    /\ request = [c \in Clients |-> NoRequest]
    /\ queue = <<>>
    /\ fleet = [mission |-> "ASSIGNED", preStop |-> None, preEstop |-> None]
    /\ last = Unread
    /\ ran = FALSE

-----------------------------------------------------------------------------
(***************************************************************************)
(* The lease.                                                              *)
(***************************************************************************)
\* AllowList: the file is edited, and read again at the next request.
EditAllowList ==
    /\ allowed' \in SUBSET Remote /\ allowed' # allowed
    /\ UNCHANGED <<lease, request, queue, fleet, last, ran>>

\* ttl_s passes without a request of the holder.
HolderSilent ==
    /\ lease.holder # None /\ lease' = [lease EXCEPT !.quiet = TRUE]
    /\ UNCHANGED <<allowed, request, queue, fleet, last, ran>>

\* touch: any request keeps a lease that has not run out.
Touched ==
    IF lease.quiet THEN [holder |-> None, quiet |-> FALSE] ELSE lease

Known(c) == c = Local \/ c \in allowed

\* acquire and may_move: the console always, others when nobody else holds it.
MayMove(c) == Known(c) /\ (c = Local \/ Touched.holder \in {None, c})

\* /api/control/release
Release(c) ==
    /\ Touched.holder # None /\ (Touched.holder = c \/ c = Local)
    /\ lease' = [holder |-> None, quiet |-> FALSE]
    /\ UNCHANGED <<allowed, request, queue, fleet, last, ran>>

\* /api/control/acquire
Acquire(c) ==
    /\ MayMove(c)
    /\ lease' = [holder |-> c, quiet |-> FALSE]
    /\ UNCHANGED <<allowed, request, queue, fleet, last, ran>>

-----------------------------------------------------------------------------
(***************************************************************************)
(* The handlers.                                                           *)
(***************************************************************************)
Latched == fleet.mission = "ESTOP"

\* profile_switch_blocker, of robots that stand.
SwitchBlocked == fleet.mission \notin {"ASSIGNED", "DONE"}

\* What the handlers and the coordinator refuse alike: a start and one robot's
\* resume under an emergency stop, a switch of the profile on the way.
StartRefused == Latched
RobotRefused == Latched
ProfileRefused == SwitchBlocked
Refused(cmd) ==
    CASE cmd = "start" -> StartRefused
      [] cmd = "resume_robot" -> RobotRefused
      [] cmd = "profile" -> ProfileRefused
      [] OTHER -> FALSE

\* Only a moving command asks the lease (_deny_if_cannot_move).
Granted(c, cmd) == cmd \in Moving => MayMove(c)

\* control_seq read, and the command sent; a stop is not waited for.
Sent(c, cmd) ==
    /\ Len(queue) < MaxQueue
    /\ queue' = Append(queue, cmd)
    /\ request' = IF cmd \in Moving
                  THEN [request EXCEPT ![c] = [NoRequest EXCEPT !.cmd = cmd, !.stage = "waiting"]]
                  ELSE request

\* A POST arrives.
Ask(c, cmd) ==
    /\ request[c].stage = "idle"
    /\ lease' = IF Granted(c, cmd) /\ cmd \in Moving THEN [holder |-> c, quiet |-> FALSE]
                ELSE Touched
    /\ IF Granted(c, cmd) /\ ~Refused(cmd) THEN Sent(c, cmd) ELSE UNCHANGED <<queue, request>>
    /\ UNCHANGED <<allowed, fleet, last, ran>>

MutResultOld(c) ==          \* control_seq is not compared
    IF last.cmd = request[c].cmd THEN IF last.ok THEN "applied" ELSE "refused" ELSE "unknown"

\* wait_control_result and applied_reply.
Result(c) ==
    IF request[c].news /\ last.cmd = request[c].cmd
    THEN IF last.ok THEN "applied" ELSE "refused"
    ELSE "unknown"

\* The thread answers: with the result, or when the time for it is over.
Answer(c) ==
    /\ request[c].stage = "waiting"
    /\ request' = [request EXCEPT ![c] = NoRequest]
    /\ UNCHANGED <<allowed, lease, queue, fleet, last, ran>>

-----------------------------------------------------------------------------
(***************************************************************************)
(* The coordinator.                                                        *)
(***************************************************************************)
StartFleet == fleet' = [fleet EXCEPT !.mission = "RUNNING"] /\ ran' = TRUE

MutStopFleetAgain ==        \* a second stop is taken for a first one
    fleet' = [fleet EXCEPT !.preStop = fleet.mission, !.mission = "STOPPED"] /\ UNCHANGED ran

StopFleet ==
    /\ fleet' = [fleet EXCEPT !.preStop = IF fleet.mission = "STOPPED" THEN @ ELSE fleet.mission,
                              !.mission = "STOPPED"]
    /\ UNCHANGED ran

EstopFleet ==
    /\ fleet' = [fleet EXCEPT !.preEstop = IF fleet.mission = "ESTOP" THEN @ ELSE fleet.mission,
                              !.mission = "ESTOP"]
    /\ UNCHANGED ran

\* resume_fleet: back to the state before the emergency stop, before the stop.
ResumesTo ==
    LET back == IF fleet.mission = "ESTOP" THEN fleet.preEstop ELSE fleet.mission
        past == IF back = "STOPPED" THEN fleet.preStop ELSE back
    IN IF past \in {"RUNNING", "ASSIGNED", "DONE"} THEN past ELSE "ASSIGNED"

ResumeFleet ==
    /\ fleet' = [mission |-> ResumesTo, preStop |-> None, preEstop |-> None]
    /\ UNCHANGED ran

\* switch_profile: every robot is given a route of the new graph.
SwitchProfile ==
    /\ fleet' = [mission |-> "ASSIGNED", preStop |-> None, preEstop |-> None]
    /\ ran' = FALSE

Applied(cmd) ==
    CASE cmd = "start" -> StartFleet
      [] cmd = "stop" -> StopFleet
      [] cmd = "estop" -> EstopFleet
      [] cmd = "resume" -> ResumeFleet
      [] cmd = "profile" -> SwitchProfile
      [] OTHER -> UNCHANGED <<fleet, ran>>       \* a robot's HOLD

\* _cb_control
Dispatch ==
    /\ queue # <<>>
    /\ LET cmd == Head(queue)
           ok == ~Refused(cmd) /\ ~(cmd = "stop" /\ Latched)
       IN /\ IF ok THEN Applied(cmd) ELSE UNCHANGED <<fleet, ran>>
          /\ last' = IF \E c \in Clients : request[c].stage = "waiting"
                     THEN [cmd |-> cmd, ok |-> ok] ELSE Unread
          /\ request' = [c \in Clients |->
                IF request[c].stage = "waiting"
                THEN [request[c] EXCEPT !.news = TRUE,
                                        !.ok = @ \/ (ok /\ request[c].cmd = cmd)]
                ELSE request[c]]
    /\ queue' = Tail(queue)
    /\ UNCHANGED <<allowed, lease>>

\* _check_mission_done: every robot has arrived, and that was confirmed.
MissionDone ==
    /\ fleet.mission = "RUNNING"
    /\ fleet' = [fleet EXCEPT !.mission = "DONE"] /\ ran' = FALSE
    /\ UNCHANGED <<allowed, lease, request, queue, last>>

Next ==
    \/ EditAllowList \/ HolderSilent
    \/ \E c \in Clients : \/ Release(c) \/ Acquire(c) \/ Answer(c)
                          \/ \E cmd \in Moving \cup Stopping : Ask(c, cmd)
    \/ Dispatch \/ MissionDone

Spec == Init /\ [][Next]_vars

-----------------------------------------------------------------------------
(***************************************************************************)
(* No handler tells its client "applied" because of an older result: a      *)
(* command of that kind was applied after it sent its own.  It reads       *)
(* control_seq before it sends, and looks at last_control while other      *)
(* clients' commands are dispatched.                                       *)
(***************************************************************************)
RepliesAreNew ==
    \A c \in Clients : request[c].stage = "waiting" /\ Result(c) = "applied" => request[c].ok

(***************************************************************************)
(* The fleet runs only if somebody started it since it was last assigned   *)
(* or done: whatever stops, emergency stops and resumes are pressed, by    *)
(* whom and however often, a resume sets off no fleet that did not run.    *)
(***************************************************************************)
RunningWasStarted == fleet.mission = "RUNNING" => ran

(***************************************************************************)
(* A resume comes back to a fleet that ran: a stop or an emergency stop,   *)
(* pressed again or one on top of the other, does not lose what it         *)
(* interrupted.                                                            *)
(***************************************************************************)
RunIsKept == ran => fleet.mission \in {"RUNNING"} \/ ResumesTo = "RUNNING"

(***************************************************************************)
(* Control passes from one laptop to another only when the first let go of *)
(* it or fell silent; only the console takes it away.                      *)
(***************************************************************************)
TakenAway ==
    /\ lease.holder \in Remote /\ lease'.holder \in Clients \ {lease.holder}
    /\ ~lease.quiet
LeaseKept == [][TakenAway => lease'.holder = Local]_vars
=============================================================================
