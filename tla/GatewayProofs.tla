----------------------------- MODULE GatewayProofs -----------------------------
(***************************************************************************)
(* The commands, the calibration and the scenarios of the relay, for any   *)
(* clients, places, robots, titles and courses.  A step of the gateway is  *)
(* one of its parts' and leaves the others' state alone; each part has an  *)
(* invariant of its own.                                                   *)
(***************************************************************************)
EXTENDS Gateway, TLAPS, SequenceTheorems, FiniteSetTheorems, WellFoundedInduction

----------------------------------------------------------------------------
(* The commands. *)

\* Whether the fleet was started is what a resume would come back to: a stop on a
\* stop, or on an emergency stop, leaves what the first one interrupted.
StartedIsKept == (ran = TRUE) <=> (Commands!ResumesTo = "RUNNING")

Request == [cmd : Commands!Moving \cup Commands!Stopping \cup {"none"},
            stage : {"idle", "waiting"}, news : BOOLEAN, ok : BOOLEAN]

\* While a request waits, the last result counts as new only if its command was
\* dispatched after the request was sent.
CommandsInv == Commands!TypeOK /\ StartedIsKept /\ Commands!RepliesAreNew

LEMMA CommandsStart == Commands!Init => CommandsInv
<1> SUFFICES ASSUME Commands!Init PROVE CommandsInv
  OBVIOUS
<1>1. << >> \in Seq(Commands!Moving \cup Commands!Stopping) /\ Len(<< >>) = 0
  OBVIOUS
<1>2. Commands!TypeOK
  <2>1. /\ allowed \subseteq Remote /\ ran \in BOOLEAN
        /\ lease \in [holder : Commands!Clients \cup {None}, quiet : BOOLEAN]
    BY DEF Commands!Init
  <2>2. request \in [Commands!Clients -> Request]
    BY DEF Commands!Init, Commands!NoRequest, Request
  <2>3. /\ fleet \in [mission : Commands!Missions, preStop : Commands!Missions \cup {None},
                      preEstop : Commands!Missions \cup {None}]
        /\ last \in [cmd : Commands!Moving \cup Commands!Stopping \cup {"none"},
                     ok : BOOLEAN]
    BY DEF Commands!Init, Commands!Missions, Commands!Unread
  <2>4. queue \in Seq(Commands!Moving \cup Commands!Stopping) /\ Len(queue) <= MaxQueue
    BY <1>1, OperatorAssumption DEF Commands!Init, Commands!CommandConstants
  <2>5. QED BY <2>1, <2>2, <2>3, <2>4 DEF Commands!TypeOK, Request
<1>3. StartedIsKept
  BY DEF StartedIsKept, Commands!ResumesTo, Commands!Init
<1>4. Commands!RepliesAreNew
  BY DEF Commands!RepliesAreNew, Commands!Init, Commands!NoRequest
<1>5. QED BY <1>2, <1>3, <1>4 DEF CommandsInv

(* One more command under way, none that was not asked for. *)
LEMMA SentTyped ==
  ASSUME Commands!TypeOK, NEW c \in Commands!Clients,
         NEW cmd \in Commands!Moving \cup Commands!Stopping, Commands!Sent(c, cmd)
  PROVE  /\ queue' \in Seq(Commands!Moving \cup Commands!Stopping) /\ Len(queue') <= MaxQueue
         /\ request' \in [Commands!Clients -> Request]
         /\ \A x \in Commands!Clients : request'[x] = request[x] \/ ~request'[x].news
<1>1. MaxQueue \in Nat
  BY OperatorAssumption DEF Commands!CommandConstants
<1>2. /\ queue \in Seq(Commands!Moving \cup Commands!Stopping)
      /\ queue' = Append(queue, cmd) /\ Len(queue) < MaxQueue
  BY DEF Commands!Sent, Commands!TypeOK
<1>3. queue' \in Seq(Commands!Moving \cup Commands!Stopping) /\ Len(queue') <= MaxQueue
  BY <1>1, <1>2
<1> DEFINE n == [Commands!NoRequest EXCEPT !.cmd = cmd, !.stage = "waiting"]
<1>4. Commands!NoRequest \in Request /\ ~Commands!NoRequest.news
  BY DEF Commands!NoRequest, Request
<1>5. n \in Request /\ ~n.news
  BY <1>4 DEF Request
<1>6. request \in [Commands!Clients -> Request]
  BY DEF Commands!TypeOK, Request
<1>7. request' = request \/ request' = [request EXCEPT ![c] = n]
  BY DEF Commands!Sent
<1> HIDE DEF n
<1>8. QED BY <1>3, <1>5, <1>6, <1>7

(* What the coordinator does with a command it does not refuse. *)
LEMMA AppliedKeeps ==
  ASSUME Commands!TypeOK, StartedIsKept,
         NEW cmd \in Commands!Moving \cup Commands!Stopping,
         ~Commands!Refused(cmd), ~(cmd = "stop" /\ Commands!Latched),
         Commands!Applied(cmd)
  PROVE  /\ fleet' \in [mission : Commands!Missions, preStop : Commands!Missions \cup {None},
                        preEstop : Commands!Missions \cup {None}]
         /\ ran' \in BOOLEAN /\ StartedIsKept'
<1> USE DEF Commands!Missions, StartedIsKept, Commands!ResumesTo
<1>1. /\ fleet \in [mission : Commands!Missions, preStop : Commands!Missions \cup {None},
                    preEstop : Commands!Missions \cup {None}]
      /\ ran \in BOOLEAN
  BY DEF Commands!TypeOK
<1>2. CASE cmd = "start"
  BY <1>1, <1>2 DEF Commands!Applied, Commands!StartFleet
<1>3. CASE cmd = "stop"
  BY <1>1, <1>3 DEF Commands!Applied, Commands!StopFleet, Commands!Latched
<1>4. CASE cmd = "estop"
  BY <1>1, <1>4 DEF Commands!Applied, Commands!EstopFleet
<1>5. CASE cmd = "resume"
  BY <1>1, <1>5 DEF Commands!Applied, Commands!ResumeFleet
<1>6. CASE cmd = "profile"
  <2>1. fleet' = [mission |-> "ASSIGNED", preStop |-> None, preEstop |-> None] /\ ran' = FALSE
    BY <1>6 DEF Commands!Applied, Commands!SwitchProfile
  <2>2. QED BY <2>1
<1>7. CASE cmd = "resume_robot"
  BY <1>1, <1>7 DEF Commands!Applied
<1>8. QED BY <1>2, <1>3, <1>4, <1>5, <1>6, <1>7 DEF Commands!Moving, Commands!Stopping

LEMMA DispatchKeeps ==
  ASSUME CommandsInv, Commands!Dispatch
  PROVE  CommandsInv'
<1> DEFINE cmd == Head(queue)
           ok == ~Commands!Refused(cmd) /\ ~(cmd = "stop" /\ Commands!Latched)
<1>1. /\ queue # << >> /\ queue \in Seq(Commands!Moving \cup Commands!Stopping)
      /\ Len(queue) <= MaxQueue /\ MaxQueue \in Nat /\ Commands!TypeOK
  BY OperatorAssumption
     DEF CommandsInv, Commands!TypeOK, Commands!Dispatch, Commands!CommandConstants
<1>2. /\ cmd \in Commands!Moving \cup Commands!Stopping
      /\ queue' \in Seq(Commands!Moving \cup Commands!Stopping) /\ Len(queue') <= MaxQueue
  <2> DEFINE T == Commands!Moving \cup Commands!Stopping
  <2>1. queue' = Tail(queue)
    BY DEF Commands!Dispatch
  <2> HIDE DEF T
  <2>2. cmd \in T /\ queue' \in Seq(T) /\ Len(queue') <= MaxQueue
    <3>1. queue \in Seq(T) /\ queue # << >> /\ Len(queue) <= MaxQueue /\ MaxQueue \in Nat
      BY <1>1 DEF T
    <3>2. QED BY <2>1, <3>1
  <2>3. QED BY <2>2 DEF T
<1>3. ok \in BOOLEAN
  OBVIOUS
<1>4. /\ IF ok THEN Commands!Applied(cmd) ELSE UNCHANGED <<fleet, ran>>
      /\ last' = IF \E c \in Commands!Clients : request[c].stage = "waiting"
                 THEN [cmd |-> cmd, ok |-> ok] ELSE Commands!Unread
      /\ request' = [c \in Commands!Clients |->
            IF request[c].stage = "waiting"
            THEN [request[c] EXCEPT !.news = TRUE,
                                    !.ok = @ \/ (ok /\ request[c].cmd = cmd)]
            ELSE request[c]]
      /\ UNCHANGED <<allowed, lease>>
  BY DEF Commands!Dispatch
<1>5. /\ fleet' \in [mission : Commands!Missions, preStop : Commands!Missions \cup {None},
                     preEstop : Commands!Missions \cup {None}]
      /\ ran' \in BOOLEAN /\ StartedIsKept'
  <2>1. CASE ok
    BY <1>1, <1>2, <1>4, <2>1, AppliedKeeps DEF CommandsInv
  <2>2. CASE ~ok
    BY <1>1, <1>4, <2>2
       DEF CommandsInv, Commands!TypeOK, StartedIsKept, Commands!ResumesTo
  <2>3. QED BY <2>1, <2>2
<1> HIDE DEF ok, cmd
<1>6. ASSUME NEW c \in Commands!Clients
      PROVE  /\ request[c] \in Request /\ request'[c] \in Request
             /\ request'[c].stage = request[c].stage /\ request'[c].cmd = request[c].cmd
             /\ request[c].stage = "waiting" /\ ok /\ request[c].cmd = cmd => request'[c].ok
  <2>1. request[c] \in Request
    BY <1>1 DEF Commands!TypeOK, Request
  <2> DEFINE q == request[c]
             n == q.ok \/ (ok /\ q.cmd = cmd)
  <2>2. request'[c] = IF q.stage = "waiting" THEN [q EXCEPT !.news = TRUE, !.ok = n] ELSE q
    BY <1>4
  <2>3. n \in BOOLEAN
    BY <1>3, <2>1 DEF Request
  <2>4. (ok /\ q.cmd = cmd) => n
    OBVIOUS
  <2> HIDE DEF q, n
  <2>5. q \in Request
    BY <2>1 DEF q
  <2>6. request'[c] \in Request /\ request'[c].stage = q.stage /\ request'[c].cmd = q.cmd
        /\ (q.stage = "waiting" => request'[c].ok = n)
    BY <2>2, <2>3, <2>5 DEF Request
  <2>7. QED BY <2>1, <2>4, <2>6 DEF q
<1>7. request' \in [Commands!Clients -> Request]
  <2>1. request' = [c \in Commands!Clients |-> request'[c]]
    BY <1>4, Zenon
  <2>2. QED BY <1>6, <2>1
<1>8. last' \in [cmd : Commands!Moving \cup Commands!Stopping \cup {"none"}, ok : BOOLEAN]
  BY <1>2, <1>3, <1>4 DEF Commands!Unread
<1>9. Commands!TypeOK'
  BY <1>1, <1>2, <1>4, <1>5, <1>7, <1>8 DEF Commands!TypeOK, Request
<1>10. Commands!RepliesAreNew'
  <2> SUFFICES ASSUME NEW c \in Commands!Clients, request'[c].stage = "waiting",
                      last'.cmd = request'[c].cmd, last'.ok
               PROVE  request'[c].ok
    BY DEF Commands!RepliesAreNew, Commands!Result
  <2>1. request[c].stage = "waiting"
    BY <1>6
  <2>2. last' = [cmd |-> cmd, ok |-> ok]
    BY <1>4, <2>1
  <2>3. request[c].cmd = cmd /\ ok
    BY <1>6, <2>2
  <2>4. QED BY <1>6, <2>1, <2>3
<1>11. QED BY <1>5, <1>9, <1>10 DEF CommandsInv

LEMMA CommandsKept == CommandsInv /\ (Commands!Next \/ UNCHANGED commandVars) => CommandsInv'
<1> SUFFICES ASSUME CommandsInv, Commands!Next \/ UNCHANGED commandVars
             PROVE  CommandsInv'
  OBVIOUS
<1> USE DEF CommandsInv
<1>1. /\ request \in [Commands!Clients -> Request] /\ Commands!TypeOK
      /\ lease \in [holder : Commands!Clients \cup {None}, quiet : BOOLEAN]
      /\ fleet.mission \in Commands!Missions
  BY DEF Commands!TypeOK, Request
<1>2. \A c \in Commands!Clients :
         /\ [holder |-> c, quiet |-> FALSE]
              \in [holder : Commands!Clients \cup {None}, quiet : BOOLEAN]
         /\ Commands!Touched \in [holder : Commands!Clients \cup {None}, quiet : BOOLEAN]
         /\ [lease EXCEPT !.quiet = TRUE]
              \in [holder : Commands!Clients \cup {None}, quiet : BOOLEAN]
         /\ [holder |-> None, quiet |-> FALSE]
              \in [holder : Commands!Clients \cup {None}, quiet : BOOLEAN]
  BY <1>1 DEF Commands!Touched
<1>3. ASSUME UNCHANGED <<request, queue, fleet, last, ran>>,
             allowed' \subseteq Remote,
             lease' \in [holder : Commands!Clients \cup {None}, quiet : BOOLEAN]
      PROVE  CommandsInv'
  BY <1>3 DEF Commands!TypeOK, StartedIsKept, Commands!ResumesTo, Commands!RepliesAreNew,
              Commands!Result
<1>4. Local \in Commands!Clients
  BY DEF Commands!Clients
<1>5. CASE Commands!EditAllowList
  BY <1>3, <1>5 DEF Commands!EditAllowList, Commands!TypeOK
<1>6. CASE Commands!HolderSilent
  BY <1>2, <1>3, <1>4, <1>6 DEF Commands!HolderSilent, Commands!TypeOK
<1>7. ASSUME NEW c \in Commands!Clients, Commands!Release(c) \/ Commands!Acquire(c)
      PROVE  CommandsInv'
  BY <1>2, <1>3, <1>7 DEF Commands!Release, Commands!Acquire, Commands!TypeOK
<1>8. ASSUME NEW c \in Commands!Clients, Commands!Answer(c)
      PROVE  CommandsInv'
  <2>1. /\ request' = [request EXCEPT ![c] = Commands!NoRequest]
        /\ UNCHANGED <<allowed, lease, queue, fleet, last, ran>>
    BY <1>8 DEF Commands!Answer
  <2>2. Commands!NoRequest \in Request /\ Commands!NoRequest.stage = "idle"
    BY DEF Commands!NoRequest, Request
  <2>3. request' \in [Commands!Clients -> Request]
        /\ \A x \in Commands!Clients : request'[x] = request[x] \/ request'[x].stage = "idle"
    BY <1>1, <2>1, <2>2
  <2>4. Commands!TypeOK' /\ StartedIsKept'
    BY <2>1, <2>3 DEF Commands!TypeOK, StartedIsKept, Commands!ResumesTo, Request
  <2>5. Commands!RepliesAreNew'
    BY <2>1, <2>3 DEF Commands!RepliesAreNew, Commands!Result
  <2>6. QED BY <2>4, <2>5
<1>9. ASSUME NEW c \in Commands!Clients, NEW cmd \in Commands!Moving \cup Commands!Stopping,
             Commands!Ask(c, cmd)
      PROVE  CommandsInv'
  <2>1. /\ UNCHANGED <<allowed, fleet, last, ran>>
        /\ lease' = [holder |-> c, quiet |-> FALSE] \/ lease' = Commands!Touched
    BY <1>9 DEF Commands!Ask
  <2>2. lease' \in [holder : Commands!Clients \cup {None}, quiet : BOOLEAN]
    BY <1>2, <2>1
  <2>3. Commands!Sent(c, cmd) \/ UNCHANGED <<queue, request>>
    BY <1>9 DEF Commands!Ask
  <2>4. CASE UNCHANGED <<queue, request>>
    BY <1>3, <2>1, <2>2, <2>4 DEF Commands!TypeOK
  <2>5. CASE Commands!Sent(c, cmd)
    <3>1. /\ queue' \in Seq(Commands!Moving \cup Commands!Stopping) /\ Len(queue') <= MaxQueue
          /\ request' \in [Commands!Clients -> Request]
          /\ \A x \in Commands!Clients : request'[x] = request[x] \/ ~request'[x].news
      BY <1>1, <2>5, SentTyped
    <3>2. Commands!TypeOK' /\ StartedIsKept'
      BY <2>1, <2>2, <3>1 DEF Commands!TypeOK, StartedIsKept, Commands!ResumesTo, Request
    <3>3. Commands!RepliesAreNew'
      BY <2>1, <3>1 DEF Commands!RepliesAreNew, Commands!Result
    <3>4. QED BY <3>2, <3>3
  <2>6. QED BY <2>3, <2>4, <2>5
<1>10. CASE Commands!Dispatch
  BY <1>10, DispatchKeeps
<1>11. CASE Commands!MissionDone
  <2>1. /\ fleet.mission = "RUNNING" /\ fleet' = [fleet EXCEPT !.mission = "DONE"]
        /\ ran' = FALSE /\ UNCHANGED <<allowed, lease, request, queue, last>>
    BY <1>11 DEF Commands!MissionDone
  <2>2. fleet \in [mission : Commands!Missions, preStop : Commands!Missions \cup {None},
                   preEstop : Commands!Missions \cup {None}]
    BY DEF Commands!TypeOK
  <2>3. StartedIsKept'
    BY <2>1, <2>2 DEF StartedIsKept, Commands!ResumesTo
  <2>4. Commands!TypeOK'
    BY <2>1, <2>2 DEF Commands!TypeOK, Commands!Missions
  <2>5. Commands!RepliesAreNew'
    BY <2>1 DEF Commands!RepliesAreNew, Commands!Result
  <2>6. QED BY <2>3, <2>4, <2>5
<1>12. CASE UNCHANGED commandVars
  BY <1>1, <1>3, <1>12 DEF commandVars, Commands!TypeOK
<1>13. QED BY <1>5, <1>6, <1>7, <1>8, <1>9, <1>10, <1>11, <1>12 DEF Commands!Next

(* Control passes from laptop to laptop only when the first lets go of it. *)
LEMMA LeasePasses ==
  ASSUME CommandsInv, Commands!Next \/ UNCHANGED commandVars, Commands!TakenAway
  PROVE  lease'.holder = Local
<1>1. /\ lease.holder \in Remote /\ lease'.holder \in Commands!Clients
      /\ lease'.holder # lease.holder /\ ~lease.quiet
      /\ None \notin Commands!Clients
  BY OperatorAssumption DEF Commands!TakenAway, Commands!CommandConstants, Commands!Clients
<1>2. Commands!Touched = lease /\ lease' # lease
  BY <1>1 DEF Commands!Touched
<1>3. \A c \in Commands!Clients : Commands!MayMove(c) => c = Local \/ c = lease.holder
  BY <1>1, <1>2 DEF Commands!MayMove, Commands!Clients
<1>4. ASSUME NEW c \in Commands!Clients, lease' = [holder |-> c, quiet |-> FALSE],
             Commands!MayMove(c)
      PROVE  lease'.holder = Local
  BY <1>1, <1>3, <1>4
<1>5. ASSUME NEW c \in Commands!Clients, NEW cmd \in Commands!Moving \cup Commands!Stopping,
             Commands!Ask(c, cmd)
      PROVE  lease'.holder = Local
  <2>1. IF Commands!Granted(c, cmd) /\ cmd \in Commands!Moving
        THEN lease' = [holder |-> c, quiet |-> FALSE] ELSE lease' = Commands!Touched
    BY <1>5 DEF Commands!Ask
  <2>2. QED BY <1>2, <1>4, <2>1 DEF Commands!Granted
<1>6. ASSUME NEW c \in Commands!Clients, Commands!Acquire(c) \/ Commands!Release(c)
      PROVE  lease'.holder = Local
  BY <1>1, <1>4, <1>6 DEF Commands!Acquire, Commands!Release
<1>7. CASE Commands!HolderSilent
  <2>1. lease' = [lease EXCEPT !.quiet = TRUE]
    BY <1>7 DEF Commands!HolderSilent
  <2>2. lease'.holder = lease.holder
    BY <2>1 DEF CommandsInv, Commands!TypeOK
  <2>3. QED BY <1>1, <2>2
<1>8. ASSUME lease' = lease PROVE FALSE
  BY <1>2, <1>8
<1>9. QED BY <1>5, <1>6, <1>7, <1>8
          DEF Commands!Next, commandVars, Commands!EditAllowList, Commands!Answer,
              Commands!Dispatch, Commands!MissionDone

----------------------------------------------------------------------------
(***************************************************************************)
(* What may be called free.  A straight line that enters a cell has a      *)
(* sample in it or next to it, whatever the rounding, and the walls that   *)
(* stop a ray are grown by one cell.                                       *)
(***************************************************************************)
LEMMA GridSizes == Rows \in Nat /\ Cols \in Nat
  BY CalibrationAssumption

\* Products in order, and what their order tells.
LEMMA FactorsInOrder ==
  ASSUME NEW a \in Int, NEW b \in Int, NEW n \in Int, n > 0, a * n < b * n
  PROVE  a < b
<1>1. CASE a >= b
  <2>1. PICK k \in Nat : a = b + k
    <3>1. a - b \in Nat /\ a = b + (a - b)
      BY <1>1
    <3>2. QED BY <3>1
  <2>2. a * n = b * n + k * n
    BY <2>1
  <2>3. k * n >= 0
    BY <2>1
  <2>4. QED BY <2>2, <2>3, a * n \in Int, b * n \in Int, k * n \in Int
<1>2. QED BY <1>1

LEMMA SmallFactor ==
  ASSUME NEW k \in Int, NEW d \in Int, d # 0, -Abs(d) < k * d, k * d < Abs(d)
  PROVE  k = 0
<1>1. CASE d > 0
  <2>1. (-1) * d < k * d /\ k * d < 1 * d
    BY <1>1 DEF Abs
  <2>2. -1 < k /\ k < 1
    BY <1>1, <2>1, FactorsInOrder
  <2>3. QED BY <2>2
<1>2. CASE d < 0
  <2>1. -d > 0 /\ -d \in Int /\ (-1) * (-d) < k * (-d) /\ k * (-d) < 1 * (-d)
    BY <1>2 DEF Abs
  <2>2. -1 < k /\ k < 1
    BY <2>1, FactorsInOrder
  <2>3. QED BY <2>2
<1>3. QED BY <1>1, <1>2

\* round() of a number less than one from w is w or next to it, and of w is w.
LEMMA RoundedNear ==
  ASSUME NEW m \in Int, NEW n \in Int, n > 0, NEW w \in Int,
         (w - 1) * n < m, m < (w + 1) * n
  PROVE  Rounded(m, n) \in (w - 1)..(w + 1)
<1> DEFINE low == m \div n
           left == m % n
<1>1. low \in Int /\ left \in Int /\ m = low * n + left /\ 0 <= left /\ left < n
  OBVIOUS
<1>2. low * n \in Int /\ (low + 1) * n = low * n + n
  BY <1>1
<1>3. (w - 1) * n < (low + 1) * n
  BY <1>1, <1>2
<1>4. low * n < (w + 1) * n
  BY <1>1, <1>2
<1>5. w - 1 < low + 1 /\ low < w + 1
  <2>1. low + 1 \in Int /\ w - 1 \in Int /\ w + 1 \in Int
    BY <1>1
  <2>2. QED BY <1>1, <1>3, <1>4, <2>1, FactorsInOrder
<1>6. Rounded(m, n) \in {low, low + 1}
  BY DEF Rounded
<1>7. QED BY <1>1, <1>5, <1>6

LEMMA RoundedExact ==
  ASSUME NEW w \in Int, NEW n \in Int, n > 0
  PROVE  Rounded(w * n, n) = w
<1> DEFINE low == (w * n) \div n
           left == (w * n) % n
<1>1. w * n \in Int
  OBVIOUS
<1>2. low \in Int /\ left \in Int /\ w * n = low * n + left /\ 0 <= left /\ left < n
  BY <1>1
<1>3. low * n < (w + 1) * n /\ w * n < (low + 1) * n
  <2>1. (w + 1) * n = w * n + n /\ (low + 1) * n = low * n + n /\ low * n \in Int
    BY <1>2
  <2>2. QED BY <1>1, <1>2, <2>1
<1>4. low = w
  <2>1. low + 1 \in Int /\ w + 1 \in Int
    BY <1>2
  <2>2. low < w + 1 /\ w < low + 1
    BY <1>2, <1>3, <2>1, FactorsInOrder
  <2>3. QED BY <1>2, <2>2
<1>5. left = 0
  BY <1>2, <1>4
<1>6. 2 * left < n
  BY <1>5
<1>7. QED BY <1>4, <1>6 DEF Rounded

\* The segment of steps (d, e) from the middle of a cell comes within a cell of
\* the one (v, u) away: v along the longer axis, u along the other.
Passes(d, e, v, u) ==
    /\ -(Abs(d) + Abs(e)) < 2 * (u * d) - 2 * (v * e)
    /\ 2 * (u * d) - 2 * (v * e) < Abs(d) + Abs(e)

\* Sample number |v| of |d|: in the cell's own row, within a cell of its column.
Beside(c1, c2, d, e, v, u) ==
    /\ Abs(v) \in 1..(Abs(d) - 1)
    /\ Rounded(c1 * Abs(d) + d * Abs(v), Abs(d)) = c1 + v
    /\ Rounded(c2 * Abs(d) + e * Abs(v), Abs(d)) \in ((c2 + u) - 1)..((c2 + u) + 1)

LEMMA SampleNear ==
  ASSUME NEW c1 \in Int, NEW c2 \in Int, NEW d \in Int, NEW e \in Int,
         NEW v \in Int, NEW u \in Int,
         Abs(e) <= Abs(d), Passes(d, e, v, u),
         (0 <= v /\ v <= d) \/ (d <= v /\ v <= 0),
         (0 <= u /\ u <= e) \/ (e <= u /\ u <= 0),
         v # 0 \/ u # 0, v # d \/ u # e
  PROVE  Beside(c1, c2, d, e, v, u)
<1> DEFINE n == Abs(d)
           i == Abs(v)
<1>0. d # 0
  BY DEF Abs
<1>1. /\ n > 0 /\ n \in Int /\ i \in Int /\ n = Abs(d) /\ i = Abs(v)
      /\ (n = d /\ i = v) \/ (n = -d /\ i = -v)
  BY <1>0 DEF Abs
<1> HIDE DEF n, i
<1> DEFINE X == u * d
           Y == v * e
<1>2. X \in Int /\ Y \in Int
  OBVIOUS
<1>3. -n < X - Y /\ X - Y < n
  <2>1. Abs(d) \in Int /\ Abs(e) \in Int
    BY DEF Abs
  <2> HIDE DEF X, Y
  <2>2. -(Abs(d) + Abs(e)) < 2 * X - 2 * Y /\ 2 * X - 2 * Y < Abs(d) + Abs(e)
    BY DEF Passes, X, Y
  <2>3. QED BY <1>1, <1>2, <2>1, <2>2
<1>4. c1 * n + d * i = (c1 + v) * n
  <2>1. d * i = v * n
    BY <1>1
  <2>2. (c1 + v) * n = c1 * n + v * n
    BY <1>1
  <2>3. QED BY <2>1, <2>2
<1>5. Rounded(c1 * n + d * i, n) = c1 + v
  BY <1>1, <1>4, RoundedExact
<1> DEFINE m == c2 * n + e * i
           w == c2 + u
<1>6. u * n - e * i = X - Y \/ u * n - e * i = Y - X
  <2>1. CASE n = d /\ i = v
    <3>1. u * n = X /\ e * i = Y
      BY <2>1
    <3>2. QED BY <3>1
  <2>2. CASE n = -d /\ i = -v
    <3>1. u * n = -X /\ e * i = -Y
      BY <2>2
    <3> HIDE DEF X, Y
    <3>2. -X - (-Y) = Y - X
      BY <1>2
    <3>3. QED BY <3>1, <3>2
  <2>3. QED BY <1>1, <2>1, <2>2
<1>7. m \in Int /\ w \in Int /\ w * n = c2 * n + u * n /\ u * n \in Int /\ e * i \in Int
      /\ c2 * n \in Int /\ (w - 1) * n = w * n - n /\ (w + 1) * n = w * n + n
  BY <1>1
<1>8. w * n - m = u * n - e * i
  BY <1>7
<1>9. (w - 1) * n < m /\ m < (w + 1) * n
  <2> HIDE DEF X, Y, m, w
  <2>1. w * n \in Int
    BY <1>7
  <2>2. QED BY <1>1, <1>2, <1>3, <1>6, <1>7, <1>8, <2>1
<1>10. Rounded(m, n) \in (w - 1)..(w + 1)
  BY <1>1, <1>7, <1>9, RoundedNear
<1>11. v # 0
  <2>1. SUFFICES ASSUME v = 0 PROVE u = 0
    OBVIOUS
  <2>2. /\ -(Abs(d) + Abs(e)) < 2 * (u * d) - 2 * (0 * e)
        /\ 2 * (u * d) - 2 * (0 * e) < Abs(d) + Abs(e)
    BY <2>1 DEF Passes
  <2>3. 0 * e = 0 /\ u * d \in Int /\ Abs(d) \in Int /\ Abs(e) \in Int
    BY DEF Abs
  <2>4. -Abs(d) < u * d /\ u * d < Abs(d)
    BY <2>2, <2>3
  <2>5. QED BY <1>0, <2>4, SmallFactor
<1>12. v # d
  <2>1. SUFFICES ASSUME v = d PROVE u = e
    OBVIOUS
  <2>2. /\ -(Abs(d) + Abs(e)) < 2 * (u * d) - 2 * (d * e)
        /\ 2 * (u * d) - 2 * (d * e) < Abs(d) + Abs(e)
    BY <2>1 DEF Passes
  <2>3. /\ u * d \in Int /\ d * e \in Int /\ u - e \in Int /\ (u - e) * d = u * d - d * e
        /\ Abs(d) \in Int /\ Abs(e) \in Int
    BY DEF Abs
  <2>4. -Abs(d) < (u - e) * d /\ (u - e) * d < Abs(d)
    BY <2>2, <2>3
  <2>5. u - e = 0
    BY <1>0, <2>3, <2>4, SmallFactor
  <2>6. QED BY <2>5
<1>13. i \in 1..(n - 1)
  BY <1>0, <1>1, <1>11, <1>12 DEF Abs
<1>14. QED BY <1>1, <1>5, <1>10, <1>13 DEF Beside

Point == Int \X Int

LEMMA EntersPasses ==
  ASSUME NEW cam \in Point, NEW p \in Point, NEW w \in Point, Enters(cam, p, w)
  PROVE  LET d == p[1] - cam[1]
             e == p[2] - cam[2]
             v == w[1] - cam[1]
             u == w[2] - cam[2]
         IN /\ Passes(d, e, v, u) /\ Passes(e, d, u, v)
            /\ (0 <= v /\ v <= d) \/ (d <= v /\ v <= 0)
            /\ (0 <= u /\ u <= e) \/ (e <= u /\ u <= 0)
<1> DEFINE d == p[1] - cam[1]
           e == p[2] - cam[2]
           v == w[1] - cam[1]
           u == w[2] - cam[2]
<1>1. /\ cam[1] \in Int /\ cam[2] \in Int /\ p[1] \in Int /\ p[2] \in Int
      /\ w[1] \in Int /\ w[2] \in Int
      /\ d \in Int /\ e \in Int /\ v \in Int /\ u \in Int
  BY DEF Point
<1>2. /\ (0 <= v /\ v <= d) \/ (d <= v /\ v <= 0)
      /\ (0 <= u /\ u <= e) \/ (e <= u /\ u <= 0)
  BY <1>1 DEF Enters, Larger
<1> DEFINE X == u * d
           Y == v * e
<1>3. X \in Int /\ Y \in Int
  BY <1>1
<1>4. ASSUME NEW a \in {-1, 1}, NEW b \in {-1, 1}
      PROVE  Side(cam, p, 2 * w[1] + a, 2 * w[2] + b)
               = 2 * (2 * X + b * d - 2 * Y - a * e)
  <2>1. /\ (2 * w[2] + b) - 2 * cam[2] = 2 * u + b
        /\ (2 * w[1] + a) - 2 * cam[1] = 2 * v + a
        /\ 2 * p[1] - 2 * cam[1] = 2 * d /\ 2 * p[2] - 2 * cam[2] = 2 * e
    BY <1>1
  <2>2. Side(cam, p, 2 * w[1] + a, 2 * w[2] + b)
          = (2 * u + b) * (2 * d) - (2 * v + a) * (2 * e)
    <3>1. Side(cam, p, 2 * w[1] + a, 2 * w[2] + b)
            = ((2 * w[2] + b) - 2 * cam[2]) * (2 * p[1] - 2 * cam[1])
                - ((2 * w[1] + a) - 2 * cam[1]) * (2 * p[2] - 2 * cam[2])
      BY DEF Side
    <3> HIDE DEF d, e, v, u
    <3>2. QED BY <2>1, <3>1
  <2> HIDE DEF d, e, v, u
  <2>3. (2 * u + b) * (2 * d) = 2 * (2 * (u * d) + b * d)
    BY <1>1
  <2>4. (2 * v + a) * (2 * e) = 2 * (2 * (v * e) + a * e)
    BY <1>1
  <2>5. b * d \in Int /\ a * e \in Int
    BY <1>1
  <2>6. QED BY <1>3, <2>2, <2>3, <2>4, <2>5
<1>5. PICK a \in {-1, 1}, b \in {-1, 1} : 2 * (2 * X + b * d - 2 * Y - a * e) > 0
  BY <1>4 DEF Enters
<1>6. PICK f \in {-1, 1}, g \in {-1, 1} : 2 * (2 * X + g * d - 2 * Y - f * e) < 0
  BY <1>4 DEF Enters
<1> HIDE DEF X, Y
<1>7. /\ -(Abs(d) + Abs(e)) < 2 * X - 2 * Y
      /\ 2 * X - 2 * Y < Abs(d) + Abs(e)
  <2> HIDE DEF d, e
  <2>1. \A k \in {-1, 1} : k * d <= Abs(d) /\ -Abs(d) <= k * d /\ k * d \in Int
    BY <1>1 DEF Abs
  <2>2. \A k \in {-1, 1} : k * e <= Abs(e) /\ -Abs(e) <= k * e /\ k * e \in Int
    BY <1>1 DEF Abs
  <2>3. Abs(d) \in Int /\ Abs(e) \in Int
    BY <1>1 DEF Abs
  <2> HIDE DEF Abs
  <2>4. QED BY <1>3, <1>5, <1>6, <2>1, <2>2, <2>3
<1>8. Passes(d, e, v, u) /\ Passes(e, d, u, v)
  <2>1. Abs(d) \in Int /\ Abs(e) \in Int
    BY <1>1 DEF Abs
  <2>2. QED BY <1>3, <1>7, <2>1 DEF Passes, X, Y
<1>9. QED BY <1>2, <1>8

LEMMA InsideHasRoom ==
  ASSUME NEW w \in Inside
  PROVE  w \in Cells /\ Around(w) \subseteq Cells /\ Around(w) \cap OuterWall = {}
<1>1. w \in Cells /\ w = <<w[1], w[2]>> /\ w[1] \in 1..Rows /\ w[2] \in 1..Cols
      /\ Around(w) \cap OuterWall = {}
  BY DEF Inside, Cells
<1>2. w \in Around(w)
  BY <1>1, GridSizes DEF Around
<1>3. w \notin Ring
  BY <1>1, <1>2 DEF OuterWall, Dilated
<1>4. 2 < w[1] /\ w[1] <= Rows - 2 /\ 2 < w[2] /\ w[2] <= Cols - 2
  BY <1>1, <1>3, GridSizes DEF Ring
<1>5. (w[1] - 1)..(w[1] + 1) \subseteq 1..Rows /\ (w[2] - 1)..(w[2] + 1) \subseteq 1..Cols
  BY <1>1, <1>4, GridSizes
<1>6. Around(w) \subseteq Cells
  BY <1>5 DEF Around, Cells
<1>7. QED BY <1>1, <1>6

LEMMA WallsBlock ==
  ASSUME NEW occ, NEW w \in Inside, w \in occ
  PROVE  Around(w) \subseteq Blockers(occ)
  BY InsideHasRoom DEF Blockers, Dilated

\* A straight line that enters a cell has a sample in that cell or next to it.
LEMMA EnteredIsSampled ==
  ASSUME NEW cam \in Point, NEW p \in Point, NEW w \in Point,
         w # cam, w # p, Enters(cam, p, w)
  PROVE  LET n == Larger(Abs(p[1] - cam[1]), Abs(p[2] - cam[2]))
         IN \E i \in 1..(n - 1) : RayCell(cam, p, i, n) \in Around(w)
<1> DEFINE d == p[1] - cam[1]
           e == p[2] - cam[2]
           v == w[1] - cam[1]
           u == w[2] - cam[2]
           n == Larger(Abs(d), Abs(e))
<1>1. /\ cam[1] \in Int /\ cam[2] \in Int /\ p[1] \in Int /\ p[2] \in Int
      /\ w[1] \in Int /\ w[2] \in Int
      /\ d \in Int /\ e \in Int /\ v \in Int /\ u \in Int
      /\ cam = <<cam[1], cam[2]>> /\ p = <<p[1], p[2]>> /\ w = <<w[1], w[2]>>
  BY DEF Point
<1>2. /\ Passes(d, e, v, u) /\ Passes(e, d, u, v)
      /\ (0 <= v /\ v <= d) \/ (d <= v /\ v <= 0)
      /\ (0 <= u /\ u <= e) \/ (e <= u /\ u <= 0)
  BY EntersPasses
<1>3. /\ cam[1] + v = w[1] /\ cam[2] + u = w[2] /\ cam[1] + d = p[1] /\ cam[2] + e = p[2]
  BY <1>1
<1>4. (v # 0 \/ u # 0) /\ (v # d \/ u # e)
  <2>1. CASE v = 0 /\ u = 0
    <3>1. cam[1] = w[1] /\ cam[2] = w[2]
      BY <1>1, <1>3, <2>1
    <3>2. QED BY <1>1, <3>1
  <2>2. CASE v = d /\ u = e
    <3>1. p[1] = w[1] /\ p[2] = w[2]
      BY <1>1, <1>3, <2>2
    <3>2. QED BY <1>1, <3>1
  <2>3. QED BY <2>1, <2>2
<1>5. \A i : RayCell(cam, p, i, n)
               = <<Rounded(cam[1] * n + d * i, n), Rounded(cam[2] * n + e * i, n)>>
  BY DEF RayCell
<1>6. w[1] \in (w[1] - 1)..(w[1] + 1) /\ w[2] \in (w[2] - 1)..(w[2] + 1)
  BY <1>1
<1> HIDE DEF d, e, v, u
<1>7. CASE Abs(e) <= Abs(d)
  <2>1. n = Abs(d)
    BY <1>1, <1>7 DEF Larger, Abs
  <2>2. Beside(cam[1], cam[2], d, e, v, u)
    BY <1>1, <1>2, <1>4, <1>7, SampleNear
  <2>3. RayCell(cam, p, Abs(v), n) \in Around(w) /\ Abs(v) \in 1..(n - 1)
    BY <1>3, <1>5, <1>6, <2>1, <2>2 DEF Around, Beside
  <2>4. QED BY <2>3 DEF d, e
<1>8. CASE ~(Abs(e) <= Abs(d))
  <2>1. n = Abs(e) /\ Abs(d) <= Abs(e)
    BY <1>1, <1>8 DEF Larger, Abs
  <2>2. Beside(cam[2], cam[1], e, d, u, v)
    BY <1>1, <1>2, <1>4, <2>1, SampleNear
  <2>3. RayCell(cam, p, Abs(u), n) \in Around(w) /\ Abs(u) \in 1..(n - 1)
    BY <1>3, <1>5, <1>6, <2>1, <2>2 DEF Around, Beside
  <2>4. QED BY <2>3 DEF d, e
<1>9. QED BY <1>7, <1>8

\* No cell called free is behind a wall inside the arena.
LEMMA FreeHasNoWallBefore ==
  ASSUME NEW inView \in SUBSET Cells, NEW occ \in SUBSET inView, NEW cam \in Point
  PROVE  FreeIsSeenIn(BuildGrid(occ, inView, Visible(occ, inView, cam)), cam, inView)
<1> DEFINE grid == BuildGrid(occ, inView, Visible(occ, inView, cam))
<1> SUFFICES ASSUME NEW p \in Cells, grid[p] = "free"
             PROVE  /\ p \in inView
                    /\ \A w \in Inside : grid[w] = "occupied" /\ w # cam => ~Enters(cam, p, w)
  BY DEF FreeIsSeenIn
<1>1. \A c \in Cells : /\ grid[c] = "occupied" => c \in occ
                       /\ grid[c] = "free" => c \in (inView \cap Visible(occ, inView, cam)) \ occ
  BY DEF BuildGrid
<1> HIDE DEF grid
<1>2. p \in inView /\ p \notin occ /\ RayFree(cam, p, Blockers(occ))
  BY <1>1 DEF Visible
<1>3. ASSUME NEW w \in Inside, grid[w] = "occupied", w # cam
      PROVE  ~Enters(cam, p, w)
  <2>1. w \in Cells /\ w \in occ /\ w # p
    BY <1>1, <1>2, <1>3, InsideHasRoom
  <2>2. w \in Point /\ p \in Point
    BY <2>1, GridSizes DEF Cells, Point
  <2>3. SUFFICES ASSUME Enters(cam, p, w) PROVE FALSE
    OBVIOUS
  <2> DEFINE n == Larger(Abs(p[1] - cam[1]), Abs(p[2] - cam[2]))
  <2>4. PICK i \in 1..(n - 1) : RayCell(cam, p, i, n) \in Around(w)
    BY <1>3, <2>1, <2>2, <2>3, EnteredIsSampled
  <2>5. RayCell(cam, p, i, n) \in Blockers(occ)
    BY <2>1, <2>4, WallsBlock
  <2>6. QED BY <1>2, <2>4, <2>5 DEF RayFree
<1>4. QED BY <1>2, <1>3

----------------------------------------------------------------------------
(***************************************************************************)
(* The boxes of the walls.  merge_rects is a recursion on the cells that   *)
(* are left; what it computes is found by descent to the smallest set of   *)
(* cells for which it would not be so.                                     *)
(***************************************************************************)
LEMMA LeastNumber ==
  ASSUME NEW S \in SUBSET Nat, S # {}
  PROVE  \E v \in S : \A u \in S : v <= u
<1>1. PICK v \in S : \A u \in S : <<u, v>> \notin OpToRel(<, Nat)
  BY WFMin, NatLessThanWellFounded
<1>2. \A u \in S : ~ (u < v)
  BY <1>1 DEF OpToRel
<1>3. QED BY <1>2

LEMMA GreatestNumber ==
  ASSUME NEW a \in Int, NEW b \in Int, NEW S \in SUBSET (a..b), S # {}
  PROVE  Greatest(S) \in S
<1>0. PICK s \in S : TRUE
  OBVIOUS
<1> DEFINE Below == {n \in Nat : b - n \in S}
<1>1. b - s \in Below
  BY b - (b - s) = s
<1>2. PICK v \in Below : \A u \in Below : v <= u
  BY <1>1, LeastNumber
<1>3. ASSUME NEW n \in S
      PROVE  b - v >= n
  <2>1. b - n \in Below
    BY b - (b - n) = n
  <2>2. v <= b - n
    BY <1>2, <2>1
  <2>3. QED BY <1>2, <2>2
<1>4. QED BY <1>2, <1>3 DEF Greatest

\* merge_rects takes what is left from its first cell on: some of it, and that cell.
LEMMA FirstIsThere ==
  ASSUME NEW S \in SUBSET Cells, S # {}
  PROVE  First(S) \in S
<1> DEFINE key(p) == Cols * p[1] + p[2]
           Keys == {n \in Nat : \E p \in S : n = key(p)}
<1>1. \A p \in S : p[1] \in Nat /\ p[2] \in Nat /\ key(p) \in Nat
  BY GridSizes DEF Cells
<1>2. Keys # {}
  BY <1>1
<1>3. PICK v \in Keys : \A u \in Keys : v <= u
  BY <1>2, LeastNumber
<1>4. PICK p \in S : v = key(p)
  BY <1>3
<1>5. \A q \in S : key(p) <= key(q)
  BY <1>1, <1>3, <1>4
<1>6. QED BY <1>5 DEF First

\* The rectangle taken next, of the cells that are left.
NextRect(free) ==
    LET p == First(free)
        c2 == RunEnd(free, p)
    IN Rect(p[1], p[2], GrownTo(free, p, c2), c2)

LEMMA RectIsFree ==
  ASSUME NEW free \in SUBSET Cells, free # {}
  PROVE  NextRect(free) \subseteq free /\ First(free) \in NextRect(free)
<1> DEFINE p == First(free)
           c2 == RunEnd(free, p)
           r2 == GrownTo(free, p, c2)
<1>1. p \in free /\ p \in Cells
  BY FirstIsThere
<1>2. p = <<p[1], p[2]>> /\ p[1] \in 1..Rows /\ p[2] \in 1..Cols
  BY <1>1 DEF Cells
<1> HIDE DEF p
<1>3. c2 \in p[2]..Cols /\ \A k \in p[2]..c2 : <<p[1], k>> \in free
  <2> DEFINE S == {c \in p[2]..Cols : \A k \in p[2]..c : <<p[1], k>> \in free}
  <2>1. p[2] \in S
    <3>1. p[2]..p[2] = {p[2]} /\ p[2] \in p[2]..Cols
      BY <1>2, GridSizes
    <3>2. QED BY <1>1, <1>2, <3>1
  <2>2. S \in SUBSET (p[2]..Cols)
    BY <1>2, GridSizes
  <2>3. c2 \in S
    <3> HIDE DEF S
    <3>1. Greatest(S) \in S
      BY <1>2, <2>1, <2>2, GreatestNumber, GridSizes
    <3>2. QED BY <3>1 DEF RunEnd, S
  <2>4. QED BY <2>3
<1> HIDE DEF c2
<1>4. r2 \in p[1]..Rows /\ Rect(p[1], p[2], r2, c2) \subseteq free
  <2> DEFINE S == {r \in p[1]..Rows : Rect(p[1], p[2], r, c2) \subseteq free}
  <2>1. p[1] \in S
    <3>1. p[1]..p[1] = {p[1]}
      BY <1>2
    <3>2. QED BY <1>2, <1>3, <3>1 DEF Rect
  <2>2. S \in SUBSET (p[1]..Rows)
    BY <1>2, GridSizes
  <2>3. r2 \in S
    <3> HIDE DEF S
    <3>1. Greatest(S) \in S
      BY <1>2, <2>1, <2>2, GreatestNumber, GridSizes
    <3>2. QED BY <3>1 DEF GrownTo, S
  <2>4. QED BY <2>3
<1>5. p \in Rect(p[1], p[2], r2, c2)
  <2>1. p[1] \in p[1]..r2 /\ p[2] \in p[2]..c2
    BY <1>2, <1>3, <1>4
  <2>2. QED BY <1>2, <2>1 DEF Rect
<1>6. QED BY <1>4, <1>5 DEF NextRect, p, c2

LEMMA CellsFinite == IsFiniteSet(Cells)
<1>1. IsFiniteSet(1..Rows) /\ IsFiniteSet(1..Cols)
  BY FS_Interval, GridSizes
<1>2. QED BY <1>1, FS_Product DEF Cells

\* What is left then is smaller.
LEMMA RectTakesSome ==
  ASSUME NEW free \in SUBSET Cells, free # {}
  PROVE  /\ free \ NextRect(free) \in SUBSET free
         /\ Cardinality(free \ NextRect(free)) \in Nat /\ Cardinality(free) \in Nat
         /\ Cardinality(free \ NextRect(free)) < Cardinality(free)
<1>1. IsFiniteSet(free)
  BY CellsFinite, FS_Subset
<1>2. free \ NextRect(free) \in SUBSET free /\ free \ NextRect(free) # free
  BY RectIsFree
<1>3. /\ IsFiniteSet(free \ NextRect(free))
      /\ Cardinality(free \ NextRect(free)) <= Cardinality(free)
      /\ Cardinality(free \ NextRect(free)) # Cardinality(free)
  BY <1>1, <1>2, FS_Subset
<1>4. QED BY <1>1, <1>2, <1>3, FS_CardinalityType

\* g says what is merged of every set of cells of the mask that has up to n of them.
Small(mask, n) == {free \in SUBSET mask : Cardinality(free) <= n}
Merges(mask, g, n) ==
    g = [free \in Small(mask, n) |->
           IF free = {} THEN {}
           ELSE {NextRect(free)} \cup g[free \ NextRect(free)]]

LEMMA MergesExists ==
  ASSUME NEW mask \in SUBSET Cells, NEW N \in Nat
  PROVE  \E g : Merges(mask, g, N)
<1> DEFINE Bad == {n \in Nat : ~\E g : Merges(mask, g, n)}
<1>0. \A free \in SUBSET mask : Cardinality(free) \in Nat /\ IsFiniteSet(free)
  BY CellsFinite, FS_Subset, FS_CardinalityType
<1>1. 0 \notin Bad
  <2> DEFINE g == [free \in Small(mask, 0) |-> {}]
  <2>1. \A free \in Small(mask, 0) : free = {}
    BY <1>0, FS_EmptySet DEF Small
  <2>2. Merges(mask, g, 0)
    BY <2>1 DEF Merges
  <2>3. QED BY <2>2
<1>2. ASSUME NEW n \in Nat, n # 0, n - 1 \notin Bad
      PROVE  n \notin Bad
  <2>1. n - 1 \in Nat
    BY <1>2
  <2>2. PICK g : Merges(mask, g, n - 1)
    BY <1>2, <2>1
  <2> DEFINE of(f, free) == IF free = {} THEN {}
                            ELSE {NextRect(free)} \cup f[free \ NextRect(free)]
             h == [free \in Small(mask, n) |-> of(g, free)]
  <2>3. \A free \in Small(mask, n - 1) : g[free] = of(g, free)
    BY <2>2 DEF Merges
  <2>4. ASSUME NEW free \in Small(mask, n)
        PROVE  h[free] = of(h, free)
    <3>1. CASE free = {}
      BY <2>4, <3>1
    <3>2. CASE free # {}
      <4> DEFINE less == free \ NextRect(free)
      <4>1. free \in SUBSET Cells /\ free \in SUBSET mask /\ Cardinality(free) <= n
        BY DEF Small
      <4>2. /\ less \in SUBSET mask /\ Cardinality(less) < Cardinality(free)
            /\ Cardinality(less) \in Nat /\ Cardinality(free) \in Nat
        BY <3>2, <4>1, RectTakesSome
      <4>3. less \in Small(mask, n - 1) /\ less \in Small(mask, n)
        BY <4>1, <4>2 DEF Small
      <4>4. h[less] = g[less]
        BY <2>3, <4>3
      <4>5. QED BY <3>2, <4>4
    <3>3. QED BY <3>1, <3>2
  <2>5. h = [free \in Small(mask, n) |-> of(h, free)]
    BY <2>4
  <2>6. Merges(mask, h, n)
    BY <2>5 DEF Merges
  <2>7. QED BY <2>6
<1>3. Bad = {}
  <2>1. SUFFICES ASSUME Bad # {} PROVE FALSE
    OBVIOUS
  <2>2. PICK v \in Bad : \A u \in Bad : v <= u
    BY <2>1, LeastNumber
  <2>3. v \in Nat /\ v # 0
    BY <1>1, <2>2
  <2>4. v - 1 \in Nat /\ ~(v <= v - 1)
    BY <2>3
  <2>5. QED BY <1>2, <2>2, <2>3, <2>4
<1>4. QED BY <1>3

LEMMA MergedByRects ==
  ASSUME NEW mask \in SUBSET Cells
  PROVE  \E g : /\ MergeRects(mask) = g[mask]
                /\ g[{}] = {}
                /\ \A free \in SUBSET mask : free # {} =>
                     g[free] = {NextRect(free)} \cup g[free \ NextRect(free)]
<1> DEFINE N == Cardinality(mask)
           Of(g) == [free \in SUBSET mask |->
                       IF free = {} THEN {}
                       ELSE {NextRect(free)} \cup g[free \ NextRect(free)]]
           g == CHOOSE g : g = Of(g)
<1>1. IsFiniteSet(mask) /\ N \in Nat
  BY CellsFinite, FS_Subset, FS_CardinalityType
<1>2. Small(mask, N) = SUBSET mask
  BY <1>1, FS_Subset DEF Small
<1>3. PICK f : f = Of(f)
  <2>1. PICK f : Merges(mask, f, N)
    BY <1>1, MergesExists
  <2>2. f = Of(f)
    BY <1>2, <2>1 DEF Merges
  <2>3. QED BY <2>2
<1>4. g = Of(g)
  BY <1>3
<1>5. MergeRects(mask) = g[mask]
  BY DEF MergeRects, NextRect
<1> HIDE DEF g
<1>6. \A free \in SUBSET mask :
        g[free] = IF free = {} THEN {} ELSE {NextRect(free)} \cup g[free \ NextRect(free)]
  BY <1>4
<1>7. QED BY <1>5, <1>6

\* merge_rects covers every cell of the mask, each once.
LEMMA RectsCover ==
  ASSUME NEW mask \in SUBSET Cells
  PROVE  ExactCover(MergeRects(mask), mask)
<1>1. PICK g : /\ MergeRects(mask) = g[mask]
               /\ g[{}] = {}
               /\ \A free \in SUBSET mask : free # {} =>
                    g[free] = {NextRect(free)} \cup g[free \ NextRect(free)]
  BY MergedByRects
<1> DEFINE Wrong == {n \in Nat : \E free \in SUBSET mask :
                                    Cardinality(free) = n /\ ~ExactCover(g[free], free)}
<1>2. Wrong = {}
  <2>1. SUFFICES ASSUME Wrong # {} PROVE FALSE
    OBVIOUS
  <2>2. PICK v \in Wrong : \A u \in Wrong : v <= u
    BY <2>1, LeastNumber
  <2>3. PICK free \in SUBSET mask : Cardinality(free) = v /\ ~ExactCover(g[free], free)
    BY <2>2
  <2>4. free # {}
    <3>1. ExactCover({}, {})
      BY DEF ExactCover
    <3>2. QED BY <1>1, <2>3, <3>1
  <2> DEFINE rect == NextRect(free)
             less == free \ rect
  <2>5. /\ less \in SUBSET mask /\ Cardinality(less) < Cardinality(free)
        /\ Cardinality(less) \in Nat /\ Cardinality(free) \in Nat
    BY <2>4, RectTakesSome
  <2>6. ExactCover(g[less], less)
    BY <2>2, <2>3, <2>5
  <2>7. rect \subseteq free /\ g[free] = {rect} \cup g[less]
    BY <1>1, <2>4, RectIsFree
  <2> HIDE DEF rect
  <2>8. ExactCover(g[free], free)
    <3>1. UNION g[free] = free
      <4>1. UNION ({rect} \cup g[less]) = rect \cup UNION g[less]
        OBVIOUS
      <4>2. UNION g[less] = free \ rect
        BY <2>6 DEF ExactCover
      <4>3. QED BY <2>7, <4>1, <4>2
    <3>2. ASSUME NEW a \in g[free], NEW b \in g[free], a # b
          PROVE  a \cap b = {}
      <4>1. \A x \in g[less] : x \cap rect = {}
        BY <2>6 DEF ExactCover
      <4>2. CASE a = rect \/ b = rect
        BY <2>7, <3>2, <4>1, <4>2
      <4>3. CASE a \in g[less] /\ b \in g[less]
        BY <2>6, <3>2, <4>3 DEF ExactCover
      <4>4. QED BY <2>7, <4>2, <4>3
    <3>3. QED BY <3>1, <3>2 DEF ExactCover
  <2>9. QED BY <2>3, <2>8
<1>3. Cardinality(mask) \in Nat
  BY CellsFinite, FS_Subset, FS_CardinalityType
<1>4. QED BY <1>1, <1>2, <1>3

----------------------------------------------------------------------------
(* The plan of a view. *)

LEMMA ViewIsOfCells ==
  ASSUME NEW v \in Views
  PROVE  v.inView \in SUBSET Cells /\ v.scene.cam \in Point
<1>1. PICK s \in Scenes, b \in Boxes, m \in Maskings : v = View(s, b, m)
  BY DEF Views
<1>2. s.seen \in SUBSET Cells /\ s.cam \in Point
  BY CalibrationAssumption DEF Point
<1>3. v.scene = s /\ v.inView = InView(s.seen, Hidden(b), Hidden(m))
  BY <1>1 DEF View
<1>4. QED BY <1>2, <1>3 DEF InView

\* Of each view, the plan is honest and its boxes are exact.
LEMMA PlansAreTrue == Views \subseteq Honest /\ Views \subseteq Exact
<1> SUFFICES ASSUME NEW v \in Views, PlanOf[v].grid # <<>>
             PROVE  /\ FreeIsSeenIn(PlanOf[v].grid, v.scene.cam, v.inView)
                    /\ ExactCover(PlanOf[v].rects, {p \in Cells : PlanOf[v].grid[p] = "occupied"})
  BY DEF Honest, Exact
<1> DEFINE wall == Polarity(v.scene.dark, v.inView)
           occ == Occupied(v.scene.dark, v.inView, wall)
           grid == BuildGrid(occ, v.inView, Visible(occ, v.inView, v.scene.cam))
<1>1. v.inView \in SUBSET Cells /\ v.scene.cam \in Point /\ occ \in SUBSET v.inView
  BY ViewIsOfCells DEF Occupied
<1>2. PlanOf[v] = World(v.scene.dark, v.inView, v.scene.cam)
  BY DEF PlanOf
<1> HIDE DEF wall
<1>3. PlanOf[v].grid = grid /\ PlanOf[v].rects = MergeRects(occ)
  BY <1>2 DEF World, wall
<1>4. {p \in Cells : grid[p] = "occupied"} = occ
  BY <1>1 DEF BuildGrid
<1> HIDE DEF occ
<1>5. FreeIsSeenIn(grid, v.scene.cam, v.inView)
  BY <1>1, FreeHasNoWallBefore
<1>6. ExactCover(MergeRects(occ), occ)
  BY <1>1, RectsCover
<1>7. QED BY <1>3, <1>4, <1>5, <1>6

----------------------------------------------------------------------------
(* The calibration. *)

\* The points in memory are those of the file, and those the operator set last; a
\* reference is only waited for after a receipt was written.
PinsFiled ==
    /\ work.mem = work.file
    /\ work.file # None => entered = work.file.pins
    /\ anchoring => receipt # None

CamerasInv == TypeOK /\ PinsFiled /\ PinsSurvive

LEMMA CamerasStart == Init => CamerasInv
<1> SUFFICES ASSUME Init PROVE CamerasInv
  OBVIOUS
<1>1. TypeOK
  <2>1. camera \in [at : 0..1, lens : Conditions, live : BOOLEAN, box : Boxes]
    <3>1. /\ camera = [at |-> camera.at, lens |-> camera.lens, live |-> camera.live,
                      box |-> camera.box]
          /\ camera.at = 0 /\ camera.lens = 0 /\ camera.live = TRUE /\ camera.box \in Boxes
      BY DEF Init
    <3>2. 0 \in 0..1 /\ 0 \in Conditions
      BY DEF Conditions
    <3>3. QED BY <3>1, <3>2
  <2>2. QED BY <2>1, CalibrationAssumption DEF Init, TypeOK
<1>2. QED BY <1>1 DEF Init, CamerasInv, PinsFiled, PinsSurvive

(* What the gateway says of the reference. *)
LEMMA VerdictTyped ==
  ASSUME TypeOK
  PROVE  CacheAfter \in Verdicts \cup {None}
<1>1. Measured \in Verdicts
  BY DEF Measured, Classified, Verdicts
<1>2. QED BY <1>1 DEF CacheAfter, DriftState, TypeOK

LEMMA CamerasKept == CamerasInv /\ (Next \/ UNCHANGED vars) => CamerasInv'
<1> SUFFICES ASSUME CamerasInv, Next \/ UNCHANGED vars
             PROVE  CamerasInv'
  OBVIOUS
<1> USE DEF CamerasInv
<1> DEFINE Refs == [mine : BOOLEAN, at : 0..1, patches : SUBSET (Spots \ Plain),
                    robots : Crowds]
           Works == [mem : Entry \cup {None}, file : Entry \cup {None}]
           CameraType == [at : 0..1, lens : Conditions, live : BOOLEAN, box : Boxes]
<1>1. /\ camera \in CameraType /\ robots \in Crowds /\ arena \in 0..1 /\ work \in Works
      /\ receipt \in Entry \cup {None} /\ ref \in Refs \cup {None}
      /\ cache \in Verdicts \cup {None} /\ masks \in Maskings /\ anchoring \in BOOLEAN
      /\ entered \in Layouts \cup {None}
  BY DEF TypeOK
<1>2. None \notin Entry /\ None \notin Layouts
  BY CalibrationAssumption
<1>3. /\ [mem |-> None, file |-> None] \in Works
      /\ \A e \in Entry \cup {None} : [mem |-> e, file |-> e] \in Works
  OBVIOUS
<1>4. \A e \in Entry : e.pins \in Layouts
  BY DEF Entry
<1>5. TypeOK' <=>
        /\ camera' \in CameraType /\ robots' \in Crowds /\ arena' \in 0..1 /\ work' \in Works
        /\ receipt' \in Entry \cup {None} /\ ref' \in Refs \cup {None}
        /\ cache' \in Verdicts \cup {None} /\ masks' \in Maskings /\ anchoring' \in BOOLEAN
        /\ entered' \in Layouts \cup {None}
  BY DEF TypeOK
<1>6. CacheAfter \in Verdicts \cup {None}
  BY VerdictTyped
<1>7. LET old == IF ref = None THEN ref ELSE [ref EXCEPT !.mine = FALSE]
      IN  old \in Refs \cup {None}
  BY <1>1
<1> HIDE DEF Refs, Works, CameraType
<1>8. ASSUME UNCHANGED <<work, receipt, entered>>, anchoring' => anchoring
      PROVE  PinsFiled' /\ PinsSurvive'
  BY <1>8 DEF PinsFiled, PinsSurvive
<1>9. CASE Ask \/ CacheExpires \/ \E scene \in Scenes : Build(scene)
  <2>1. UNCHANGED <<camera, robots, arena, work, receipt, ref, masks, anchoring, entered>>
        /\ (cache' = CacheAfter \/ cache' = None)
    BY <1>9 DEF Ask, CacheExpires, Build
  <2>2. QED BY <1>1, <1>5, <1>6, <1>8, <2>1
<1>10. ASSUME NEW pins \in Layouts, SetPoints(pins)
       PROVE  CamerasInv'
  <2> DEFINE lens == IF camera.live THEN camera.lens ELSE None
             e == [pins |-> pins, lens |-> lens, arena |-> arena]
  <2>1. e \in Entry
    BY <1>1 DEF Entry, CameraType
  <2>2. /\ work' = [mem |-> e, file |-> e] /\ entered' = pins
        /\ UNCHANGED <<camera, robots, arena, receipt, ref, masks, cache, anchoring>>
    BY <1>10 DEF SetPoints, files
  <2>3. e.pins = pins
    OBVIOUS
  <2> HIDE DEF e
  <2>4. PinsFiled' /\ PinsSurvive'
    BY <1>2, <2>1, <2>2, <2>3 DEF PinsFiled, PinsSurvive
  <2>5. QED BY <1>1, <1>3, <1>5, <2>1, <2>2, <2>4
<1>11. CASE Settle
  <2>1. /\ work.mem # None /\ receipt' = work.mem /\ work' = [mem |-> None, file |-> None]
        /\ ref' = IF ref = None THEN ref ELSE [ref EXCEPT !.mine = FALSE]
        /\ anchoring' = TRUE /\ UNCHANGED <<camera, robots, arena, cache, masks, entered>>
    BY <1>11 DEF Settle
  <2>2. work.mem \in Entry \cup {None}
    BY <1>1 DEF Works
  <2>3. PinsFiled' /\ PinsSurvive'
    BY <2>1 DEF PinsFiled, PinsSurvive
  <2>4. QED BY <1>1, <1>3, <1>5, <1>7, <2>1, <2>2, <2>3
<1>12. CASE Anchor
  <2>1. /\ anchoring /\ anchoring' = FALSE
        /\ UNCHANGED <<camera, robots, arena, work, receipt, masks, entered>>
        /\ \/ /\ ref' = [mine |-> TRUE, at |-> camera.at, patches |-> Patches,
                          robots |-> robots]
              /\ cache' = None
           \/ UNCHANGED <<ref, cache>>
    BY <1>12 DEF Anchor
  <2>2. receipt \in Entry
    BY <1>1, <2>1 DEF PinsFiled
  <2>3. Patches \subseteq Spots \ Plain
    BY <1>4, <2>2, CalibrationAssumption DEF Patches
  <2>4. [mine |-> TRUE, at |-> camera.at, patches |-> Patches, robots |-> robots] \in Refs
    BY <1>1, <2>3 DEF Refs, CameraType
  <2>5. QED BY <1>1, <1>5, <1>8, <2>1, <2>4
<1>13. CASE Clear
  <2>1. /\ work' = [mem |-> None, file |-> None] /\ ref' = None /\ cache' = None
        /\ entered' = None /\ UNCHANGED <<camera, robots, arena, receipt, masks, anchoring>>
    BY <1>13 DEF Clear
  <2>2. PinsFiled' /\ PinsSurvive'
    BY <2>1 DEF PinsFiled, PinsSurvive
  <2>3. QED BY <1>1, <1>3, <1>5, <2>1, <2>2
<1>14. ASSUME NEW m \in Maskings, SaveMasks(m)
       PROVE  CamerasInv'
  BY <1>1, <1>5, <1>8, <1>14 DEF SaveMasks
<1>15. CASE CameraChanges
  <2>1. /\ camera' \in {[camera EXCEPT !.at = 1 - camera.at],
                       [camera EXCEPT !.lens = 1 - camera.lens],
                       [camera EXCEPT !.live = ~camera.live]}
        /\ UNCHANGED <<robots, arena, work, receipt, ref, masks, cache, anchoring, entered>>
    BY <1>15 DEF CameraChanges, files
  <2>2. 1 - camera.at \in 0..1 /\ 1 - camera.lens \in 0..1
    BY <1>1 DEF CameraType, Conditions
  <2>3. camera' \in CameraType
    BY <1>1, <2>1, <2>2 DEF CameraType, Conditions
  <2>4. QED BY <1>1, <1>5, <1>8, <2>1, <2>3
<1>16. CASE RobotsMove
  BY <1>1, <1>5, <1>8, <1>16 DEF RobotsMove, files
<1>17. CASE Restart
  <2>1. /\ work' = [mem |-> work.file, file |-> work.file] /\ arena' \in 0..1
        /\ cache' = None /\ anchoring' = FALSE
        /\ UNCHANGED <<camera, robots, masks, entered, receipt, ref>>
    BY <1>17 DEF Restart, Restarted
  <2>2. work.file \in Entry \cup {None}
    BY <1>1 DEF Works
  <2>3. PinsFiled' /\ PinsSurvive'
    BY <2>1 DEF PinsFiled, PinsSurvive
  <2>4. QED BY <1>1, <1>3, <1>5, <2>1, <2>2, <2>3
<1>18. CASE CrashInSettle
  <2>1. /\ work.mem # None /\ receipt' = work.mem
        /\ work' = [mem |-> work.file, file |-> work.file] /\ arena' \in 0..1
        /\ cache' = None /\ anchoring' = FALSE
        /\ ref' = IF ref = None THEN ref ELSE [ref EXCEPT !.mine = FALSE]
        /\ UNCHANGED <<camera, robots, masks, entered>>
    BY <1>18 DEF CrashInSettle, HalfSettled, Restarted
  <2>2. work.file \in Entry \cup {None} /\ work.mem \in Entry \cup {None}
    BY <1>1 DEF Works
  <2>3. PinsFiled' /\ PinsSurvive'
    BY <2>1 DEF PinsFiled, PinsSurvive
  <2>4. QED BY <1>1, <1>3, <1>5, <1>7, <2>1, <2>2, <2>3
<1>19. CASE UNCHANGED vars
  BY <1>1, <1>5, <1>8, <1>19 DEF vars
<1>20. QED BY <1>9, <1>10, <1>11, <1>12, <1>13, <1>14, <1>15, <1>16, <1>17, <1>18, <1>19
           DEF Next

\* What was built is the plan of a view there can be.
PlanInv == world # None => world \in Views

LEMMA PlanKept ==
  ASSUME CamerasInv, PlanInv, Next \/ UNCHANGED vars
  PROVE  PlanInv'
<1>1. CASE \E scene \in Scenes : Build(scene)
  <2>1. PICK scene \in Scenes : world' = View(scene, camera.box, masks)
    BY <1>1 DEF Build
  <2>2. camera.box \in Boxes /\ masks \in Maskings
    BY DEF CamerasInv, TypeOK
  <2>3. world' \in Views
    <3>1. <<scene, camera.box, masks>> \in Scenes \X Boxes \X Maskings
      BY <2>2
    <3>2. QED BY <2>1, <3>1 DEF Views
  <2>4. QED BY <2>3 DEF PlanInv
<1>2. CASE UNCHANGED vars
  BY <1>2 DEF PlanInv, vars
<1>3. ASSUME Next, ~\E scene \in Scenes : Build(scene)
      PROVE  world' = None
  BY <1>3 DEF Next, Ask, CacheExpires, Settle, Anchor, Clear, SetPoints, SaveMasks,
     CameraChanges, RobotsMove, Restart, CrashInSettle, HalfSettled, Restarted
<1>4. QED BY <1>1, <1>2, <1>3 DEF PlanInv

----------------------------------------------------------------------------
(* The scenarios. *)

TripTyped ==
    /\ trip.says \in Desk!Sayings
    /\ trip = [says |-> trip.says, no |-> trip.no, due |-> trip.due, arrived |-> trip.arrived]

DeskTyped ==
    /\ course \in Courses
    /\ listed \in [Titles -> Desk!Sayings]
    /\ desk \in [mission : Desk!States, preEstop : Desk!States \cup {Absent},
                 preStop : Desk!States \cup {Absent},
                 chosen : Titles \cup {Desk!Custom, Absent}, custom : Desk!Sayings]
    /\ TripTyped

\* What a resume could bring back to RUNNING has a scenario as well.
RunHasScenario ==
    "RUNNING" \in {desk.mission, desk.preEstop, desk.preStop} => trip.says # Absent

DeskInv == DeskTyped /\ RunHasScenario /\ Desk!ListIsFile

LEMMA DeskStart == Desk!DeskInit => DeskInv
<1> SUFFICES ASSUME Desk!DeskInit PROVE DeskInv
  OBVIOUS
<1>1. /\ course \in Courses /\ userFile = [n \in Titles |-> Absent]
      /\ listed = Desk!Loaded(course, userFile) /\ trip = Desk!NoTrip
      /\ desk = [mission |-> "IDLE", preEstop |-> Absent, preStop |-> Absent,
                 chosen |-> Absent, custom |-> Absent]
  BY DEF Desk!DeskInit
<1>2. Absent \notin Contents \cup Desk!States /\ Absent \in Desk!Sayings
      /\ Possible[course] \subseteq Contents
  BY <1>1, OperatorAssumption DEF Desk!DeskConstants, Desk!Sayings
<1>3. listed \in [Titles -> Desk!Sayings] /\ Desk!ListIsFile
  <2>1. \A n \in Titles : Preset[course][n] \in Contents \cup {Absent}
    BY <1>1, OperatorAssumption DEF Desk!DeskConstants
  <2>2. listed = [n \in Titles |-> Preset[course][n]]
    BY <1>1, <1>2 DEF Desk!Loaded
  <2>3. QED BY <1>1, <2>1, <2>2 DEF Desk!Sayings, Desk!ListIsFile
<1>4. TripTyped /\ trip.says = Absent
  BY <1>1, <1>2 DEF TripTyped, Desk!NoTrip
<1>5. "RUNNING" \in Desk!States /\ "IDLE" \in Desk!States
  BY DEF Desk!States
<1>6. RunHasScenario
  BY <1>1, <1>2, <1>5 DEF RunHasScenario
<1>7. QED BY <1>1, <1>2, <1>3, <1>4, <1>5, <1>6 DEF DeskInv, DeskTyped

(* The list after a save or a delete, whether or not the file was written. *)
LEMMA StoreKeeps ==
  ASSUME DeskInv, NEW l \in [Titles -> Desk!Sayings], Desk!Store(l)
  PROVE  DeskInv'
<1>1. PICK writes \in BOOLEAN : /\ listed' = Desk!ListAfter(l, writes)
                                /\ userFile' = IF writes THEN Desk!Written(l) ELSE userFile
  BY DEF Desk!Store
<1>2. UNCHANGED <<course, desk, trip>>
  BY DEF Desk!Store
<1>3. listed' = (IF writes THEN l ELSE listed)
  BY <1>1 DEF Desk!ListAfter
<1>4. Desk!ListIsFile'
  <2>1. CASE writes
    BY <1>1, <1>2, <1>3, <2>1 DEF Desk!ListIsFile, Desk!Written
  <2>2. CASE ~writes
    BY <1>1, <1>2, <1>3, <2>2 DEF DeskInv, Desk!ListIsFile
  <2>3. QED BY <2>1, <2>2
<1>5. QED BY <1>2, <1>3, <1>4 DEF DeskInv, DeskTyped, TripTyped, RunHasScenario

(* A scenario that starts has a content. *)
LEMMA StartKeeps ==
  ASSUME DeskInv, NEW n \in Titles \cup {Desk!Custom}, NEW c \in Contents,
         Desk!StartScenario(n, c)
  PROVE  DeskInv'
<1>1. /\ trip'.says = c /\ trip' = [says |-> trip'.says, no |-> trip'.no,
                                   due |-> trip'.due, arrived |-> trip'.arrived]
      /\ UNCHANGED <<course, listed, userFile>>
  BY DEF Desk!StartScenario, Desk!Begin
<1>2. desk' = [desk EXCEPT !.mission = "RUNNING", !.chosen = n,
                           !.custom = IF n = Desk!Custom THEN c ELSE desk.custom]
  BY DEF Desk!StartScenario
<1>3. c \in Desk!Sayings /\ c # Absent /\ "RUNNING" \in Desk!States
  BY OperatorAssumption DEF Desk!DeskConstants, Desk!Sayings, Desk!States
<1>4. DeskTyped'
  BY <1>1, <1>2, <1>3 DEF DeskInv, DeskTyped, TripTyped
<1>5. RunHasScenario' /\ Desk!ListIsFile'
  BY <1>1, <1>3 DEF DeskInv, RunHasScenario, Desk!ListIsFile
<1>6. QED BY <1>4, <1>5 DEF DeskInv

(* The stops, the resume and the end: where the mission may come to. *)
LEMMA TurnKeeps ==
  ASSUME DeskInv, UNCHANGED <<course, listed, userFile>>,
         \E due, arrived : \/ trip' = trip
                           \/ trip' = [says |-> trip.says, no |-> trip.no,
                                      due |-> due, arrived |-> arrived],
         desk' \in [mission : Desk!States, preEstop : Desk!States \cup {Absent},
                   preStop : Desk!States \cup {Absent},
                   chosen : Titles \cup {Desk!Custom, Absent}, custom : Desk!Sayings],
         \A x \in {desk'.mission, desk'.preEstop, desk'.preStop} :
            x = "RUNNING" => "RUNNING" \in {desk.mission, desk.preEstop, desk.preStop}
  PROVE  DeskInv'
<1>1. TripTyped' /\ trip'.says = trip.says
  BY DEF DeskInv, DeskTyped, TripTyped
<1>2. RunHasScenario' /\ Desk!ListIsFile'
  BY <1>1 DEF DeskInv, RunHasScenario, Desk!ListIsFile
<1>3. QED BY <1>1, <1>2 DEF DeskInv, DeskTyped

LEMMA RestartKeeps ==
  ASSUME DeskInv, NEW k \in Courses, Desk!Restart(k)
  PROVE  DeskInv'
<1>1. /\ course' = k /\ listed' = Desk!Loaded(k, userFile) /\ userFile' = userFile
      /\ trip' = Desk!NoTrip
      /\ desk' = [mission |-> IF desk.mission = "ESTOP" THEN "ESTOP" ELSE "IDLE",
                  preEstop |-> IF desk.mission = "ESTOP" THEN Desk!LeadsTo(desk.preEstop)
                               ELSE Absent,
                  preStop |-> IF /\ desk.mission \in {"ESTOP", "STOPPED", "DONE"}
                                 /\ desk.preStop = "DONE" THEN "DONE" ELSE Absent,
                  chosen |-> Absent, custom |-> Absent]
  BY DEF Desk!Restart
<1>2. /\ Absent \notin Contents \cup Desk!States /\ Absent \in Desk!Sayings
      /\ Possible[k] \subseteq Contents
      /\ \A n \in Titles : Preset[k][n] \in Contents \cup {Absent}
  BY OperatorAssumption DEF Desk!DeskConstants, Desk!Sayings
<1>3. \A n \in Titles :
         /\ listed'[n] = IF Preset[k][n] # Absent THEN Preset[k][n]
                         ELSE IF userFile[n] \in Possible[k] THEN userFile[n] ELSE Absent
         /\ listed'[n] \in Desk!Sayings
  BY <1>1, <1>2 DEF Desk!Loaded, Desk!Sayings
<1>4. listed' \in [Titles -> Desk!Sayings]
  BY <1>1, <1>3 DEF Desk!Loaded
<1>5. Desk!ListIsFile'
  BY <1>1, <1>3 DEF Desk!ListIsFile
<1>6. TripTyped'
  BY <1>1, <1>2 DEF TripTyped, Desk!NoTrip
<1>7. /\ desk'.mission \in {"ESTOP", "IDLE"}
      /\ desk'.preEstop \in {"STOPPED", "DONE", Absent} /\ desk'.preStop \in {"DONE", Absent}
      /\ desk'.chosen = Absent /\ desk'.custom = Absent
      /\ desk' = [mission |-> desk'.mission, preEstop |-> desk'.preEstop,
                  preStop |-> desk'.preStop, chosen |-> desk'.chosen, custom |-> desk'.custom]
  BY <1>1 DEF Desk!LeadsTo
<1>8. "RUNNING" # Absent
  BY <1>2 DEF Desk!States
<1>9. RunHasScenario'
  BY <1>7, <1>8 DEF RunHasScenario
<1>10. DeskTyped'
  BY <1>1, <1>2, <1>4, <1>6, <1>7 DEF DeskTyped, Desk!States
<1>11. QED BY <1>5, <1>9, <1>10 DEF DeskInv

LEMMA DeskKept == DeskInv /\ (Desk!DeskNext \/ UNCHANGED deskVars) => DeskInv'
<1> SUFFICES ASSUME DeskInv, Desk!DeskNext \/ UNCHANGED deskVars
             PROVE  DeskInv'
  OBVIOUS
<1> DEFINE DeskType == [mission : Desk!States, preEstop : Desk!States \cup {Absent},
                        preStop : Desk!States \cup {Absent},
                        chosen : Titles \cup {Desk!Custom, Absent}, custom : Desk!Sayings]
           Three(d) == {d.mission, d.preEstop, d.preStop}
<1>1. /\ course \in Courses /\ listed \in [Titles -> Desk!Sayings] /\ desk \in DeskType
      /\ trip.says \in Desk!Sayings
      /\ trip = [says |-> trip.says, no |-> trip.no, due |-> trip.due,
                 arrived |-> trip.arrived]
  BY DEF DeskInv, DeskTyped, TripTyped
<1>2. Absent \in Desk!Sayings /\ Contents \subseteq Desk!Sayings
      /\ (\A k \in Courses : Possible[k] \subseteq Contents) /\ "RUNNING" # Absent
  BY OperatorAssumption DEF Desk!DeskConstants, Desk!Sayings, Desk!States
<1>3. ASSUME UNCHANGED <<course, listed, userFile, trip>>, desk' \in DeskType,
             "RUNNING" \in Three(desk') => "RUNNING" \in Three(desk)
      PROVE  DeskInv'
  BY <1>3, TurnKeeps
<1>4. ASSUME UNCHANGED <<course, listed, userFile, trip, desk>>
      PROVE  DeskInv'
  BY <1>1, <1>3, <1>4
<1>5. ASSUME NEW n \in Titles, Desk!DeleteUserScenario(n)
      PROVE  DeskInv'
  <2>1. [listed EXCEPT ![n] = Absent] \in [Titles -> Desk!Sayings]
    BY <1>1, <1>2
  <2>2. QED BY <1>5, <2>1, StoreKeeps DEF Desk!DeleteUserScenario
<1>6. ASSUME NEW n \in Titles, NEW c \in Contents, Desk!SaveUserScenario(n, c)
      PROVE  DeskInv'
  <2>1. [listed EXCEPT ![n] = c] \in [Titles -> Desk!Sayings]
    BY <1>1, <1>2
  <2>2. QED BY <1>6, <2>1, StoreKeeps DEF Desk!SaveUserScenario
<1>7. ASSUME NEW n \in Titles \cup {Desk!Custom}, Desk!StartNamed(n)
      PROVE  DeskInv'
  <2>1. Desk!ContentOf(n) # Absent /\ Desk!StartScenario(n, Desk!ContentOf(n))
    BY <1>7 DEF Desk!StartNamed
  <2>2. Desk!ContentOf(n) \in Desk!Sayings
    BY <1>1 DEF Desk!ContentOf
  <2>3. QED BY <2>1, <2>2, StartKeeps DEF Desk!Sayings
<1>8. ASSUME NEW c \in Contents, Desk!StartCustom(c)
      PROVE  DeskInv'
  BY <1>8, StartKeeps DEF Desk!StartCustom
<1>9. CASE Desk!StartAgain
  <2>1. desk.chosen \in Titles \cup {Desk!Custom}
    BY <1>1, <1>9 DEF Desk!StartAgain
  <2>2. QED BY <1>7, <1>9, <2>1 DEF Desk!StartAgain
<1>10. CASE Desk!StopFleet
  <2>1. /\ desk' = [desk EXCEPT !.preStop = IF desk.mission = "STOPPED" THEN desk.preStop
                                             ELSE desk.mission,
                                !.mission = "STOPPED"]
        /\ UNCHANGED <<course, listed, userFile, trip>>
    BY <1>10 DEF Desk!StopFleet, Desk!Turns
  <2>2. desk' \in DeskType /\ ("RUNNING" \in Three(desk') => "RUNNING" \in Three(desk))
    BY <1>1, <2>1 DEF Desk!States
  <2>3. QED BY <1>3, <2>1, <2>2
<1>11. CASE Desk!EstopFleet
  <2>1. /\ desk' = [desk EXCEPT !.preEstop = desk.mission, !.mission = "ESTOP"]
        /\ UNCHANGED <<course, listed, userFile, trip>>
    BY <1>11 DEF Desk!EstopFleet, Desk!Turns
  <2>2. desk' \in DeskType /\ ("RUNNING" \in Three(desk') => "RUNNING" \in Three(desk))
    BY <1>1, <2>1 DEF Desk!States
  <2>3. QED BY <1>3, <2>1, <2>2
<1>12. CASE Desk!ResumeFleet
  <2> DEFINE back == Desk!Before
  <2>1. /\ desk' = [desk EXCEPT !.mission = back, !.preEstop = Absent, !.preStop = Absent]
        /\ UNCHANGED <<course, listed, userFile, trip>>
    BY <1>12 DEF Desk!ResumeFleet, Desk!Turns
  <2>2. back \in Desk!States /\ (back = "RUNNING" => "RUNNING" \in Three(desk))
    BY DEF Desk!Before, Desk!States
  <2> HIDE DEF back
  <2>3. desk' \in DeskType /\ ("RUNNING" \in Three(desk') => "RUNNING" \in Three(desk))
    BY <1>1, <1>2, <2>1, <2>2
  <2>4. QED BY <1>3, <2>1, <2>3
<1>13. CASE Desk!LoopTick
  <2> DEFINE m == IF desk.mission = "RUNNING" /\ Desk!On /\ Desk!AllArrived THEN "DONE"
                  ELSE desk.mission
  <2>1. /\ desk' = [desk EXCEPT !.mission = m]
        /\ UNCHANGED <<course, listed, userFile, trip>>
    BY <1>13 DEF Desk!LoopTick
  <2>2. m \in Desk!States /\ (m = "RUNNING" => desk.mission = "RUNNING")
    BY <1>1 DEF Desk!States
  <2> HIDE DEF m
  <2>3. desk' \in DeskType /\ ("RUNNING" \in Three(desk') => "RUNNING" \in Three(desk))
    BY <1>1, <2>1, <2>2
  <2>4. QED BY <1>3, <2>1, <2>3
<1>14. ASSUME NEW r \in Robots, Desk!StopRobot(r) \/ Desk!ResumeRobot(r)
                                 \/ Desk!PlanArrives(r) \/ Desk!Drives(r) \/ Desk!Reports(r)
       PROVE  DeskInv'
  BY <1>4, <1>14 DEF Desk!StopRobot, Desk!ResumeRobot, Desk!PlanArrives, Desk!Drives,
                     Desk!Reports
<1>15. ASSUME NEW r \in Robots, Desk!Departs(r) \/ Desk!StatusArrives(r)
       PROVE  DeskInv'
  <2>1. /\ UNCHANGED <<course, listed, userFile, desk>>
        /\ \/ trip' = trip
           \/ trip' = [trip EXCEPT !.due = trip.due \cup {r}]
           \/ trip' = [trip EXCEPT !.arrived = trip.arrived \cup {r}]
    BY <1>15 DEF Desk!Departs, Desk!StatusArrives
  <2>2. \E due, arrived : \/ trip' = trip
                          \/ trip' = [says |-> trip.says, no |-> trip.no,
                                     due |-> due, arrived |-> arrived]
    <3>1. [trip EXCEPT !.due = trip.due \cup {r}]
            = [says |-> trip.says, no |-> trip.no, due |-> trip.due \cup {r},
               arrived |-> trip.arrived]
      BY <1>1
    <3>2. [trip EXCEPT !.arrived = trip.arrived \cup {r}]
            = [says |-> trip.says, no |-> trip.no, due |-> trip.due,
               arrived |-> trip.arrived \cup {r}]
      BY <1>1
    <3>3. QED BY <2>1, <3>1, <3>2, Zenon
  <2>3. desk' \in DeskType
    BY <1>1, <2>1
  <2>4. QED BY <2>1, <2>2, <2>3, TurnKeeps
<1>16. ASSUME NEW k \in Courses, Desk!Restart(k)
       PROVE  DeskInv'
  BY <1>16, RestartKeeps
<1>17. CASE UNCHANGED deskVars
  BY <1>4, <1>17 DEF deskVars
<1>18. QED BY <1>5, <1>6, <1>7, <1>8, <1>9, <1>10, <1>11, <1>12, <1>13, <1>14, <1>15, <1>16,
              <1>17 DEF Desk!DeskNext

----------------------------------------------------------------------------
(* The gateway. *)

GatewayInv == CommandsInv /\ CamerasInv /\ PlanInv /\ DeskInv

LEMMA GatewayStep ==
  ASSUME GatewayInv, [GatewayNext]_gatewayVars
  PROVE  /\ Commands!Next \/ UNCHANGED commandVars
         /\ Next \/ UNCHANGED vars
         /\ Desk!DeskNext \/ UNCHANGED deskVars
         /\ GatewayInv'
<1>1. /\ Commands!Next \/ UNCHANGED commandVars
      /\ Next \/ UNCHANGED vars
      /\ Desk!DeskNext \/ UNCHANGED deskVars
  BY DEF GatewayNext, gatewayVars
<1>2. QED BY <1>1, CommandsKept, CamerasKept, PlanKept, DeskKept DEF GatewayInv

LEMMA GatewayAlways == GatewaySpec => []GatewayInv
<1>1. GatewayInit => GatewayInv
  <2>1. Init => PlanInv
    BY DEF Init, PlanInv
  <2>2. QED BY <2>1, CommandsStart, CamerasStart, DeskStart DEF GatewayInit, GatewayInv
<1>2. GatewayInv /\ [GatewayNext]_gatewayVars => GatewayInv'
  BY GatewayStep
<1>3. QED BY <1>1, <1>2, PTL DEF GatewaySpec

(* The types of the commands and of the calibration. *)
THEOREM GatewayTypeCorrect == GatewaySpec => [](Commands!TypeOK /\ TypeOK)
<1>1. GatewayInv => Commands!TypeOK /\ TypeOK
  BY DEF GatewayInv, CommandsInv, CamerasInv
<1>2. QED BY <1>1, GatewayAlways, PTL

(* No client is told "applied" because of an older result, for any number of *)
(* clients and of commands under way (wait_control_result).                   *)
THEOREM RepliesAreOfTheirOwn == GatewaySpec => []RepliesAreNew
<1>1. GatewayInv => RepliesAreNew
  BY DEF GatewayInv, CommandsInv, RepliesAreNew
<1>2. QED BY <1>1, GatewayAlways, PTL

(* A fleet that was started and not stopped for good can be resumed into it,  *)
(* whatever stops are pressed on each other (stop_fleet, resume_fleet).       *)
THEOREM RunSurvivesStops == GatewaySpec => []RunIsKept
<1>1. GatewayInv => RunIsKept
  BY DEF GatewayInv, CommandsInv, RunIsKept, Commands!RunIsKept, StartedIsKept
<1>2. QED BY <1>1, GatewayAlways, PTL

(* And no resume sets off a fleet that nobody started. *)
THEOREM NoResumeStarts == GatewaySpec => []Commands!RunningWasStarted
<1>1. GatewayInv => Commands!RunningWasStarted
  BY DEF GatewayInv, CommandsInv, Commands!RunningWasStarted, StartedIsKept,
         Commands!ResumesTo, Commands!TypeOK
<1>2. QED BY <1>1, GatewayAlways, PTL

(* Control passes between laptops only when its holder let go or fell silent. *)
THEOREM LeaseIsKept == GatewaySpec => Commands!LeaseKept
<1>1. GatewayInv /\ [GatewayNext]_gatewayVars
        => [Commands!TakenAway => lease'.holder = Local]_(Commands!vars)
  BY GatewayStep, LeasePasses DEF GatewayInv
<1>2. QED BY <1>1, GatewayAlways, PTL DEF GatewaySpec, Commands!LeaseKept

(* The pins an operator set are in a file until he clears them, wherever the  *)
(* process ends (calibration.py: the receipt is written first).               *)
THEOREM PinsAreFiled == GatewaySpec => []PinsSurvive
<1>1. GatewayInv => PinsSurvive
  BY DEF GatewayInv, CamerasInv
<1>2. QED BY <1>1, GatewayAlways, PTL

(* No floor plan calls a cell free that is masked, censored, out of the frame *)
(* or behind a wall inside the arena, for any size of the grid, any picture   *)
(* and any place of the camera: the samples of a ray, rounded, do not slip    *)
(* past the grown walls (vision_world.py cast_shadows).                       *)
THEOREM FreeCellsAreSeen == GatewaySpec => []FreeIsSeen
<1>1. GatewayInv => FreeIsSeen
  BY PlansAreTrue DEF GatewayInv, PlanInv, FreeIsSeen
<1>2. QED BY <1>1, GatewayAlways, PTL

(* The wall boxes are the occupied cells, each once, for any picture          *)
(* (vision_world.py merge_rects).                                             *)
THEOREM WallBoxesAreExact == GatewaySpec => []WallsAreExact
<1>1. GatewayInv => WallsAreExact
  BY PlansAreTrue DEF GatewayInv, PlanInv, WallsAreExact
<1>2. QED BY <1>1, GatewayAlways, PTL

(* The list of scenarios is the file's, for any titles, contents and courses  *)
(* (save_user_scenario, load_user_scenarios).                                  *)
THEOREM ListIsTheFile == GatewaySpec => []ListIsFile
<1>1. GatewayInv => ListIsFile
  BY DEF GatewayInv, DeskInv, ListIsFile
<1>2. QED BY <1>1, GatewayAlways, PTL

(* Neither a resume nor a restart brings back a mission without a scenario.   *)
THEOREM RunningHasScenario == GatewaySpec => []RunningHasRun
<1>1. GatewayInv => RunningHasRun
  BY DEF GatewayInv, DeskInv, RunHasScenario, RunningHasRun, Desk!RunningHasRun,
         Desk!On, Desk!NoTrip
<1>2. QED BY <1>1, GatewayAlways, PTL

=============================================================================
