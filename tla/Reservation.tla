---------------------------- MODULE Reservation ----------------------------
(***************************************************************************)
(* The segment reservation of the relay coordinator: edges and nodes of    *)
(* the road graph are exclusive, a robot takes the edges of its route in   *)
(* order and is told how far it may drive (clear_until).                   *)
(*                                                                         *)
(* Source: relay_station/fleet/reservation.py, and the parts of            *)
(* fleet_coordinator.py that call it (_loop_tick, _cb_lane_status,         *)
(* assign_route).  The coordinator serialises its handlers with one lock:  *)
(* a tick of _loop_tick is split into steps here (`phase`), and no handler *)
(* runs between them.                                                      *)
(*                                                                         *)
(* Positions are arc lengths along the robot's own route, in whole units;  *)
(* a route tabulates the waypoint at or before each arc length (`idxAt`).  *)
(***************************************************************************)
EXTENDS Integers, Sequences, FiniteSets

CONSTANTS
  Robots, Nodes, Edges, Routes,
  RoutesOf,         \* [Robots -> SUBSET Routes]: the missions of a robot
  DomainId,         \* [Robots -> Nat]: ties of the request order
  NoRobot, NoRoute, NoEdge,
  MaxEdges,         \* the most edges of a route
  ReserveAhead, ReleaseBehind, NodeStopMargin,
  MaxStep,          \* what progress may rise in one update (max_speed * period)
  ConfirmUpdates,   \* the window of poses that confirms progress
  RegressTol,
  (* What the model assumes of the world. *)
  PoseError,        \* an honest pose is at most this far from the robot
  WrongPoses,       \* where a wrong pose may project to
  MaxWrong,         \* wrong poses in any window of ConfirmUpdates
  Overshoot,        \* how far past the permitted point a robot may stop
  Allowed           \* a subset of Disturbances

(* What a run may let the operator and the network do besides the ordinary:  *)
(* assign a robot that is under way, assign one from a node that another has *)
(* reserved, interrupt a robot that has arrived (STOP, link lost), lose the  *)
(* poses of a tick, pause the fleet.                                         *)
Disturbances == {"reassign", "start_taken", "interrupt", "stale", "pause"}

Length(rt) == rt.cum[rt.goalIdx]

EdgeStart(rt, k) == IF k = 0 THEN 0 ELSE rt.cum[rt.endIdx[k - 1]]
EdgeEnd(rt, k) == rt.cum[rt.endIdx[k]]

(***************************************************************************)
(* A route of RoadGraph.shortest_route: n edges in order, simple (no node  *)
(* and no edge twice), every edge longer than what a robot may overshoot.  *)
(***************************************************************************)
IsRoute(rt) ==
  /\ rt.n \in 1 .. MaxEdges
  /\ rt.goalIdx \in Nat \ {0}
  /\ rt.edges \in [0 .. rt.n - 1 -> Edges]
  /\ rt.nodes \in [0 .. rt.n -> Nodes]
  /\ rt.endIdx \in [0 .. rt.n - 1 -> 0 .. rt.goalIdx]
  /\ rt.endIdx[rt.n - 1] = rt.goalIdx
  /\ \A j, k \in 0 .. rt.n - 1 : j < k => rt.endIdx[j] < rt.endIdx[k]
  /\ rt.cum \in [0 .. rt.goalIdx -> Nat]
  /\ rt.cum[0] = 0
  /\ \A i, j \in 0 .. rt.goalIdx : i < j => rt.cum[i] < rt.cum[j]
  /\ rt.idxAt \in [0 .. Length(rt) -> 0 .. rt.goalIdx]
  /\ \A s \in 0 .. Length(rt) :
       /\ rt.cum[rt.idxAt[s]] <= s
       /\ \A i \in 0 .. rt.goalIdx : rt.cum[i] <= s => i <= rt.idxAt[s]
  /\ \A j, k \in 0 .. rt.n - 1 : j # k => rt.edges[j] # rt.edges[k]
  /\ \A j, k \in 0 .. rt.n : j # k => rt.nodes[j] # rt.nodes[k]
  /\ \A k \in 0 .. rt.n - 1 : EdgeStart(rt, k) + Overshoot < EdgeEnd(rt, k)

ASSUME RouteAssumption ==
  /\ \A rt \in Routes : IsRoute(rt)
  /\ RoutesOf \in [Robots -> SUBSET Routes]
  /\ NoRoute \notin Routes

ASSUME NullAssumption ==
  /\ NoRobot \notin Robots
  /\ NoEdge \notin Edges
  /\ IsFiniteSet(Robots)
  /\ DomainId \in [Robots -> Nat]

ASSUME ParameterAssumption ==
  /\ MaxEdges \in Nat
  /\ ReserveAhead \in Nat /\ ReleaseBehind \in Nat /\ NodeStopMargin \in Nat
  /\ MaxStep \in Nat /\ ConfirmUpdates \in Nat \ {0} /\ RegressTol \in Nat
  /\ PoseError \in Nat /\ WrongPoses \subseteq Nat
  /\ MaxWrong \in 0 .. ConfirmUpdates - 1
  /\ Overshoot \in Nat
  /\ Allowed \subseteq Disturbances
  /\ PoseError <= ReleaseBehind
  /\ Overshoot <= NodeStopMargin

VARIABLES
  route, first, next, finished, waitingFor,     \* RobotSlot; `held` is first .. next - 1
  progress, lead, reported, recent, behind,     \* RobotSlot: how far it is
  edgeHolder, nodeHolder,                       \* the two tables
  request, now,                                 \* order of the request ticks
  clear, claim,                                 \* coordinator: permission, arrival claim
  phase, todo, live,                            \* where a tick stands
  granted, belief,                              \* the agent: its permission, its own progress
  at, honest                                    \* the world: position, which poses were right

slotVars == <<route, first, next, finished, waitingFor>>
poseVars == <<progress, lead, recent, behind, honest>>
tableVars == <<edgeHolder, nodeHolder>>
requestVars == <<request, now>>
tickVars == <<phase, todo, live>>
robotVars == <<granted, belief, at>>
vars == <<slotVars, poseVars, reported, tableVars, requestVars, clear, claim, tickVars, robotVars>>

----------------------------------------------------------------------------
MinOf(a, b) == IF a <= b THEN a ELSE b
MaxOf(a, b) == IF a >= b THEN a ELSE b

Registered == {r \in Robots : route[r] # NoRoute}

Goal(rt) == rt.nodes[rt.n]

Held(r) == first[r] .. next[r] - 1

HasNext(r) == ~ finished[r] /\ next[r] < route[r].n

(* Mutant: the edge before the last one counts as the last. *)
MutClearAtEarly(rt, k) ==
  IF k >= rt.n - 2 THEN rt.goalIdx
  ELSE rt.idxAt[MaxOf(EdgeStart(rt, k), EdgeEnd(rt, k) - NodeStopMargin)]

(* The permission while edge k is the last one held (clear_until). *)
ClearAt(rt, k) ==
  IF k = rt.n - 1 THEN rt.goalIdx
  ELSE rt.idxAt[MaxOf(EdgeStart(rt, k), EdgeEnd(rt, k) - NodeStopMargin)]

ClearUntil(r) == IF Held(r) = {} THEN 0 ELSE ClearAt(route[r], next[r] - 1)

(* Taking follows the foremost estimate, the agent's own included (_lead). *)
Lead(r) == MaxOf(lead[r], MaxOf(progress[r], reported[r]))

(* The point the next request is measured from (_request_anchor). *)
RequestAnchor(r) ==
  LET start == EdgeStart(route[r], next[r])
  IN  IF Held(r) = {} THEN start ELSE MinOf(start, route[r].cum[ClearUntil(r)])

(* Mutant: what a robot holds is not let go. *)
MutWithoutKeeps(table, r) == table

(* A table without the entries of robot r. *)
Without(table, r) == [x \in DOMAIN table |-> IF table[x] = r THEN NoRobot ELSE table[x]]

(* A bounded window keeps the last ConfirmUpdates entries (deque(maxlen)). *)
Push(window, x) ==
  IF Len(window) < ConfirmUpdates THEN Append(window, x) ELSE Append(Tail(window), x)

NothingBehind == [count |-> 0, top |-> 0]

----------------------------------------------------------------------------
Init ==
  /\ route = [r \in Robots |-> NoRoute]
  /\ first = [r \in Robots |-> 0]
  /\ next = [r \in Robots |-> 0]
  /\ finished = [r \in Robots |-> FALSE]
  /\ waitingFor = [r \in Robots |-> NoEdge]
  /\ progress = [r \in Robots |-> 0]
  /\ lead = [r \in Robots |-> 0]
  /\ reported = [r \in Robots |-> 0]
  /\ recent = [r \in Robots |-> <<>>]
  /\ behind = [r \in Robots |-> NothingBehind]
  /\ edgeHolder = [e \in Edges |-> NoRobot]
  /\ nodeHolder = [v \in Nodes |-> NoRobot]
  /\ request = [r \in Robots |-> 0]
  /\ now = 1
  /\ clear = [r \in Robots |-> 0]
  /\ claim = [r \in Robots |-> 0]
  /\ phase = "idle" /\ todo = {} /\ live = {}
  /\ granted = [r \in Robots |-> 0]
  /\ belief = [r \in Robots |-> 0]
  /\ at = [r \in Robots |-> 0]
  /\ honest = [r \in Robots |-> <<>>]

----------------------------------------------------------------------------
(* assign_route: refuse what would park a robot in another's way, register. *)

Interior(rt) == {rt.nodes[k] : k \in 1 .. rt.n - 1}

(* Mutant: only equal goals are refused. *)
MutConflictSameGoal(r, rt) == \E q \in Registered \ {r} : Goal(route[q]) = Goal(rt)

AssignConflict(r, rt) ==
  \/ \E q \in Registered \ {r} :
       \/ Goal(route[q]) = Goal(rt)
       \/ ~ finished[q] /\ Goal(rt) \in Interior(route[q])
       \/ Goal(route[q]) \in Interior(rt)
  \/ \E q \in Registered \ {r} : nodeHolder[Goal(rt)] = q /\ finished[q]

(* The robot stands where the operator says it starts, and nobody else does. *)
StandsAtStart(r, rt) ==
  \/ /\ \/ route[r] = NoRoute
        \/ finished[r] /\ Goal(route[r]) = rt.nodes[0]
     /\ "start_taken" \in Allowed \/ nodeHolder[rt.nodes[0]] \in {NoRobot, r}
     /\ \A q \in Registered \ {r} :
          /\ at[q] = 0 => route[q].nodes[0] # rt.nodes[0]
          /\ finished[q] => Goal(route[q]) # rt.nodes[0]
     /\ at' = [at EXCEPT ![r] = 0]
  \/ /\ "reassign" \in Allowed /\ ~ finished[r] /\ route[r] = rt
     /\ at' = at

Register(r, rt) ==
  /\ route' = [route EXCEPT ![r] = rt]
  /\ first' = [first EXCEPT ![r] = 0]
  /\ next' = [next EXCEPT ![r] = 0]
  /\ finished' = [finished EXCEPT ![r] = FALSE]
  /\ waitingFor' = [waitingFor EXCEPT ![r] = NoEdge]
  /\ progress' = [progress EXCEPT ![r] = 0]
  /\ lead' = [lead EXCEPT ![r] = 0]
  /\ reported' = [reported EXCEPT ![r] = 0]
  /\ recent' = [recent EXCEPT ![r] = <<>>]
  /\ behind' = [behind EXCEPT ![r] = NothingBehind]
  /\ honest' = [honest EXCEPT ![r] = <<>>]
  /\ request' = [request EXCEPT ![r] = 0]
  /\ edgeHolder' = Without(edgeHolder, r)
  /\ LET free == Without(nodeHolder, r)
         start == rt.nodes[0]
     IN  nodeHolder' = IF free[start] = NoRobot THEN [free EXCEPT ![start] = r] ELSE free

Assign(r, rt) ==
  /\ phase = "idle"
  /\ ~ AssignConflict(r, rt)
  /\ StandsAtStart(r, rt)
  /\ Register(r, rt)
  /\ clear' = [clear EXCEPT ![r] = 0]
  /\ granted' = [granted EXCEPT ![r] = 0]
  /\ belief' = [belief EXCEPT ![r] = 0]
  /\ UNCHANGED <<now, claim, tickVars>>

----------------------------------------------------------------------------
(* What a LaneStatus report does (_cb_lane_status): every report says how  *)
(* far the agent believes to be (note_reported_idx).                        *)

NoteReported(r) ==
  reported' = [reported EXCEPT ![r] = route[r].cum[route[r].idxAt[belief[r]]]]

BelievesArrived(r) ==
  granted[r] = route[r].goalIdx /\ belief[r] = Length(route[r])

(* A report that claims no arrival, or claims one already accepted.         *)
StatusDriving(r) ==
  /\ phase = "idle" /\ r \in Registered
  /\ BelievesArrived(r) => finished[r] \/ "interrupt" \in Allowed
  /\ NoteReported(r)
  /\ claim' = [claim EXCEPT ![r] = 0]
  /\ UNCHANGED <<slotVars, poseVars, tableVars, requestVars, clear, tickVars, robotVars>>

(* A robot at a stop line asks whatever the distance (request_next_now).    *)
StatusJunctionStop(r) ==
  /\ phase = "idle" /\ r \in Registered /\ HasNext(r) /\ request[r] = 0
  /\ ~ BelievesArrived(r)
  /\ NoteReported(r)
  /\ request' = [request EXCEPT ![r] = now]
  /\ claim' = [claim EXCEPT ![r] = 0]
  /\ UNCHANGED <<slotVars, poseVars, tableVars, now, clear, tickVars, robotVars>>

(* The lower median of the window (goal_gap). *)
Below(w, v) == Cardinality({i \in 1 .. Len(w) : w[i] < v})
UpTo(w, v) == Cardinality({i \in 1 .. Len(w) : w[i] <= v})
LowerMedian(w) ==
  CHOOSE v \in {w[i] : i \in 1 .. Len(w)} :
    Below(w, v) <= (Len(w) - 1) \div 2 /\ (Len(w) - 1) \div 2 < UpTo(w, v)

GoalGap(r) ==
  LET seen == IF Len(recent[r]) < ConfirmUpdates THEN progress[r] ELSE LowerMedian(recent[r])
  IN  MaxOf(0, Length(route[r]) - seen)

(* Mutant: an arrival counts once it is claimed long enough. *)
MutAcceptedAnywhere(r) == claim[r] > ConfirmUpdates

(* An arrival counts once it is claimed for a whole window near the goal.   *)
Accepted(r) == claim[r] > ConfirmUpdates /\ GoalGap(r) <= ReserveAhead

StatusArrived(r) ==
  /\ phase = "idle" /\ r \in Registered /\ ~ finished[r]
  /\ BelievesArrived(r) /\ ~ Accepted(r)
  /\ NoteReported(r)
  /\ claim' = [claim EXCEPT ![r] = MaxOf(@, 1)]
  /\ UNCHANGED <<slotVars, poseVars, tableVars, requestVars, clear, tickVars, robotVars>>

(* mark_arrived: every edge is let go, of the nodes only the goal is kept.  *)
StatusArrivedAccepted(r) ==
  /\ phase = "idle" /\ r \in Registered /\ ~ finished[r]
  /\ BelievesArrived(r) /\ Accepted(r)
  /\ NoteReported(r)
  /\ finished' = [finished EXCEPT ![r] = TRUE]
  /\ edgeHolder' = Without(edgeHolder, r)
  /\ nodeHolder' = [Without(nodeHolder, r) EXCEPT ![Goal(route[r])] = r]
  /\ first' = [first EXCEPT ![r] = 0]
  /\ next' = [next EXCEPT ![r] = 0]
  /\ UNCHANGED <<route, waitingFor, poseVars, requestVars, clear, claim, tickVars, robotVars>>

----------------------------------------------------------------------------
(* _loop_tick. *)

TickBegin ==
  /\ phase = "idle" /\ Registered # {}
  /\ phase' = "pose" /\ todo' = Registered /\ live' = {}
  /\ UNCHANGED <<slotVars, poseVars, reported, tableVars, requestVars, clear, claim, robotVars>>

(* Robots are visited in a fixed order where the order cannot matter. *)
IsNextIn(r, S) == r \in S /\ \A q \in S : DomainId[r] <= DomainId[q]

CountClaim(r) ==
  claim' = [claim EXCEPT ![r] = IF @ = 0 THEN 0 ELSE MinOf(@ + 1, ConfirmUpdates + 1)]

(* No fresh localized RobotState: update_pose is not called. *)
PoseStale(r) ==
  /\ phase = "pose" /\ IsNextIn(r, todo) /\ "stale" \in Allowed
  /\ todo' = todo \ {r}
  /\ CountClaim(r)
  /\ UNCHANGED <<slotVars, poseVars, reported, tableVars, requestVars, clear, phase, live, robotVars>>

(* Mutant: the foremost pose confirms. *)
MutForemost(w, i) == \A j \in 1 .. Len(w) : w[j] <= w[i]

IsRearmost(w, i) == \A j \in 1 .. Len(w) : w[i] <= w[j]

(* update_pose: progress_s for releasing, lead_s for taking. *)
UpdatePose(r, s, ok) ==
  LET regress == s < lead[r] - RegressTol
      count == behind[r].count + 1
      top == IF count = 1 THEN s ELSE MaxOf(behind[r].top, s)
  IN
  /\ lead' = [lead EXCEPT ![r] = IF ~ regress THEN MaxOf(@, s)
                                 ELSE IF count >= ConfirmUpdates THEN top ELSE @]
  /\ behind' = [behind EXCEPT ![r] = IF regress /\ count < ConfirmUpdates
                                     THEN [count |-> count, top |-> top]
                                     ELSE NothingBehind]
  /\ recent' = [recent EXCEPT ![r] = Push(@, s)]
  /\ honest' = [honest EXCEPT ![r] = Push(@, ok)]
  /\ IF Len(recent'[r]) < ConfirmUpdates
     THEN progress' = progress
     ELSE \E i \in 1 .. ConfirmUpdates :
            /\ IsRearmost(recent'[r], i)
            /\ progress' = [progress EXCEPT ![r] = MinOf(recent'[r][i], @ + MaxStep)]

(* What localization may report of a robot: near it, or plainly wrong. *)
IsHonest(r, s) == at[r] - PoseError <= s /\ s <= at[r] + PoseError

FewWrong(w) == Cardinality({i \in 1 .. Len(w) : ~ w[i]}) <= MaxWrong

PoseFresh(r) ==
  /\ phase = "pose" /\ IsNextIn(r, todo)
  /\ \E s \in 0 .. Length(route[r]) :
       /\ IsHonest(r, s) \/ s \in WrongPoses
       /\ UpdatePose(r, s, IsHonest(r, s))
       /\ belief' = [belief EXCEPT ![r] = MaxOf(@, s)]
  /\ FewWrong(honest'[r])
  /\ live' = live \cup {r}
  /\ todo' = todo \ {r}
  /\ CountClaim(r)
  /\ UNCHANGED <<slotVars, reported, tableVars, requestVars, clear, phase, granted, at>>

(* A tick of a fleet that is not RUNNING: permissions freeze, or go to 0. *)
TickPaused ==
  /\ phase = "pose" /\ todo = {} /\ "pause" \in Allowed
  /\ phase' = "idle"
  /\ \/ clear' = clear
     \/ clear' = [r \in Robots |-> 0]
  /\ live' = {}
  /\ UNCHANGED <<slotVars, poseVars, reported, tableVars, requestVars, claim, todo, robotVars>>

(* _release_passed: edge k is let go when its end is ReleaseBehind behind   *)
(* the confirmed progress, but never the last one held; a node likewise.    *)
PassedEdge(r, k) == progress[r] - EdgeEnd(route[r], k) >= ReleaseBehind

(* Mutant: a node is let go as soon as it is reached. *)
MutPassedNodeAtOnce(r, k) == progress[r] - EdgeStart(route[r], k) >= 0

PassedNode(r, k) == progress[r] - EdgeStart(route[r], k) >= ReleaseBehind

ReleasesTo(r, f) ==
  /\ first[r] <= f /\ f <= MaxOf(first[r], next[r] - 1)
  /\ \A k \in first[r] .. f - 1 : PassedEdge(r, k)
  /\ f < next[r] - 1 => ~ PassedEdge(r, f)

(* step, first half: release for every robot, then note every request. *)
StepBegin(f) ==
  /\ phase = "pose" /\ todo = {}
  /\ \A r \in Robots : IF r \in Registered THEN ReleasesTo(r, f[r]) ELSE f[r] = first[r]
  /\ nodeHolder' = [v \in Nodes |->
       IF \E r \in Registered : /\ nodeHolder[v] = r
                                /\ \E k \in Held(r) : route[r].nodes[k] = v /\ PassedNode(r, k)
       THEN NoRobot ELSE nodeHolder[v]]
  /\ edgeHolder' = [e \in Edges |->
       IF \E r \in Registered : /\ edgeHolder[e] = r
                                /\ \E k \in first[r] .. f[r] - 1 : route[r].edges[k] = e
       THEN NoRobot ELSE edgeHolder[e]]
  /\ first' = f
  /\ now' = now + 1
  /\ request' = [r \in Robots |->
       IF /\ r \in Registered /\ HasNext(r) /\ request[r] = 0
          /\ RequestAnchor(r) - Lead(r) <= ReserveAhead
       THEN now + 1 ELSE request[r]]
  /\ waitingFor' = [r \in Robots |-> NoEdge]
  /\ phase' = "acquire" /\ todo' = Registered
  /\ UNCHANGED <<route, next, finished, poseVars, reported, clear, claim, live, robotVars>>

(* step, second half: first come, first served; same tick by domain id. *)
Asks(r) == HasNext(r) /\ request[r] # 0

Before(r, q) ==
  \/ ~ Asks(q)
  \/ Asks(r) /\ request[r] < request[q]
  \/ Asks(r) /\ request[r] = request[q] /\ DomainId[r] <= DomainId[q]

(* Mutant: what a robot holds itself is not free for it. *)
MutFreeForNobody(table, x, r) == table[x] = NoRobot

(* Mutant: what another robot holds is taken over. *)
MutFreeForAll(table, x, r) == TRUE

FreeFor(table, x, r) == table[x] \in {NoRobot, r}

(* The edge, its start node, and for the last edge the goal node too. *)
Takeable(r, k) ==
  /\ FreeFor(edgeHolder, route[r].edges[k], r)
  /\ FreeFor(nodeHolder, route[r].nodes[k], r)
  /\ k = route[r].n - 1 => FreeFor(nodeHolder, Goal(route[r]), r)

(* A further edge is asked for in the same tick only when it is near. *)
IsNear(r, k) == EdgeStart(route[r], k) - Lead(r) <= ReserveAhead
Follows(r, k) == k > next[r] => IsNear(r, k)

(* _try_acquire takes the edges next[r] .. m - 1 and stops at m. *)
Acquires(r, m) ==
  /\ m <= route[r].n
  /\ \A k \in next[r] .. m - 1 : Follows(r, k) /\ Takeable(r, k)
  /\ m < route[r].n => ~ (Follows(r, m) /\ Takeable(r, m))

TryAcquire(r, m) ==
  /\ phase = "acquire" /\ r \in todo /\ \A q \in todo : Before(r, q)
  /\ Asks(r) /\ next[r] <= m /\ Acquires(r, m)
  /\ LET taken == next[r] .. m - 1
         rt == route[r]
         blocked == m < rt.n /\ Follows(r, m)
     IN
     /\ edgeHolder' = [e \in Edges |->
          IF \E k \in taken : rt.edges[k] = e THEN r ELSE edgeHolder[e]]
     /\ nodeHolder' = [v \in Nodes |->
          IF \E k \in taken : rt.nodes[k] = v \/ (k = rt.n - 1 /\ Goal(rt) = v)
          THEN r ELSE nodeHolder[v]]
     /\ next' = [next EXCEPT ![r] = m]
     /\ waitingFor' = [waitingFor EXCEPT ![r] = IF blocked THEN rt.edges[m] ELSE @]
     /\ request' = [request EXCEPT ![r] = IF ~ blocked THEN 0
                                          ELSE IF m = next[r] THEN @ ELSE now]
  /\ todo' = todo \ {r}
  /\ UNCHANGED <<route, first, finished, poseVars, reported, now, clear, claim, phase, live, robotVars>>

NothingToAcquire(r) ==
  /\ phase = "acquire" /\ IsNextIn(r, todo)
  /\ \A q \in todo : ~ Asks(q)
  /\ todo' = todo \ {r}
  /\ UNCHANGED <<slotVars, poseVars, reported, tableVars, requestVars, clear, claim,
                 phase, live, robotVars>>

(* Only the order of the ticks is ever read: they are renumbered from 1. *)
Pending == {request[q] : q \in {p \in Robots : request[p] # 0}}
Rank(t) == 1 + Cardinality({u \in Pending : u < t})

(* The permissions of the tick; a robot without a fresh pose gets no more   *)
(* than where it is confirmed to be.                                        *)
TickEnd ==
  /\ phase = "acquire" /\ todo = {}
  /\ clear' = [r \in Robots |->
       IF r \notin Registered THEN 0
       ELSE IF r \in live THEN ClearUntil(r)
       ELSE MinOf(clear[r], route[r].idxAt[progress[r]])]
  /\ request' = [r \in Robots |-> IF request[r] = 0 THEN 0 ELSE Rank(request[r])]
  /\ now' = Rank(now)
  /\ phase' = "idle" /\ live' = {}
  /\ UNCHANGED <<slotVars, poseVars, reported, tableVars, claim, todo, robotVars>>

----------------------------------------------------------------------------
(* A LaneCommand CLEARANCE reaches the agent: late, or never.              *)
Clearance(r) ==
  /\ phase = "idle" /\ r \in Registered
  /\ granted' = [granted EXCEPT ![r] = clear[r]]
  /\ UNCHANGED <<slotVars, poseVars, reported, tableVars, requestVars, clear, claim, tickVars,
                 belief, at>>

(* The robot drives until it believes to be where it may go (at_clearance,  *)
(* arrived); it may stop a little past that point.                          *)
Move(r) ==
  /\ phase = "idle" /\ r \in Registered /\ ~ finished[r]
  /\ belief[r] < route[r].cum[granted[r]]
  /\ at[r] < MinOf(Length(route[r]), route[r].cum[granted[r]] + Overshoot)
  /\ at' = [at EXCEPT ![r] = @ + 1]
  /\ UNCHANGED <<slotVars, poseVars, reported, tableVars, requestVars, clear, claim, tickVars,
                 granted, belief>>

Handler(r) ==
  \/ \E rt \in RoutesOf[r] : Assign(r, rt)
  \/ StatusDriving(r)
  \/ StatusJunctionStop(r)
  \/ StatusArrived(r)
  \/ StatusArrivedAccepted(r)

Tick ==
  \/ TickBegin
  \/ \E r \in Robots : PoseStale(r) \/ PoseFresh(r)
  \/ TickPaused
  \/ \E f \in [Robots -> 0 .. MaxEdges] : StepBegin(f)
  \/ \E r \in Robots : \E m \in 0 .. MaxEdges : TryAcquire(r, m)
  \/ \E r \in Robots : NothingToAcquire(r)
  \/ TickEnd

Next == Tick \/ \E r \in Robots : Handler(r) \/ Clearance(r) \/ Move(r)

Spec == Init /\ [][Next]_vars

(***************************************************************************)
(* The timer ticks, pauses and lost poses end, the agent reports ten times  *)
(* a second, its callback gets the lock, and of the permissions issued as *)
(* often some arrive.                                                      *)
(***************************************************************************)
Status(r) == StatusDriving(r) \/ StatusArrived(r) \/ StatusArrivedAccepted(r)
RaisedClearance(r) == Clearance(r) /\ granted'[r] > granted[r]

Fairness ==
  /\ WF_vars(Tick)
  /\ <>[][~ TickPaused /\ \A r \in Robots : ~ PoseStale(r)]_vars
  /\ \A r \in Robots : SF_vars(Status(r)) /\ SF_vars(RaisedClearance(r)) /\ SF_vars(Move(r))

FairSpec == Spec /\ Fairness

----------------------------------------------------------------------------
TypeOK ==
  /\ route \in [Robots -> Routes \cup {NoRoute}]
  /\ first \in [Robots -> Nat] /\ next \in [Robots -> Nat]
  /\ finished \in [Robots -> BOOLEAN]
  /\ waitingFor \in [Robots -> Edges \cup {NoEdge}]
  /\ progress \in [Robots -> Nat] /\ lead \in [Robots -> Nat]
  /\ reported \in [Robots -> Nat]
  /\ recent \in [Robots -> Seq(Nat)] /\ honest \in [Robots -> Seq(BOOLEAN)]
  /\ \A r \in Robots : Len(recent[r]) <= ConfirmUpdates /\ Len(honest[r]) = Len(recent[r])
  /\ behind \in [Robots -> [count : Nat, top : Nat]]
  /\ edgeHolder \in [Edges -> Robots \cup {NoRobot}]
  /\ nodeHolder \in [Nodes -> Robots \cup {NoRobot}]
  /\ request \in [Robots -> Nat] /\ now \in Nat
  /\ clear \in [Robots -> Nat] /\ claim \in [Robots -> Nat]
  /\ phase \in {"idle", "pose", "acquire"}
  /\ todo \in SUBSET Robots /\ live \in SUBSET Robots
  /\ granted \in [Robots -> Nat] /\ belief \in [Robots -> Nat]
  /\ at \in [Robots -> Nat]

UnderWay(r) == route[r] # NoRoute /\ ~ finished[r]

(* The robot is between the two ends of edge k of its route. *)
InEdge(r, k) == EdgeStart(route[r], k) < at[r] /\ at[r] < EdgeEnd(route[r], k)

(* The robot has passed node k >= 1 of its route and not yet cleared it, by *)
(* what is left of ReleaseBehind when poses are off.                        *)
InNode(r, k) ==
  /\ EdgeStart(route[r], k) < at[r]
  /\ at[r] < EdgeStart(route[r], k) + ReleaseBehind - PoseError

(***************************************************************************)
(* Two robots under way are never on the same edge of the road, however    *)
(* they are driven, delayed or mislocated: the promise of reservation.py.  *)
(***************************************************************************)
EdgeExclusion ==
  \A r, q \in Robots : r # q /\ UnderWay(r) /\ UnderWay(q) =>
    \A j \in 0 .. route[r].n - 1, k \in 0 .. route[q].n - 1 :
      InEdge(r, j) /\ InEdge(q, k) => route[r].edges[j] # route[q].edges[k]

(***************************************************************************)
(* Nor in the same junction: a node a robot passes is let go only when the *)
(* confirmed progress is ReleaseBehind beyond it (_release_passed).        *)
(***************************************************************************)
JunctionExclusion ==
  \A r, q \in Robots : r # q /\ UnderWay(r) /\ UnderWay(q) =>
    \A j \in 1 .. route[r].n - 1, k \in 1 .. route[q].n - 1 :
      InNode(r, j) /\ InNode(q, k) => route[r].nodes[j] # route[q].nodes[k]

(***************************************************************************)
(* The tables and the slots agree: an edge has the holder that lists it as *)
(* held, and no edge stays with a robot that no longer lists it.           *)
(***************************************************************************)
TablesAgree ==
  \A e \in Edges, r \in Robots :
    edgeHolder[e] = r <=> UnderWay(r) /\ \E k \in Held(r) : route[r].edges[k] = e

(***************************************************************************)
(* Progress, which releases, is never ahead of the robot by more than an   *)
(* honest pose may be wrong, whatever wrong poses come (update_pose).      *)
(***************************************************************************)
ProgressConfirmed == \A r \in Registered : progress[r] <= at[r] + PoseError

(***************************************************************************)
(* An arrival, which lets go of everything, is accepted only from a robot  *)
(* that stands near its goal, not from one whose pose jumped (goal_gap).   *)
(***************************************************************************)
ArrivedAtGoal ==
  \A r \in Registered : finished[r] =>
    Length(route[r]) - at[r] <= ReserveAhead + PoseError

(***************************************************************************)
(* No robot waits for one that has parked: assign_conflict refuses every   *)
(* mission that would end in PARKED_BLOCK.                                 *)
(***************************************************************************)
HoldsUp(q, r) ==
  /\ waitingFor[r] # NoEdge
  /\ \/ edgeHolder[waitingFor[r]] = q
     \/ nodeHolder[route[r].nodes[next[r]]] = q
     \/ next[r] = route[r].n - 1 /\ nodeHolder[Goal(route[r])] = q

NoParkedBlock ==
  \A r, q \in Registered : UnderWay(r) /\ finished[q] => ~ HoldsUp(q, r)

(* mutual_wait: two robots that hold each other up. *)
MutualWait == \E r, q \in Registered : r # q /\ HoldsUp(q, r) /\ HoldsUp(r, q)

(***************************************************************************)
(* Every mission ends, or the coordinator reports DEADLOCK_MUTUAL_WAIT: no *)
(* robot stands at its permission with nothing asked for (STALL_NO_REQUEST, *)
(* note_reported_idx), and no wait is left unnoticed.                       *)
(***************************************************************************)
MissionEnds ==
  \A r \in Robots : UnderWay(r) ~> (finished[r] \/ MutualWait)

(***************************************************************************)
(* Neither the permission issued last nor an older one that the agent still *)
(* has reaches beyond the last edge its robot holds, whatever is released, *)
(* paused or lost in between (clear_until, _release_passed).               *)
(***************************************************************************)
PermissionHeld ==
  \A r \in Registered : UnderWay(r) =>
    \A g \in {clear[r], granted[r]} : g > 0 =>
      /\ Held(r) # {}
      /\ route[r].cum[g] <= EdgeEnd(route[r], next[r] - 1)

----------------------------------------------------------------------------
(* The road as an interlocking of places: its edges and its junctions.     *)
Places == ({"edge"} \X Edges) \cup ({"node"} \X Nodes)

Holder == [p \in Places |-> IF p[1] = "edge" THEN edgeHolder[p[2]] ELSE nodeHolder[p[2]]]

PlacesInside(r) ==
  {<<"edge", route[r].edges[k]>> : k \in {j \in 0 .. route[r].n - 1 : InEdge(r, j)}}
    \cup {<<"node", route[r].nodes[k]>> : k \in {j \in 1 .. route[r].n - 1 : InNode(r, j)}}

Entered == UNION {{r} \X PlacesInside(r) : r \in {q \in Robots : UnderWay(q)}}

Road == INSTANCE Interlocking WITH Nobody <- NoRobot, holder <- Holder, inside <- Entered

(***************************************************************************)
(* Reservation implements it: in every step of the coordinator, an agent   *)
(* or a robot, what changes hands was free or has been left (_try_acquire, *)
(* _release_passed, mark_arrived, assign_route), and a robot that moves is *)
(* inside what it holds.                                                   *)
(***************************************************************************)
Interlocked == Road!Spec
=============================================================================
