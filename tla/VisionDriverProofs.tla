-------------------------- MODULE VisionDriverProofs --------------------------
(***************************************************************************)
(* The manoeuvre, the permission to enter the junction and the count of    *)
(* the stop lines, for any course, any missions and any thresholds.        *)
(***************************************************************************)
EXTENDS VisionDriver, TLAPS, FiniteSetTheorems, SequenceTheorems, WellFoundedInduction

----------------------------------------------------------------------------
(* What the course and the disturbances have to be like.                    *)

\* The line in front of the junction is the first red line.  A crosswalk is so far
\* before it that the re-latch distance behind it is over, or behind the manoeuvre.
CourseLaidOut ==
    /\ Line \in RedAt /\ \A p \in RedAt : p >= Line
    /\ \A c \in CrosswalkAt : c + CrosswalkRelatch <= Line \/ c > Line + ManeuverLength

\* Nothing interrupts the wait for the clearance, and START follows the plan.
WaitsUndisturbed == "halt_at_line" \notin Allowed /\ "late_plan" \notin Allowed

----------------------------------------------------------------------------
(* The inductive invariants.                                               *)

\* Counted as arrived once enough lines are.
CountBelow == ByLines /\ ~arrived => stop_lines_seen < Plan.stop_line_count

Typed == TypeOK /\ CountBelow

\* The plan is of the scenario that runs or of one before it; no line is counted
\* that lies behind the last one counted.
CountedBehind ==
    /\ seq <= station_seq
    /\ HoldsThePlan =>
         stop_lines_seen <= Cardinality({p \in WhiteAt : p <= pos - since_count})

\* A clearance, on its way or taken over, was given to the mission it names.
Cleared ==
    /\ \A i \in DOMAIN wire : wire[i].clear_until = 1 => wire[i].route_seq \in granted
    /\ clear_until = 1 => seq \in granted

\* Between two scenarios the robot stands at its starting point.
StandsBetween ==
    /\ seq <= station_seq
    /\ ~HoldsThePlan =>
         /\ pos = 0 /\ (arrived \/ ~started)
         /\ \A i \in DOMAIN wire : wire[i].cmd # "START"

\* On the way to the line the machine stops there: the re-latch distances of the
\* junction and of a crosswalk are over when the robot comes to it.
ReadyForLine ==
    /\ fsm.state \notin {"JUNCTION_PASS", "RED_LINE_STOP"}
    /\ fsm.state = "JUNCTION_STOP" => pos = Line /\ started /\ ~estop
    /\ fsm.state # "JUNCTION_STOP" => fsm.sinceStop = JunctionRelatch
    /\ fsm.state = "CROSSWALK_STOP" => pos \in CrosswalkAt
    /\ fsm.state = "CROSSWALK_CLEAR" =>
         \E c \in CrosswalkAt :
            c <= pos /\ (fsm.gone >= CrosswalkRelatch \/ fsm.gone = pos - c)

BeforeLine ==
    HoldsThePlan /\ ~junction_passed /\ maneuver = NoManeuver =>
        /\ pos <= Line /\ ~finished /\ ~red_pending
        /\ ~arrived => ReadyForLine

\* In the manoeuvre the machine does nothing else but stand.
OnManeuver ==
    HoldsThePlan /\ ManeuverActive =>
        /\ Permitted
        /\ pos = Line + ManeuverLength - maneuver
        /\ fsm.state \notin {"CROSSWALK_STOP", "CROSSWALK_CLEAR", "RED_LINE_STOP"}

BehindIt == HoldsThePlan /\ junction_passed => pos >= Line + ManeuverLength

DriveInv == Cleared /\ StandsBetween /\ BeforeLine /\ OnManeuver /\ BehindIt

----------------------------------------------------------------------------
(* Numbers. *)

LEMMA MinPair ==
  ASSUME NEW a \in Int, NEW b \in Int
  PROVE  Min({a, b}) = IF a <= b THEN a ELSE b
<1>1. CASE a <= b
  BY <1>1 DEF Min
<1>2. CASE ~ (a <= b)
  BY <1>2 DEF Min
<1>3. QED BY <1>1, <1>2

LEMMA MaxPair ==
  ASSUME NEW a \in Int, NEW b \in Int
  PROVE  Max({a, b}) = IF a >= b THEN a ELSE b
<1>1. CASE a >= b
  BY <1>1 DEF Max
<1>2. CASE ~ (a >= b)
  BY <1>2 DEF Max
<1>3. QED BY <1>1, <1>2

(* A set of numbers has a least one, and a bounded one a greatest. *)
LEMMA MinOfNumbers ==
  ASSUME NEW S \in SUBSET Nat, S # {}
  PROVE  Min(S) \in S /\ \A x \in S : Min(S) <= x
<1>1. PICK m \in S : \A x \in S : ~ (<<x, m>> \in OpToRel(<, Nat))
  BY NatLessThanWellFounded, WFMin
<1>2. ASSUME NEW x \in S
      PROVE  m <= x
  <2>1. m \in Nat /\ x \in Nat
    OBVIOUS
  <2>2. ~ (x < m)
    BY <1>1, <2>1 DEF OpToRel
  <2>3. QED BY <2>1, <2>2
<1>3. QED BY <1>2 DEF Min

LEMMA MaxOfNumbers ==
  ASSUME NEW S \in SUBSET Nat, S # {}, NEW b \in Nat, \A x \in S : x <= b
  PROVE  Max(S) \in S /\ \A x \in S : Max(S) >= x
<1> DEFINE N == {b - x : x \in S}
<1>1. N \in SUBSET Nat /\ N # {}
  <2>1. \A x \in S : b - x \in Nat
    OBVIOUS
  <2>2. QED BY <2>1
<1>2. PICK m \in N : \A x \in N : m <= x
  BY <1>1, MinOfNumbers
<1>3. PICK t \in S : m = b - t
  BY <1>2
<1>4. ASSUME NEW x \in S
      PROVE  t >= x
  <2>1. m <= b - x
    BY <1>2
  <2>2. x \in Nat /\ t \in Nat
    OBVIOUS
  <2>3. QED BY <1>3, <2>1, <2>2
<1>5. QED BY <1>3, <1>4 DEF Max

LEMMA Thresholds ==
  /\ AgeMax \in Nat /\ GoneMax \in Nat
  /\ TickThresholds \subseteq 1..AgeMax
  /\ CrosswalkRelatch \in 1..GoneMax /\ JunctionRelatch \in 1..GoneMax
<1> DEFINE b == CrosswalkStop + SearchAfter + SearchConfirm + SearchMax + JunctionStop
                + ExitConfirm + RedLineStop
<1>1. TickThresholds \in SUBSET Nat /\ TickThresholds # {} /\ 0 \notin TickThresholds
  BY FsmAssumption DEF TickThresholds
<1>2. /\ CrosswalkStop \in Nat /\ SearchAfter \in Nat /\ SearchConfirm \in Nat
      /\ SearchMax \in Nat /\ JunctionStop \in Nat /\ ExitConfirm \in Nat
      /\ RedLineStop \in Nat
  BY <1>1 DEF TickThresholds
<1>3. b \in Nat /\ \A x \in TickThresholds : x <= b
  BY <1>2 DEF TickThresholds
<1> HIDE DEF b
<1>4. Max(TickThresholds) \in TickThresholds
      /\ \A x \in TickThresholds : Max(TickThresholds) >= x
  BY <1>1, <1>3, MaxOfNumbers
<1>5. AgeMax \in Nat /\ TickThresholds \subseteq 1..AgeMax
  <2>1. AgeMax \in TickThresholds /\ AgeMax \in Nat
    BY <1>1, <1>4 DEF AgeMax
  <2>2. ASSUME NEW x \in TickThresholds
        PROVE  x \in 1..AgeMax
    <3>1. x \in Nat /\ x # 0 /\ x <= AgeMax
      BY <1>1, <1>4 DEF AgeMax
    <3>2. QED BY <2>1, <3>1
  <2>3. QED BY <2>1, <2>2
<1>6. GoneMax = IF CrosswalkRelatch >= JunctionRelatch THEN CrosswalkRelatch
                ELSE JunctionRelatch
  BY FsmAssumption, MaxPair DEF GoneMax
<1>7. QED BY <1>5, <1>6, FsmAssumption

----------------------------------------------------------------------------
(* The drive state machine. *)

Speeds == {"full", "slow", "halt"}

Inputs ==
    [started : BOOLEAN, estop : BOOLEAN, link_ok : BOOLEAN, path_ok : BOOLEAN,
     obstacle : BOOLEAN, at_clearance : BOOLEAN, crosswalk_trigger : BOOLEAN,
     barricade : BOOLEAN, junction_trigger : BOOLEAN, junction_clear : BOOLEAN,
     red_line_event : BOOLEAN, maneuver_active : BOOLEAN, maneuver_finished : BOOLEAN,
     lane_visible : BOOLEAN, lane_both : BOOLEAN, arrived : BOOLEAN]

LEMMA AgedFacts ==
  ASSUME NEW m \in Fsm
  PROVE  /\ Aged(m) \in Fsm
         /\ Aged(m).state = m.state /\ Aged(m).gone = m.gone
         /\ Aged(m).sinceStop = m.sinceStop
<1>1. AgeMax \in Nat
  BY Thresholds
<1>2. Min({m.age + 1, AgeMax}) \in 0..AgeMax
  BY <1>1, MinPair DEF Fsm
<1>3. ASSUME NEW t \in Timers
      PROVE  Older(t) \in Timers
  <2>1. CASE t = Unset
    BY <2>1 DEF Older, Timers
  <2>2. CASE t \in 0..AgeMax /\ t # Unset
    <3>1. Min({t + 1, AgeMax}) \in 0..AgeMax
      BY <1>1, <2>2, MinPair
    <3>2. QED BY <2>2, <3>1 DEF Older, Timers
  <2>3. QED BY <2>1, <2>2 DEF Timers
<1>4. /\ Older(m.nonBoth) \in Timers /\ Older(m.both) \in Timers
      /\ Older(m.exitBoth) \in Timers
  BY <1>3 DEF Fsm
<1>5. QED BY <1>2, <1>4 DEF Aged, Fsm

LEMMA EnterFacts ==
  ASSUME NEW m \in Fsm, NEW s \in States
  PROVE  /\ Enter(m, s) \in Fsm
         /\ Enter(m, s).state = s /\ Enter(m, s).sinceStop = m.sinceStop
         /\ Enter(m, s).exitBoth = m.exitBoth
         /\ Enter(m, s).gone = IF m.state = s THEN m.gone ELSE 0
<1>1. AgeMax \in Nat /\ GoneMax \in Nat
  BY Thresholds
<1>2. CASE m.state = s
  BY <1>2 DEF Enter
<1>3. CASE m.state # s
  <2> DEFINE e == [m EXCEPT !.state = s, !.age = 0, !.gone = 0]
  <2>1. Enter(m, s) = e
    BY <1>3 DEF Enter
  <2>2. e.state = s /\ e.sinceStop = m.sinceStop /\ e.exitBoth = m.exitBoth /\ e.gone = 0
    BY DEF Fsm
  <2>3. e \in Fsm
    <3>1. 0 \in 0..AgeMax /\ 0 \in 0..GoneMax
      BY <1>1
    <3>2. QED BY <3>1 DEF Fsm
  <2>4. QED BY <1>3, <2>1, <2>2, <2>3
<1>4. QED BY <1>2, <1>3

LEMMA TravelledFacts ==
  ASSUME NEW m \in Fsm, NEW d \in 0..1
  PROVE  /\ Travelled(m, d) \in Fsm /\ Travelled(m, d).state = m.state
         /\ Travelled(m, d).gone =
              IF m.gone + d <= GoneMax THEN m.gone + d ELSE GoneMax
         /\ Travelled(m, d).sinceStop =
              IF m.sinceStop + d <= JunctionRelatch THEN m.sinceStop + d ELSE JunctionRelatch
<1>1. GoneMax \in Nat /\ JunctionRelatch \in Nat
  BY Thresholds, FsmAssumption
<1>2. m.gone \in 0..GoneMax /\ m.sinceStop \in 0..JunctionRelatch
  BY DEF Fsm
<1>3. /\ Min({m.gone + d, GoneMax}) = IF m.gone + d <= GoneMax THEN m.gone + d ELSE GoneMax
      /\ Min({m.sinceStop + d, JunctionRelatch}) =
           IF m.sinceStop + d <= JunctionRelatch THEN m.sinceStop + d ELSE JunctionRelatch
  BY <1>1, <1>2, MinPair
<1> DEFINE g == Min({m.gone + d, GoneMax})
           n == Min({m.sinceStop + d, JunctionRelatch})
           t == [m EXCEPT !.gone = g, !.sinceStop = n]
<1>4. g \in 0..GoneMax /\ n \in 0..JunctionRelatch
  BY <1>1, <1>2, <1>3
<1>5. Travelled(m, d) = t
  BY DEF Travelled
<1> HIDE DEF g, n
<1>6. t \in Fsm /\ t.state = m.state /\ t.gone = g /\ t.sinceStop = n
  BY <1>4 DEF Fsm
<1>7. QED BY <1>3, <1>5, <1>6 DEF g, n

LEMMA TimerFacts ==
  ASSUME NEW t \in Timers
  PROVE  Max({t, 0}) \in Timers
<1>1. AgeMax \in Nat
  BY Thresholds
<1>2. t \in Int
  BY <1>1 DEF Timers, Unset
<1>3. Max({t, 0}) = IF t >= 0 THEN t ELSE 0
  BY <1>2, MaxPair
<1>4. QED BY <1>1, <1>3 DEF Timers

(* A decision: a memory of the machine and a speed. *)
Decided(out) == out = [fsm |-> out.fsm, speed |-> out.speed]
                /\ out.fsm \in Fsm /\ out.speed \in Speeds

LEMMA LaneDecides ==
  ASSUME NEW m \in Fsm, NEW in \in Inputs
  PROVE  /\ Decided(LaneRules(m, in))
         /\ LaneRules(m, in).fsm.state \in {"CRUISE", "LANE_SEARCH", "LANE_LOST"}
         /\ LaneRules(m, in).fsm.sinceStop = m.sinceStop
<1> DEFINE l == WatchLane(m, in)
<1>1. l \in Fsm /\ l.sinceStop = m.sinceStop /\ l.state = m.state
  <2>1. Max({m.both, 0}) \in Timers /\ Max({m.nonBoth, 0}) \in Timers /\ Unset \in Timers
    BY TimerFacts DEF Fsm, Timers
  <2>2. QED BY <2>1 DEF WatchLane, Fsm
<1>2. \A s \in {"CRUISE", "LANE_SEARCH", "LANE_LOST"} :
         Enter(l, s) \in Fsm /\ Enter(l, s).state = s /\ Enter(l, s).sinceStop = m.sinceStop
  BY <1>1, EnterFacts DEF States
<1> HIDE DEF l
<1>3. /\ [Enter(l, "CRUISE") EXCEPT !.searchFailed = FALSE] \in Fsm
      /\ [Enter(l, "LANE_SEARCH") EXCEPT !.searchFailed = FALSE] \in Fsm
      /\ [l EXCEPT !.searchFailed = @ \/ l.age >= SearchMax] \in Fsm
  BY <1>1, <1>2 DEF Fsm
<1>4. /\ [Enter(l, "CRUISE") EXCEPT !.searchFailed = FALSE].state = "CRUISE"
      /\ [Enter(l, "CRUISE") EXCEPT !.searchFailed = FALSE].sinceStop = m.sinceStop
      /\ [Enter(l, "LANE_SEARCH") EXCEPT !.searchFailed = FALSE].state = "LANE_SEARCH"
      /\ [Enter(l, "LANE_SEARCH") EXCEPT !.searchFailed = FALSE].sinceStop = m.sinceStop
      /\ [l EXCEPT !.searchFailed = @ \/ l.age >= SearchMax].state = l.state
      /\ [l EXCEPT !.searchFailed = @ \/ l.age >= SearchMax].sinceStop = m.sinceStop
  BY <1>1, <1>2 DEF Fsm
<1>5. \/ LaneRules(m, in) = Decide([Enter(l, "CRUISE") EXCEPT !.searchFailed = FALSE], "full")
      \/ /\ l.state = "LANE_SEARCH"
         /\ LaneRules(m, in) =
              Decide([l EXCEPT !.searchFailed = @ \/ l.age >= SearchMax], "halt")
      \/ LaneRules(m, in)
           = Decide([Enter(l, "LANE_SEARCH") EXCEPT !.searchFailed = FALSE], "halt")
      \/ LaneRules(m, in) = Decide(Enter(l, "LANE_LOST"), "slow")
      \/ LaneRules(m, in) = Decide(Enter(l, "CRUISE"), "full")
  BY Zenon DEF LaneRules, l
<1>6. ASSUME NEW x \in Fsm, NEW v \in Speeds
      PROVE  Decided(Decide(x, v)) /\ Decide(x, v).fsm = x
  BY DEF Decide, Decided
<1> DEFINE r == LaneRules(m, in)
           LaneStates == {"CRUISE", "LANE_SEARCH", "LANE_LOST"}
<1>7. ASSUME NEW x \in Fsm, x.state \in LaneStates, x.sinceStop = m.sinceStop,
             NEW v \in Speeds, r = Decide(x, v)
      PROVE  Decided(r) /\ r.fsm.state \in LaneStates /\ r.fsm.sinceStop = m.sinceStop
  BY <1>6, <1>7, Zenon
<1> HIDE DEF r
<1>8. "full" \in Speeds /\ "slow" \in Speeds /\ "halt" \in Speeds
  BY DEF Speeds
<1>9. Decided(r) /\ r.fsm.state \in LaneStates /\ r.fsm.sinceStop = m.sinceStop
  <2>1. CASE r = Decide([Enter(l, "CRUISE") EXCEPT !.searchFailed = FALSE], "full")
    BY <1>3, <1>4, <1>7, <1>8, <2>1
  <2>2. CASE /\ l.state = "LANE_SEARCH"
             /\ r = Decide([l EXCEPT !.searchFailed = @ \/ l.age >= SearchMax], "halt")
    BY <1>3, <1>4, <1>7, <1>8, <2>2
  <2>3. CASE r = Decide([Enter(l, "LANE_SEARCH") EXCEPT !.searchFailed = FALSE], "halt")
    BY <1>3, <1>4, <1>7, <1>8, <2>3
  <2>4. CASE r = Decide(Enter(l, "LANE_LOST"), "slow")
    BY <1>2, <1>7, <1>8, <2>4
  <2>5. CASE r = Decide(Enter(l, "CRUISE"), "full")
    BY <1>2, <1>7, <1>8, <2>5
  <2>6. QED BY <1>5, <2>1, <2>2, <2>3, <2>4, <2>5 DEF r
<1>10. QED BY <1>9 DEF r

LEMMA DecideFacts ==
  ASSUME NEW x \in Fsm, NEW v \in Speeds
  PROVE  Decided(Decide(x, v)) /\ Decide(x, v).fsm = x /\ Decide(x, v).speed = v
BY DEF Decide, Decided

LEMMA SpeedNames == "full" \in Speeds /\ "slow" \in Speeds /\ "halt" \in Speeds
BY DEF Speeds

LaneStates == {"CRUISE", "LANE_SEARCH", "LANE_LOST"}

(* The junction: a machine that is not in it stops at the line once the re-latch *)
(* distance is over, and one that stands there goes on only with the clearance.  *)
LEMMA JunctionDecides ==
  ASSUME NEW m \in Fsm, NEW in \in Inputs
  PROVE  LET out == JunctionRules(m, in)
             outside == m.state \notin {"JUNCTION_STOP", "JUNCTION_PASS"}
         IN  /\ Decided(out)
             /\ outside /\ ~in.junction_trigger =>
                  out.fsm.state \in LaneStates /\ out.fsm.sinceStop = m.sinceStop
             /\ outside /\ in.junction_trigger /\ m.sinceStop = JunctionRelatch =>
                  out.fsm.state = "JUNCTION_STOP" /\ out.speed = "halt"
             /\ m.state = "JUNCTION_STOP" /\ in.junction_trigger =>
                  \/ out = Decide(m, "halt")
                  \/ in.junction_clear /\ out.fsm.state = "JUNCTION_PASS"
<1> DEFINE out == JunctionRules(m, in)
           q == PastJunctionStop(m)
           p == WatchExit(q, in)
           j == PastJunction(p)
           stop == [Enter(j, "JUNCTION_STOP") EXCEPT !.sinceStop = 0]
           outside == m.state \notin {"JUNCTION_STOP", "JUNCTION_PASS"}
<1>1. Unset \in Timers /\ 0 \in 0..JunctionRelatch
  BY Thresholds, FsmAssumption DEF Timers
<1>2. \A x \in Fsm : \A s \in {"JUNCTION_PASS", "LANE_LOST", "CRUISE", "JUNCTION_STOP"} :
         Enter(x, s) \in Fsm /\ Enter(x, s).state = s /\ Enter(x, s).sinceStop = x.sinceStop
  BY EnterFacts DEF States
<1>3. /\ q \in Fsm /\ (m.state # "JUNCTION_STOP" => q = m)
      /\ m.state = "JUNCTION_STOP" => q.state = "JUNCTION_PASS"
  <2>1. CASE m.state # "JUNCTION_STOP"
    BY <2>1 DEF PastJunctionStop
  <2>2. CASE m.state = "JUNCTION_STOP"
    <3>1. q = [Enter(m, "JUNCTION_PASS") EXCEPT !.exitBoth = Unset]
      BY <2>2 DEF PastJunctionStop
    <3> DEFINE e == Enter(m, "JUNCTION_PASS")
    <3>2. e \in Fsm /\ e.state = "JUNCTION_PASS"
      BY <1>2
    <3> HIDE DEF e
    <3>3. [e EXCEPT !.exitBoth = Unset] \in Fsm
          /\ [e EXCEPT !.exitBoth = Unset].state = "JUNCTION_PASS"
      BY <1>1, <3>2 DEF Fsm
    <3>4. QED BY <2>2, <3>1, <3>3 DEF e
  <2>3. QED BY <2>1, <2>2
<1> HIDE DEF q
<1>4. /\ p \in Fsm /\ p.state = q.state
      /\ q.state # "JUNCTION_PASS" => p = q
      /\ q.state = "JUNCTION_PASS" /\ in.junction_trigger => p.exitBoth = Unset
  <2>1. Max({q.exitBoth, 0}) \in Timers
    BY <1>3, TimerFacts DEF Fsm
  <2>2. CASE q.state # "JUNCTION_PASS"
    BY <1>3, <2>2 DEF WatchExit
  <2>3. CASE q.state = "JUNCTION_PASS"
    <3> DEFINE x == IF in.junction_trigger \/ ~in.lane_both THEN Unset
                    ELSE Max({q.exitBoth, 0})
    <3>1. p = [q EXCEPT !.exitBoth = x]
      BY <2>3 DEF WatchExit
    <3>2. x \in Timers /\ (in.junction_trigger => x = Unset)
      BY <1>1, <2>1
    <3> HIDE DEF x
    <3>3. QED BY <1>3, <2>3, <3>1, <3>2 DEF Fsm
  <2>4. QED BY <2>2, <2>3
<1> HIDE DEF p
<1>5. j \in Fsm /\ (p.state # "JUNCTION_PASS" => j = p)
  BY <1>2, <1>4 DEF PastJunction
<1> HIDE DEF j
<1>6. stop \in Fsm /\ stop.state = "JUNCTION_STOP"
  <2> DEFINE e == Enter(j, "JUNCTION_STOP")
  <2>1. e \in Fsm /\ e.state = "JUNCTION_STOP"
    BY <1>2, <1>5
  <2> HIDE DEF e
  <2>2. [e EXCEPT !.sinceStop = 0] \in Fsm /\ [e EXCEPT !.sinceStop = 0].state = "JUNCTION_STOP"
    BY <1>1, <2>1 DEF Fsm
  <2>3. QED BY <2>2 DEF e
<1> HIDE DEF stop
<1>7. \/ JunctionHolds(m, in) /\ out = Decide(m, "halt")
      \/ /\ ~JunctionHolds(m, in) /\ p.state = "JUNCTION_PASS"
         /\ p.exitBoth >= ExitConfirm
         /\ out = Decide(Enter(p, "CRUISE"), "full")
      \/ /\ ~JunctionHolds(m, in) /\ p.state = "JUNCTION_PASS"
         /\ ~(p.exitBoth >= ExitConfirm)
         /\ out = Decide(p, "slow")
      \/ /\ ~JunctionHolds(m, in)
         /\ p.state = "JUNCTION_PASS" => ~in.junction_trigger
         /\ \/ JunctionSeen(j, in) /\ out = Decide(stop, "halt")
            \/ ~JunctionSeen(j, in) /\ out = LaneRules(j, in)
  BY Zenon DEF JunctionRules, stop, j, p, q
<1>8. Decided(out)
  <2>1. Enter(p, "CRUISE") \in Fsm
    BY <1>2, <1>4
  <2>2. Decided(Decide(m, "halt")) /\ Decided(Decide(Enter(p, "CRUISE"), "full"))
        /\ Decided(Decide(p, "slow")) /\ Decided(Decide(stop, "halt"))
    BY <1>4, <1>6, <2>1, DecideFacts, SpeedNames
  <2>3. Decided(LaneRules(j, in))
    BY <1>5, LaneDecides
  <2>4. QED BY <1>7, <2>2, <2>3
<1>9. outside => p = m /\ j = m
  BY <1>3, <1>4, <1>5
<1>10. outside => ~JunctionHolds(m, in)
  BY DEF JunctionHolds
<1>11. ASSUME outside, ~in.junction_trigger
       PROVE  out.fsm.state \in LaneStates /\ out.fsm.sinceStop = m.sinceStop
  <2>1. ~JunctionSeen(j, in)
    BY <1>11 DEF JunctionSeen
  <2>2. out = LaneRules(m, in)
    BY <1>7, <1>9, <1>10, <1>11, <2>1
  <2>3. QED BY <2>2, LaneDecides DEF LaneStates
<1>12. ASSUME outside, in.junction_trigger, m.sinceStop = JunctionRelatch
       PROVE  out.fsm.state = "JUNCTION_STOP" /\ out.speed = "halt"
  <2>1. JunctionSeen(j, in)
    BY <1>9, <1>12, FsmAssumption DEF JunctionSeen
  <2>2. out = Decide(stop, "halt")
    BY <1>7, <1>9, <1>10, <1>12, <2>1
  <2>3. QED BY <1>6, <2>2, DecideFacts, SpeedNames
<1>13. ASSUME m.state = "JUNCTION_STOP", in.junction_trigger
       PROVE  \/ out = Decide(m, "halt")
              \/ in.junction_clear /\ out.fsm.state = "JUNCTION_PASS"
  <2>1. q.state = "JUNCTION_PASS" /\ p.state = "JUNCTION_PASS" /\ p.exitBoth = Unset
    BY <1>3, <1>4, <1>13
  <2>2. ~(p.exitBoth >= ExitConfirm)
    BY <2>1, Thresholds DEF TickThresholds, Unset
  <2>3. JunctionHolds(m, in) \/ in.junction_clear
    BY <1>13 DEF JunctionHolds, Inputs
  <2>4. Decide(p, "slow").fsm.state = "JUNCTION_PASS"
    BY <1>4, <2>1, DecideFacts, SpeedNames
  <2>5. QED BY <1>7, <1>13, <2>1, <2>2, <2>3, <2>4
<1>14. QED BY <1>8, <1>11, <1>12, <1>13

(* The manoeuvre: while it lasts, nothing but the stop reasons and a crosswalk *)
(* keeps the machine from driving it.                                           *)
LEMMA ManeuverDecides ==
  ASSUME NEW m \in Fsm, NEW in \in Inputs
  PROVE  LET out == ManeuverRules(m, in)
         IN  /\ Decided(out)
             /\ in.maneuver_active => out = Decide(Enter(m, "JUNCTION_PASS"), "full")
             /\ ~in.maneuver_active /\ ~in.maneuver_finished => out = JunctionRules(m, in)
<1> DEFINE done == [m EXCEPT !.sinceStop = 0, !.exitBoth = Unset]
           search == [done EXCEPT !.searchFailed = FALSE, !.both = Unset,
                                  !.nonBoth = SearchAfter]
<1>1. Unset \in Timers /\ SearchAfter \in Timers /\ 0 \in 0..JunctionRelatch
  BY Thresholds, FsmAssumption DEF Timers, TickThresholds
<1>2. done \in Fsm
  BY <1>1 DEF Fsm
<1> HIDE DEF done
<1>3. search \in Fsm
  BY <1>1, <1>2 DEF Fsm
<1> HIDE DEF search
<1>4. /\ Enter(m, "JUNCTION_PASS") \in Fsm /\ Enter(done, "CRUISE") \in Fsm
      /\ Enter(search, "LANE_SEARCH") \in Fsm
  BY <1>2, <1>3, EnterFacts DEF States
<1>5. /\ Decided(Decide(Enter(m, "JUNCTION_PASS"), "full"))
      /\ Decided(Decide(Enter(done, "CRUISE"), "full"))
      /\ Decided(Decide(Enter(search, "LANE_SEARCH"), "halt"))
  BY <1>4, DecideFacts, SpeedNames
<1>6. Decided(JunctionRules(m, in))
  BY JunctionDecides
<1>7. /\ \/ in.maneuver_active /\ ManeuverRules(m, in) = Decide(Enter(m, "JUNCTION_PASS"), "full")
         \/ /\ ~in.maneuver_active /\ ~in.maneuver_finished
            /\ ManeuverRules(m, in) = JunctionRules(m, in)
         \/ /\ ~in.maneuver_active /\ in.maneuver_finished
            /\ ManeuverRules(m, in) = Decide(Enter(done, "CRUISE"), "full")
         \/ /\ ~in.maneuver_active /\ in.maneuver_finished
            /\ ManeuverRules(m, in) = Decide(Enter(search, "LANE_SEARCH"), "halt")
  BY Zenon DEF ManeuverRules, search, done
<1>8. QED BY <1>5, <1>6, <1>7

LEMMA RedLineDecides ==
  ASSUME NEW m \in Fsm, NEW in \in Inputs
  PROVE  LET out == RedLineRules(m, in)
         IN  /\ Decided(out)
             /\ m.state # "RED_LINE_STOP" /\ (~in.red_line_event \/ in.maneuver_active)
                  => out = ManeuverRules(m, in)
<1> DEFINE r == PastRedLine(m)
<1>1. r \in Fsm /\ (m.state # "RED_LINE_STOP" => r = m)
  BY EnterFacts DEF PastRedLine, States
<1> HIDE DEF r
<1>2. Enter(r, "RED_LINE_STOP") \in Fsm
  BY <1>1, EnterFacts DEF States
<1>3. Decided(Decide(m, "halt")) /\ Decided(Decide(Enter(r, "RED_LINE_STOP"), "halt"))
      /\ Decided(ManeuverRules(r, in))
  BY <1>1, <1>2, DecideFacts, SpeedNames, ManeuverDecides
<1>4. \/ m.state = "RED_LINE_STOP" /\ RedLineRules(m, in) = Decide(m, "halt")
      \/ /\ in.red_line_event /\ ~in.maneuver_active
         /\ RedLineRules(m, in) = Decide(Enter(r, "RED_LINE_STOP"), "halt")
      \/ RedLineRules(m, in) = ManeuverRules(r, in)
  BY Zenon DEF RedLineRules, r
<1>5. Decided(RedLineRules(m, in))
  BY <1>3, <1>4, Zenon
<1>6. m.state # "RED_LINE_STOP" /\ (~in.red_line_event \/ in.maneuver_active)
        => RedLineRules(m, in) = ManeuverRules(m, in)
  BY <1>1, <1>4, Zenon
<1>7. QED BY <1>5, <1>6

(* The crosswalk: the machine stands at it, and then drives on over the re-latch *)
(* distance whatever else it sees.                                               *)
LEMMA CrosswalkDecides ==
  ASSUME NEW m \in Fsm, NEW in \in Inputs
  PROVE  LET out == CrosswalkRules(m, in)
         IN  /\ Decided(out)
             /\ m.state = "CROSSWALK_STOP" /\ ~in.at_clearance =>
                  \/ out = Decide(m, "halt")
                  \/ out = Decide(Enter(m, "CROSSWALK_CLEAR"), "full")
             /\ RelatchBlocked(m) /\ ~in.at_clearance => out = Decide(m, "full")
             /\ m.state # "CROSSWALK_STOP" /\ ~RelatchBlocked(m) /\ ~in.at_clearance =>
                  IF in.crosswalk_trigger
                  THEN out = Decide(Enter(m, "CROSSWALK_STOP"), "halt")
                  ELSE out = RedLineRules(m, in)
<1> DEFINE out == CrosswalkRules(m, in)
           c == PastCrosswalk(m)
<1>1. /\ c \in Fsm /\ (m.state # "CROSSWALK_STOP" => c = m)
      /\ m.state = "CROSSWALK_STOP" => /\ c = Enter(m, "CROSSWALK_CLEAR")
                                       /\ c.state = "CROSSWALK_CLEAR" /\ c.gone = 0
  BY EnterFacts DEF PastCrosswalk, States
<1> HIDE DEF c
<1>2. m.state = "CROSSWALK_STOP" => RelatchBlocked(c)
  BY <1>1, FsmAssumption DEF RelatchBlocked
<1>3. \/ m.state = "CROSSWALK_STOP" /\ out = Decide(m, "halt")
      \/ in.at_clearance /\ out = Decide(Enter(c, "WAIT_CLEARANCE"), "halt")
      \/ RelatchBlocked(c) /\ out = Decide(c, "full")
      \/ /\ ~RelatchBlocked(c) /\ in.crosswalk_trigger
         /\ out = Decide(Enter(c, "CROSSWALK_STOP"), "halt")
      \/ /\ ~RelatchBlocked(c) /\ ~in.crosswalk_trigger
         /\ out = RedLineRules(c, in)
  BY Zenon DEF CrosswalkRules, c
<1>4. Enter(c, "WAIT_CLEARANCE") \in Fsm /\ Enter(c, "CROSSWALK_STOP") \in Fsm
  BY <1>1, EnterFacts DEF States
<1>5. /\ Decided(Decide(m, "halt")) /\ Decided(Decide(Enter(c, "WAIT_CLEARANCE"), "halt"))
      /\ Decided(Decide(c, "full")) /\ Decided(Decide(Enter(c, "CROSSWALK_STOP"), "halt"))
      /\ Decided(RedLineRules(c, in))
  BY <1>1, <1>4, DecideFacts, SpeedNames, RedLineDecides
<1>6. Decided(out)
  BY <1>3, <1>5, Zenon
<1>7. /\ RelatchBlocked(m) => m.state # "CROSSWALK_STOP"
      /\ m.state # "CROSSWALK_STOP" => (RelatchBlocked(c) <=> RelatchBlocked(m))
  BY <1>1 DEF RelatchBlocked
<1> HIDE DEF out
<1>8. m.state = "CROSSWALK_STOP" /\ ~in.at_clearance =>
        \/ out = Decide(m, "halt")
        \/ out = Decide(Enter(m, "CROSSWALK_CLEAR"), "full")
  BY <1>1, <1>2, <1>3, Zenon
<1>9. RelatchBlocked(m) /\ ~in.at_clearance => out = Decide(m, "full")
  BY <1>1, <1>3, <1>7, Zenon
<1>10. m.state # "CROSSWALK_STOP" /\ ~RelatchBlocked(m) /\ ~in.at_clearance =>
         IF in.crosswalk_trigger
         THEN out = Decide(Enter(m, "CROSSWALK_STOP"), "halt")
         ELSE out = RedLineRules(m, in)
  BY <1>1, <1>3, <1>7
<1>11. QED BY <1>6, <1>8, <1>9, <1>10 DEF out

StopStates ==
    {"ESTOP", "IDLE", "LINK_LOST", "ARRIVED", "OBSTACLE_WAIT", "BARRICADE_WAIT"}

(* A reason to stop stops the machine, whatever it is doing. *)
LEMMA StepDecides ==
  ASSUME NEW memory \in Fsm, NEW in \in Inputs
  PROVE  /\ Decided(Step(memory, in))
         /\ StopReasons(in) # {} =>
              /\ Step(memory, in).speed = "halt"
              /\ Step(memory, in).fsm.state \in StopStates
              /\ Step(memory, in).fsm.sinceStop = memory.sinceStop
         /\ StopReasons(in) = {} => Step(memory, in) = CrosswalkRules(Aged(memory), in)
<1> DEFINE m == Aged(memory)
           i == Min(StopReasons(in))
           s == Stopping(in)[i][2]
<1>1. m \in Fsm /\ m.sinceStop = memory.sinceStop
  BY AgedFacts
<1> HIDE DEF m
<1>2. CASE StopReasons(in) = {}
  <2>1. Step(memory, in) = CrosswalkRules(m, in)
    BY <1>2 DEF Step, m
  <2>2. QED BY <1>1, <1>2, <2>1, CrosswalkDecides DEF m
<1>3. CASE StopReasons(in) # {}
  <2>1. StopReasons(in) \in SUBSET (1..6)
    BY DEF StopReasons, Stopping
  <2>2. i \in 1..6
    <3>1. StopReasons(in) \in SUBSET Nat
      BY <2>1
    <3>2. i \in StopReasons(in)
      BY <1>3, <3>1, MinOfNumbers
    <3>3. QED BY <2>1, <3>2
  <2>3. s \in StopStates
    BY <2>2 DEF Stopping, StopStates
  <2>4. Step(memory, in) = Decide(Enter(m, s), "halt")
    BY <1>3 DEF Step, m
  <2> HIDE DEF s
  <2>5. Enter(m, s) \in Fsm /\ Enter(m, s).state = s /\ Enter(m, s).sinceStop = m.sinceStop
    BY <1>1, <2>3, EnterFacts DEF StopStates, States
  <2>6. QED BY <1>1, <1>3, <2>3, <2>4, <2>5, DecideFacts, SpeedNames
<1>4. QED BY <1>2, <1>3

----------------------------------------------------------------------------
(* Types. *)

LEMMA CourseNumbers ==
  /\ LastPos \in Nat /\ Line \in Nat /\ ManeuverLength \in Nat /\ ManeuverLength > 0
  /\ StopLineGap \in Nat /\ StopLineGap > 0 /\ RedLineGap \in Nat /\ LaneLostCoast \in Nat
  /\ Line > 0 /\ MaxWire \in Nat /\ Line + ManeuverLength < LastPos
  /\ \A p \in RedAt \cup CrosswalkAt \cup WhiteAt : p \in 0..LastPos
BY CourseAssumption

LEMMA PlanFacts ==
  /\ Seqs = 1..Len(Plans) /\ Len(Plans) \in Nat /\ 1 \in Seqs /\ NoPlan \notin Seqs
  /\ \A q \in Seqs : Plans[q].stop_line_count \in 0..2
<1> DEFINE T == [skip_clearance : BOOLEAN, stop_line_count : 0..2]
<1>1. Plans \in Seq(T) /\ Plans # << >>
  BY CourseAssumption
<1> HIDE DEF T
<1>2. Seqs = 1..Len(Plans) /\ Len(Plans) \in Nat /\ Len(Plans) > 0
  BY <1>1 DEF Seqs
<1>3. \A q \in Seqs : Plans[q] \in T
  BY <1>1, <1>2
<1>4. QED BY <1>2, <1>3 DEF T, NoPlan

ViewType ==
    [obstacle : BOOLEAN, barricade : BOOLEAN, silent : BOOLEAN,
     lane : {"both", "partial", "none"}, flicker : BOOLEAN]

LEMMA ViewsTyped == Views \subseteq ViewType
<1>1. Clear \in ViewType
  BY DEF Clear, ViewType
<1>2. ASSUME NEW d \in SensorDisturbances
      PROVE  View(d) \in ViewType
  BY DEF View, Clear, ViewType, SensorDisturbances
<1>3. QED BY <1>1, <1>2 DEF Views

LEMMA ObservedTyped ==
  ASSUME TypeOK, NEW view \in Views
  PROVE  Observed(view) \in Inputs
<1>1. view \in ViewType
  BY ViewsTyped
<1>2. /\ JunctionTrigger \in BOOLEAN /\ JunctionClear \in BOOLEAN
      /\ RedLineEvent \in BOOLEAN /\ ManeuverActive \in BOOLEAN
      /\ LaneVisible(view) \in BOOLEAN /\ ArrivedNow(view) \in BOOLEAN
  BY DEF JunctionTrigger, JunctionClear, RedLineEvent, RedDue, ManeuverActive,
         LaneVisible, ArrivedNow, TypeOK
<1>3. QED BY <1>1, <1>2 DEF Observed, Inputs, TypeOK, ViewType

LEMMA MotionTyped ==
  ASSUME NEW out, NEW view
  PROVE  /\ MotionOf(out, view) \in Motions
         /\ MotionOf(out, view) = "maneuver" <=>
              MissionOpen /\ out.fsm.state = "JUNCTION_PASS" /\ ~junction_passed
         /\ out.speed = "halt" /\ out.fsm.state # "JUNCTION_PASS" =>
              MotionOf(out, view) \in {"halt", "rotate"}
BY DEF MotionOf, Motions

(* What a tick does, with its decision, motion and way named. *)
TickBy(view, out, m, d) ==
    /\ out = Step(fsm, Observed(view)) /\ m = MotionOf(out, view)
    /\ out.fsm \in Fsm /\ m \in Motions /\ d \in 0..1
    /\ Moves(m) \/ d = 0
    /\ pos' = pos + d /\ fsm' = Travelled(out.fsm, d)
    /\ motion' = IF m = "maneuver" /\ LeftToDrive = 0 THEN "halt" ELSE m
    /\ maneuver' = IF m = "maneuver" THEN LeftToDrive - d ELSE maneuver
    /\ junction_passed' = (junction_passed \/ (m = "maneuver" /\ LeftToDrive = 0))
    /\ finished' = (m = "maneuver" /\ LeftToDrive = 0)
    /\ arrived' = ArrivedNow(view)
    /\ stop_lines_seen' = LinesSeen(view)
    /\ since_count' = IF ByLines /\ CountsLine(view) THEN d
                      ELSE Min({since_count + d, StopLineGap})
    /\ since_red_stop' = IF RedLineEvent THEN d ELSE Min({since_red_stop + d, RedLineGap})
    /\ red_pending' = (RedWaits /\ ~RedDue)
    /\ UNCHANGED <<stationVars, wire, latchVars, seq, arrive_on_obstacle>>

LEMMA TickFacts ==
  ASSUME TypeOK, NEW view \in Views, NEW pace \in 0..1, ControlTick(view, pace)
  PROVE  \E out, m, d : TickBy(view, out, m, d)
<1> DEFINE out == Step(fsm, Observed(view))
           m == MotionOf(out, view)
           d == IF Moves(m) THEN pace ELSE 0
<1>1. Observed(view) \in Inputs /\ fsm \in Fsm
  BY ObservedTyped DEF TypeOK
<1>2. out.fsm \in Fsm
  BY <1>1, StepDecides DEF Decided
<1>3. m \in Motions
  BY MotionTyped
<1> HIDE DEF out, m
<1>4. /\ pos' = pos + d /\ fsm' = Travelled(out.fsm, d)
      /\ motion' = IF m = "maneuver" /\ LeftToDrive = 0 THEN "halt" ELSE m
      /\ maneuver' = IF m = "maneuver" THEN LeftToDrive - d ELSE maneuver
      /\ junction_passed' = (junction_passed \/ (m = "maneuver" /\ LeftToDrive = 0))
      /\ finished' = (m = "maneuver" /\ LeftToDrive = 0)
      /\ arrived' = ArrivedNow(view)
      /\ stop_lines_seen' = LinesSeen(view)
      /\ since_count' = IF ByLines /\ CountsLine(view) THEN d
                        ELSE Min({since_count + d, StopLineGap})
      /\ since_red_stop' = IF RedLineEvent THEN d ELSE Min({since_red_stop + d, RedLineGap})
      /\ red_pending' = (RedWaits /\ ~RedDue)
      /\ UNCHANGED <<stationVars, wire, latchVars, seq, arrive_on_obstacle>>
  BY DEF ControlTick, Tick, out, m
<1>5. d \in 0..1 /\ (Moves(m) \/ d = 0)
  OBVIOUS
<1> HIDE DEF d
<1>6. out = Step(fsm, Observed(view)) /\ m = MotionOf(out, view)
  BY DEF out, m
<1>7. TickBy(view, out, m, d)
  BY <1>2, <1>3, <1>4, <1>5, <1>6 DEF TickBy
<1>8. QED BY <1>7

LEMMA TickTyped ==
  ASSUME Typed, NEW view \in Views, NEW pace \in 0..1, ControlTick(view, pace)
  PROVE  Typed'
<1> USE CourseNumbers DEF Typed, TickBy
<1>1. PICK out, m, d : TickBy(view, out, m, d)
  BY TickFacts
<1>2. pos' \in 0..LastPos
  BY <1>1 DEF Moves, TypeOK
<1>3. fsm' \in Fsm
  BY <1>1, TravelledFacts
<1>4. motion' \in Motions
  BY <1>1 DEF Motions
<1>5. maneuver' \in {NoManeuver} \cup 0..ManeuverLength
  BY <1>1 DEF LeftToDrive, Moves, NoManeuver, TypeOK
<1>6. /\ since_count \in 0..StopLineGap /\ since_red_stop \in 0..RedLineGap
      /\ stop_lines_seen \in 0..2
  BY DEF TypeOK
<1>7. since_count' \in 0..StopLineGap /\ since_red_stop' \in 0..RedLineGap
  <2>1. Min({since_count + d, StopLineGap}) \in 0..StopLineGap
    BY <1>1, <1>6, MinPair
  <2>2. Min({since_red_stop + d, RedLineGap}) \in 0..RedLineGap
    BY <1>1, <1>6, MinPair
  <2>3. d \in 0..StopLineGap /\ d \in 0..RedLineGap
    BY <1>1, CourseAssumption
  <2>4. QED BY <1>1, <2>1, <2>2, <2>3
<1>8. lost_since' \in {Unset} \cup 0..(LaneLostCoast + 1) /\ rolling' \in BOOLEAN
      /\ stop_line_prev' \in BOOLEAN /\ red_prev' \in BOOLEAN
  <2>1. LostFor \in 0..(LaneLostCoast + 1)
    <3>1. lost_since + 1 \in 0..(LaneLostCoast + 2)
      BY DEF TypeOK, Unset
    <3>2. LaneLostCoast + 1 \in Nat
      OBVIOUS
    <3>3. QED BY <3>1, <3>2, MinPair DEF LostFor
  <2>2. lost_since' = Unset \/ lost_since' = LostFor
    BY DEF ControlTick, Tick
  <2>3. rolling' \in BOOLEAN /\ red_prev' \in BOOLEAN
    BY DEF ControlTick, Tick, SeesRed
  <2>4. stop_line_prev' = SeesWhite(view) \/ stop_line_prev' = stop_line_prev
    BY DEF ControlTick, Tick
  <2>5. QED BY <2>1, <2>2, <2>3, <2>4 DEF SeesWhite, TypeOK
<1>9. arrived' \in BOOLEAN /\ finished' \in BOOLEAN /\ junction_passed' \in BOOLEAN
      /\ red_pending' \in BOOLEAN
  BY <1>1 DEF ArrivedNow, TypeOK
<1>10. ByLines => Plan.stop_line_count \in 0..2
  BY PlanFacts DEF ByLines, MissionOpen, Plan, TypeOK
<1>11. stop_lines_seen' \in 0..2 /\ CountBelow'
  <2>1. CASE ByLines /\ CountsLine(view)
    <3>1. stop_lines_seen < Plan.stop_line_count
      BY <2>1 DEF CountBelow, CountsLine, Armed
    <3>2. stop_lines_seen' = stop_lines_seen + 1
      BY <1>1, <2>1 DEF LinesSeen
    <3>3. arrived' \/ stop_lines_seen' < Plan.stop_line_count
      BY <1>1, <1>6, <1>10, <2>1, <3>2 DEF ArrivedNow, LinesSeen, ByLines
    <3>4. QED BY <1>1, <1>6, <1>10, <2>1, <3>1, <3>2, <3>3
                 DEF CountBelow, ByLines, MissionOpen, Plan
  <2>2. CASE ~(ByLines /\ CountsLine(view))
    <3>1. stop_lines_seen' = stop_lines_seen
      BY <1>1, <2>2 DEF LinesSeen
    <3>2. ~arrived' => ~arrived
      BY <1>1 DEF ArrivedNow
    <3>3. QED BY <1>1, <1>6, <3>1, <3>2 DEF CountBelow, ByLines, MissionOpen, Plan
  <2>3. QED BY <2>1, <2>2
<1>12. QED BY <1>1, <1>2, <1>3, <1>4, <1>5, <1>7, <1>8, <1>9, <1>11
              DEF TypeOK, stationVars, latchVars

LEMMA NewFsmTyped == NewFsm \in Fsm
BY Thresholds, FsmAssumption DEF NewFsm, Fsm, States, Timers

LEMMA TypedKept == Typed /\ [Next]_vars => Typed'
<1> SUFFICES ASSUME Typed, [Next]_vars
             PROVE  Typed'
  OBVIOUS
<1> USE DEF Typed
<1>1. ASSUME NEW c \in Commands, Send(c)
      PROVE  Typed'
  <2> DEFINE x == [cmd |-> c, route_seq |-> station_seq,
                   clear_until |-> IF c = "CLEARANCE" /\ station_seq \in granted THEN 1 ELSE 0]
  <2>1. x \in Command
    BY DEF Command, TypeOK
  <2>2. wire' = Append(wire, x) /\ Len(wire) < MaxWire
    BY <1>1 DEF Send
  <2> HIDE DEF x
  <2>3. wire' \in Seq(Command) /\ Len(wire') <= MaxWire
    BY <2>1, <2>2, CourseNumbers DEF TypeOK
  <2>4. QED BY <1>1, <2>3 DEF Send, TypeOK, CountBelow, ByLines, MissionOpen, Plan,
               worldVars, stationVars, latchVars, missionVars, countVars, redVars, driveVars
<1>2. CASE Grant
  BY <1>2 DEF Grant, TypeOK, CountBelow, ByLines, MissionOpen, Plan,
              worldVars, latchVars, missionVars, countVars, redVars, driveVars
<1>3. CASE NewScenario
  BY <1>3, CourseNumbers
     DEF NewScenario, TypeOK, CountBelow, ByLines, MissionOpen, Plan,
         latchVars, missionVars, countVars, redVars, driveVars
<1>4. CASE PlanArrives
  <2>1. TypeOK'
    <3>1. /\ StopLineGap \in 0..StopLineGap /\ RedLineGap \in 0..RedLineGap
          /\ 0 \in 0..2 /\ 0 \in 0..1
      BY CourseNumbers
    <3>2. /\ since_count' \in 0..StopLineGap /\ since_red_stop' \in 0..RedLineGap
          /\ stop_lines_seen' \in 0..2 /\ clear_until' \in 0..1 /\ fsm' \in Fsm
          /\ maneuver' \in {NoManeuver} \cup 0..ManeuverLength
          /\ seq' \in {NoPlan} \cup Seqs
      BY <1>4, <3>1, NewFsmTyped DEF PlanArrives, SetPlan, TypeOK
    <3>3. QED BY <1>4, <3>2 DEF PlanArrives, SetPlan, TypeOK, worldVars, stationVars
  <2>2. CountBelow'
    <3>1. stop_lines_seen' = 0 /\ seq' \in Seqs
      BY <1>4 DEF PlanArrives, SetPlan, TypeOK
    <3>2. Plans[seq'].stop_line_count \in 0..2
      BY <3>1, PlanFacts
    <3>3. QED BY <3>1, <3>2 DEF CountBelow, ByLines, Plan
  <2>3. QED BY <2>1, <2>2
<1>5. CASE PlanUpdated
  BY <1>5 DEF PlanUpdated, TypeOK, CountBelow, ByLines, MissionOpen, Plan,
              worldVars, stationVars, latchVars, countVars, redVars, driveVars
<1>6. CASE CommandArrives
  <2>1. wire # << >> /\ wire \in Seq(Command) /\ wire' = Tail(wire)
    BY <1>6 DEF CommandArrives, TypeOK
  <2>2. Head(wire) \in Command /\ wire' \in Seq(Command) /\ Len(wire') <= MaxWire
    BY <2>1, CourseNumbers DEF TypeOK
  <2>3. clear_until' \in 0..1 /\ started' \in BOOLEAN /\ estop' \in BOOLEAN
    BY <1>6, <2>2 DEF CommandArrives, TypeOK, Command, Heeds
  <2>4. QED BY <1>6, <2>2, <2>3
               DEF CommandArrives, TypeOK, CountBelow, ByLines, MissionOpen, Plan,
                   worldVars, stationVars, missionVars, countVars, redVars, driveVars
<1>7. ASSUME NEW view \in Views, NEW pace \in 0..1, ControlTick(view, pace)
      PROVE  Typed'
  BY <1>7, TickTyped
<1>8. CASE UNCHANGED vars
  BY <1>8 DEF vars, TypeOK, CountBelow, ByLines, MissionOpen, Plan, worldVars,
              stationVars, latchVars, missionVars, countVars, redVars, driveVars
<1>9. QED BY <1>1, <1>2, <1>3, <1>4, <1>5, <1>6, <1>7, <1>8 DEF Next

LEMMA InitTyped == Init => Typed
<1> SUFFICES ASSUME Init PROVE Typed
  OBVIOUS
<1>1. << >> \in Seq(Command) /\ Len(<< >>) = 0
  OBVIOUS
<1>2. TypeOK
  <2>1. /\ StopLineGap \in 0..StopLineGap /\ RedLineGap \in 0..RedLineGap
        /\ 0 \in 0..2 /\ 0 \in 0..1 /\ 0 \in 0..LastPos /\ 0 <= MaxWire
    BY CourseNumbers
  <2>2. /\ since_count \in 0..StopLineGap /\ since_red_stop \in 0..RedLineGap
        /\ stop_lines_seen \in 0..2 /\ clear_until \in 0..1 /\ pos \in 0..LastPos
        /\ fsm \in Fsm /\ station_seq \in Seqs
        /\ maneuver \in {NoManeuver} \cup 0..ManeuverLength
        /\ seq \in {NoPlan} \cup Seqs /\ motion \in Motions
    BY <2>1, PlanFacts, NewFsmTyped DEF Init, Motions
  <2>3. wire \in Seq(Command) /\ Len(wire) <= MaxWire
    BY <1>1, <2>1 DEF Init
  <2>4. QED BY <2>2, <2>3 DEF Init, TypeOK
<1>3. QED BY <1>2 DEF Typed, CountBelow, ByLines, MissionOpen, Init

LEMMA TypedAlways == Spec => []Typed
BY InitTyped, TypedKept, PTL DEF Spec

----------------------------------------------------------------------------
(* The count of the lines. *)

Behind(x) == Cardinality({p \in WhiteAt : p <= x})

LEMMA BehindFacts ==
  ASSUME NEW x \in Int
  PROVE  /\ Behind(x) \in Nat
         /\ \A y \in Int : x <= y => Behind(x) <= Behind(y)
         /\ \A p \in WhiteAt : x < p => Behind(x) + 1 <= Behind(p)
<1> DEFINE B(z) == {p \in WhiteAt : p <= z}
<1>1. IsFiniteSet(WhiteAt) /\ WhiteAt \subseteq Int
  <2>1. WhiteAt \subseteq 0..LastPos /\ 0 \in Int /\ LastPos \in Int
    BY CourseNumbers
  <2>2. IsFiniteSet(0..LastPos)
    BY <2>1, FS_Interval
  <2>3. IsFiniteSet(WhiteAt)
    BY <2>1, <2>2, FS_Subset
  <2>4. QED BY <2>1, <2>3
<1>2. ASSUME NEW z \in Int
      PROVE  IsFiniteSet(B(z)) /\ Cardinality(B(z)) \in Nat
  <2>1. B(z) \subseteq WhiteAt
    OBVIOUS
  <2>2. IsFiniteSet(B(z))
    BY <1>1, <2>1, FS_Subset
  <2>3. QED BY <2>2, FS_CardinalityType
<1>3. ASSUME NEW y \in Int, x <= y
      PROVE  Cardinality(B(x)) <= Cardinality(B(y))
  <2>1. B(x) \subseteq B(y)
    <3> SUFFICES ASSUME NEW q \in WhiteAt, q <= x PROVE q <= y
      OBVIOUS
    <3>1. q \in Int
      BY <1>1
    <3>2. QED BY <1>3, <3>1
  <2>2. QED BY <1>2, <2>1, FS_Subset
<1>4. ASSUME NEW p \in WhiteAt, x < p
      PROVE  Cardinality(B(x)) + 1 <= Cardinality(B(p))
  <2>1. p \in Int /\ p \notin B(x)
    BY <1>1, <1>4
  <2>2. IsFiniteSet(B(x) \cup {p}) /\ Cardinality(B(x) \cup {p}) = Cardinality(B(x)) + 1
    BY <1>2, <2>1, FS_AddElement
  <2>3. (B(x) \cup {p}) \subseteq B(p)
    <3>1. p \in B(p)
      BY <2>1
    <3>2. ASSUME NEW q \in WhiteAt, q <= x
          PROVE  q <= p
      <4>1. q \in Int
        BY <1>1
      <4>2. QED BY <1>4, <2>1, <3>2, <4>1
    <3>3. QED BY <3>1, <3>2
  <2>4. IsFiniteSet(B(p))
    BY <1>2, <2>1
  <2> HIDE DEF B
  <2>5. Cardinality(B(x) \cup {p}) <= Cardinality(B(p))
    BY <2>3, <2>4, FS_Subset
  <2>6. QED BY <2>2, <2>5
<1>5. \A z : Behind(z) = Cardinality(B(z))
  BY DEF Behind
<1> HIDE DEF B
<1>6. QED BY <1>1, <1>2, <1>3, <1>4, <1>5

LEMMA TickCounts ==
  ASSUME Typed, CountedBehind, NEW view \in Views, NEW pace \in 0..1,
         ControlTick(view, pace)
  PROVE  CountedBehind'
<1> USE CourseNumbers
<1>1. PICK d \in 0..1 :
    /\ pos' = pos + d
    /\ stop_lines_seen' = LinesSeen(view)
    /\ since_count' = IF ByLines /\ CountsLine(view) THEN d
                      ELSE Min({since_count + d, StopLineGap})
    /\ UNCHANGED <<stationVars, seq>>
  <2>1. TypeOK
    BY DEF Typed
  <2>2. PICK out, m, d : TickBy(view, out, m, d)
    BY <2>1, TickFacts
  <2>3. QED BY <2>2 DEF TickBy
<1>2. /\ pos \in Nat /\ since_count \in 0..StopLineGap /\ stop_lines_seen \in 0..2
  BY DEF Typed, TypeOK
<1>3. seq' <= station_seq' /\ (HoldsThePlan' <=> HoldsThePlan)
  BY <1>1 DEF CountedBehind, stationVars, HoldsThePlan
<1>4. ASSUME HoldsThePlan
      PROVE  stop_lines_seen' <= Behind(pos' - since_count')
  <2>1. stop_lines_seen <= Behind(pos - since_count)
    BY <1>4 DEF CountedBehind, Behind
  <2>2. pos - since_count \in Int /\ Behind(pos - since_count) \in Nat
    BY <1>2, BehindFacts
  <2>3. CASE ByLines /\ CountsLine(view)
    <3>1. pos \in WhiteAt /\ since_count >= StopLineGap
      BY <2>3 DEF CountsLine, SeesWhite, FarFromLast
    <3>2. pos - since_count < pos
      BY <1>2, <3>1
    <3>3. Behind(pos - since_count) + 1 <= Behind(pos)
      BY <2>2, <3>1, <3>2, BehindFacts
    <3>4. stop_lines_seen' = stop_lines_seen + 1 /\ pos' - since_count' = pos
      BY <1>1, <1>2, <2>3 DEF LinesSeen
    <3>5. Behind(pos) \in Nat
      BY <1>2, BehindFacts
    <3>6. QED BY <1>2, <2>1, <2>2, <3>3, <3>4, <3>5
  <2>4. CASE ~(ByLines /\ CountsLine(view))
    <3>1. stop_lines_seen' = stop_lines_seen
      BY <1>1, <2>4 DEF LinesSeen
    <3>2. Min({since_count + d, StopLineGap}) \in Int
          /\ Min({since_count + d, StopLineGap}) <= since_count + d
      BY <1>2, MinPair
    <3>3. pos' - since_count' \in Int /\ pos - since_count <= pos' - since_count'
      BY <1>1, <1>2, <2>4, <3>2
    <3>4. Behind(pos - since_count) <= Behind(pos' - since_count')
          /\ Behind(pos' - since_count') \in Nat
      BY <2>2, <3>3, BehindFacts
    <3>5. QED BY <1>2, <2>1, <2>2, <3>1, <3>4
  <2>5. QED BY <2>3, <2>4
<1>5. QED BY <1>3, <1>4 DEF CountedBehind, Behind

LEMMA CountKept == Typed /\ CountedBehind /\ [Next]_vars => CountedBehind'
<1> SUFFICES ASSUME Typed, CountedBehind, [Next]_vars
             PROVE  CountedBehind'
  OBVIOUS
<1>1. station_seq \in Nat /\ Seqs \subseteq Nat /\ seq \in Nat
  BY PlanFacts DEF Typed, TypeOK, NoPlan
<1>2. CASE UNCHANGED <<pos, station_seq, seq, stop_lines_seen, since_count>>
  BY <1>2 DEF CountedBehind, HoldsThePlan
<1>3. CASE NewScenario
  BY <1>1, <1>3 DEF NewScenario, CountedBehind, HoldsThePlan, missionVars
<1>4. CASE PlanArrives
  <2>1. /\ seq' = station_seq /\ station_seq' = station_seq /\ stop_lines_seen' = 0
        /\ pos' - since_count' \in Int
    BY <1>4, CourseNumbers
       DEF PlanArrives, SetPlan, stationVars, worldVars, Typed, TypeOK
  <2>2. Behind(pos' - since_count') \in Nat
    BY <2>1, BehindFacts
  <2>3. QED BY <1>1, <2>1, <2>2 DEF CountedBehind, Behind
<1>5. ASSUME NEW view \in Views, NEW pace \in 0..1, ControlTick(view, pace)
      PROVE  CountedBehind'
  BY <1>5, TickCounts
<1>6. ASSUME NEW c \in Commands, Send(c)
      PROVE  CountedBehind'
  BY <1>2, <1>6 DEF Send, worldVars, stationVars, missionVars, countVars
<1>7. CASE Grant \/ PlanUpdated \/ CommandArrives \/ UNCHANGED vars
  BY <1>2, <1>7 DEF Grant, PlanUpdated, CommandArrives, vars, worldVars, stationVars,
                    missionVars, countVars
<1>8. QED BY <1>3, <1>4, <1>5, <1>6, <1>7 DEF Next

(* No white line is counted twice, for any course, missions and distance     *)
(* between two lines, whatever the detection does (_count_stop_lines).       *)
THEOREM LinesCountedOnce == Spec => []CountedOnce
<1>1. Init => CountedBehind
  <2> SUFFICES ASSUME Init PROVE CountedBehind
    OBVIOUS
  <2>1. seq = NoPlan /\ station_seq = 1
    BY DEF Init
  <2>2. QED BY <2>1 DEF CountedBehind, HoldsThePlan, NoPlan
<1>2. Typed /\ CountedBehind => CountedOnce
  <2> SUFFICES ASSUME Typed, CountedBehind, HoldsThePlan
               PROVE  stop_lines_seen <= Behind(pos)
    BY DEF CountedOnce, Behind
  <2>1. pos \in Int /\ since_count \in Nat /\ stop_lines_seen \in Nat
    BY CourseNumbers DEF Typed, TypeOK
  <2>2. pos - since_count \in Int /\ pos - since_count <= pos
    BY <2>1
  <2>3. Behind(pos - since_count) <= Behind(pos)
        /\ Behind(pos) \in Nat /\ Behind(pos - since_count) \in Nat
    BY <2>1, <2>2, BehindFacts
  <2>4. stop_lines_seen <= Behind(pos - since_count)
    BY DEF CountedBehind, Behind
  <2>5. QED BY <2>1, <2>3, <2>4
<1>3. QED BY <1>1, <1>2, CountKept, TypedAlways, PTL DEF Spec

----------------------------------------------------------------------------
(* The manoeuvre and the permission. *)

(* What the machine is told of the reasons to stop. *)
LEMMA WhatStops ==
  ASSUME NEW view \in Views
  PROVE  StopReasons(Observed(view)) = {} <=>
           started /\ ~estop /\ ~view.silent /\ ~ArrivedNow(view)
           /\ ~view.obstacle /\ ~view.barricade
<1> DEFINE in == Observed(view)
<1>1. StopReasons(in) =
        {i \in 1..6 : << <<in.estop, "ESTOP">>, <<~in.started, "IDLE">>,
                         <<~in.link_ok \/ ~in.path_ok, "LINK_LOST">>,
                         <<in.arrived, "ARRIVED">>, <<in.obstacle, "OBSTACLE_WAIT">>,
                         <<in.barricade, "BARRICADE_WAIT">> >>[i][1]}
  BY DEF StopReasons, Stopping
<1>2. StopReasons(in) = {} <=>
        /\ ~in.estop /\ in.started /\ in.link_ok /\ in.path_ok /\ ~in.arrived
        /\ ~in.obstacle /\ ~in.barricade
  <2> DEFINE t == << <<in.estop, "ESTOP">>, <<~in.started, "IDLE">>,
                     <<~in.link_ok \/ ~in.path_ok, "LINK_LOST">>,
                     <<in.arrived, "ARRIVED">>, <<in.obstacle, "OBSTACLE_WAIT">>,
                     <<in.barricade, "BARRICADE_WAIT">> >>
  <2>1. /\ t[1][1] = in.estop /\ t[2][1] = ~in.started
        /\ t[3][1] = (~in.link_ok \/ ~in.path_ok) /\ t[4][1] = in.arrived
        /\ t[5][1] = in.obstacle /\ t[6][1] = in.barricade
    OBVIOUS
  <2> HIDE DEF t
  <2>2. StopReasons(in) = {i \in 1..6 : t[i][1]}
    BY <1>1 DEF t
  <2>3. StopReasons(in) = {} <=>
          ~t[1][1] /\ ~t[2][1] /\ ~t[3][1] /\ ~t[4][1] /\ ~t[5][1] /\ ~t[6][1]
    <3>1. 1..6 = {1, 2, 3, 4, 5, 6}
      OBVIOUS
    <3>2. QED BY <2>2, <3>1, Zenon
  <2>4. QED BY <2>1, <2>3, Zenon
<1>3. /\ in.estop = estop /\ in.started = started /\ in.link_ok = ~view.silent
      /\ in.path_ok = ~view.silent /\ in.arrived = ArrivedNow(view)
      /\ in.obstacle = view.obstacle /\ in.barricade = view.barricade
  BY DEF Observed
<1>4. QED BY <1>2, <1>3

(* A reason to stop: the robot stays where it is. *)
LEMMA StoppedTick ==
  ASSUME Typed, NEW view \in Views, NEW out, NEW m, NEW d, TickBy(view, out, m, d),
         StopReasons(Observed(view)) # {}
  PROVE  /\ d = 0 /\ m # "maneuver"
         /\ fsm'.state \in StopStates /\ fsm'.sinceStop = fsm.sinceStop
<1>1. Observed(view) \in Inputs /\ fsm \in Fsm
  BY ObservedTyped DEF Typed, TypeOK
<1>2. /\ out.speed = "halt" /\ out.fsm.state \in StopStates
      /\ out.fsm.sinceStop = fsm.sinceStop
  BY <1>1, StepDecides DEF TickBy
<1>3. m \in {"halt", "rotate"}
  BY <1>2, MotionTyped DEF TickBy, StopStates
<1>4. d = 0
  BY <1>3 DEF TickBy, Moves
<1>5. fsm' = Travelled(out.fsm, 0) /\ out.fsm \in Fsm /\ fsm.sinceStop \in 0..JunctionRelatch
  BY <1>1, <1>4 DEF TickBy, Fsm
<1>6. fsm'.state = out.fsm.state /\ fsm'.sinceStop = fsm.sinceStop
  BY <1>2, <1>5, TravelledFacts, FsmAssumption
<1>7. QED BY <1>2, <1>3, <1>4, <1>6

(* Before the line: no red line counts but the one at the line. *)
LEMMA NoRedBefore ==
  ASSUME MissionOpen, ~junction_passed, maneuver = NoManeuver, ~red_pending
  PROVE  ~RedWaits /\ ~RedLineEvent
BY DEF RedWaits, RedEdge, RedLineEvent, RedDue, ManeuverActive

(* At the line the robot stops, and goes on into the manoeuvre when cleared. *)
LEMMA TickAtLine ==
  ASSUME Typed, CourseLaidOut, NEW view \in Views, NEW out, NEW m, NEW d,
         TickBy(view, out, m, d), StopReasons(Observed(view)) = {},
         MissionOpen, ~junction_passed, maneuver = NoManeuver, ~finished, ~red_pending,
         ReadyForLine, pos = Line
  PROVE  \/ /\ fsm'.state = "JUNCTION_STOP" /\ d = 0 /\ m # "maneuver"
         \/ /\ fsm'.state = "JUNCTION_PASS" /\ m = "maneuver" /\ JunctionClear
<1> DEFINE in == Observed(view)
           a == Aged(fsm)
<1>1. in \in Inputs /\ fsm \in Fsm
  BY ObservedTyped DEF Typed, TypeOK
<1>2. a \in Fsm /\ a.state = fsm.state /\ a.gone = fsm.gone /\ a.sinceStop = fsm.sinceStop
  BY <1>1, AgedFacts
<1>3. /\ ~in.at_clearance /\ ~in.red_line_event /\ ~in.maneuver_active
      /\ ~in.maneuver_finished /\ in.junction_trigger
      /\ in.junction_clear = JunctionClear
      /\ in.crosswalk_trigger = (Line \in CrosswalkAt)
  BY NoRedBefore DEF Observed, ManeuverActive, JunctionTrigger, SeesRed, CourseLaidOut
<1> HIDE DEF in, a
<1>4. CrosswalkRelatch \in Nat /\ CrosswalkRelatch > 0 /\ Line \in Nat
      /\ ManeuverLength \in Nat /\ \A c \in CrosswalkAt : c \in Nat
  BY FsmAssumption, CourseNumbers
<1>5. Line \notin CrosswalkAt
  BY <1>4 DEF CourseLaidOut
<1>6. a.state \notin {"CROSSWALK_STOP", "RED_LINE_STOP", "JUNCTION_PASS"}
  BY <1>2, <1>5 DEF ReadyForLine
<1>7. ~RelatchBlocked(a)
  <2> SUFFICES ASSUME fsm.state = "CROSSWALK_CLEAR" PROVE ~(fsm.gone < CrosswalkRelatch)
    BY <1>2 DEF RelatchBlocked
  <2>1. PICK c \in CrosswalkAt :
              c <= Line /\ (fsm.gone >= CrosswalkRelatch \/ fsm.gone = Line - c)
    BY DEF ReadyForLine
  <2>2. fsm.gone \in Nat
    BY <1>1, Thresholds DEF Fsm
  <2>3. c + CrosswalkRelatch <= Line
    BY <1>4, <2>1 DEF CourseLaidOut
  <2>4. QED BY <1>4, <2>1, <2>2, <2>3
<1>8. out = JunctionRules(a, in)
  <2>1. out = CrosswalkRules(a, in)
    BY <1>1, StepDecides DEF TickBy, in, a
  <2>2. CrosswalkRules(a, in) = RedLineRules(a, in)
    BY <1>1, <1>2, <1>3, <1>5, <1>6, <1>7, CrosswalkDecides
  <2>3. RedLineRules(a, in) = ManeuverRules(a, in)
    BY <1>1, <1>2, <1>3, <1>6, RedLineDecides
  <2>4. ManeuverRules(a, in) = JunctionRules(a, in)
    BY <1>1, <1>2, <1>3, ManeuverDecides
  <2>5. QED BY <2>1, <2>2, <2>3, <2>4
<1>9. \/ out.fsm.state = "JUNCTION_STOP" /\ out.speed = "halt"
      \/ JunctionClear /\ out.fsm.state = "JUNCTION_PASS"
  <2>1. CASE a.state = "JUNCTION_STOP"
    <3>1. out = Decide(a, "halt") \/ (in.junction_clear /\ out.fsm.state = "JUNCTION_PASS")
      BY <1>1, <1>2, <1>3, <1>8, <2>1, JunctionDecides
    <3>2. QED BY <1>2, <1>3, <2>1, <3>1, DecideFacts, SpeedNames
  <2>2. CASE a.state # "JUNCTION_STOP"
    <3>1. a.sinceStop = JunctionRelatch
      BY <1>2, <2>2 DEF ReadyForLine
    <3>2. QED BY <1>1, <1>2, <1>3, <1>6, <1>8, <2>2, <3>1, JunctionDecides
  <2>3. QED BY <2>1, <2>2
<1>10. fsm'.state = out.fsm.state
  BY TravelledFacts DEF TickBy
<1>11. CASE out.fsm.state = "JUNCTION_STOP" /\ out.speed = "halt"
  <2>1. m \in {"halt", "rotate"}
    BY <1>11, MotionTyped DEF TickBy
  <2>2. QED BY <1>10, <1>11, <2>1 DEF TickBy, Moves
<1>12. CASE JunctionClear /\ out.fsm.state = "JUNCTION_PASS"
  BY <1>10, <1>12, MotionTyped DEF TickBy
<1>13. QED BY <1>9, <1>11, <1>12

(* On the way to the line the robot follows the lane or stands; a crosswalk it *)
(* has stood at lies the re-latch distance behind it before the next rule.      *)
LEMMA TickOnTheWay ==
  ASSUME Typed, CourseLaidOut, NEW view \in Views, NEW out, NEW m, NEW d,
         TickBy(view, out, m, d), StopReasons(Observed(view)) = {},
         MissionOpen, ~junction_passed, maneuver = NoManeuver, ~finished, ~red_pending,
         ReadyForLine, pos < Line
  PROVE  m # "maneuver" /\ pos' <= Line /\ ReadyForLine'
<1> DEFINE in == Observed(view)
           a == Aged(fsm)
<1>1. in \in Inputs /\ fsm \in Fsm
  BY ObservedTyped DEF Typed, TypeOK
<1>2. a \in Fsm /\ a.state = fsm.state /\ a.gone = fsm.gone /\ a.sinceStop = fsm.sinceStop
  BY <1>1, AgedFacts
<1>3. CrosswalkRelatch \in 1..GoneMax /\ JunctionRelatch \in Nat /\ GoneMax \in Nat
      /\ Line \in Nat /\ pos \in Nat
      /\ \A c \in CrosswalkAt \cup RedAt : c \in Nat
  BY Thresholds, FsmAssumption, CourseNumbers DEF Typed, TypeOK
<1>4. /\ ~in.at_clearance /\ ~in.red_line_event /\ ~in.maneuver_active
      /\ ~in.maneuver_finished /\ ~in.junction_trigger
      /\ in.crosswalk_trigger = (pos \in CrosswalkAt)
  <2>1. ~SeesRed
    BY <1>3 DEF SeesRed, CourseLaidOut
  <2>2. QED BY <2>1, NoRedBefore DEF Observed, ManeuverActive, JunctionTrigger
<1>5. a.state \notin {"JUNCTION_STOP", "JUNCTION_PASS", "RED_LINE_STOP"}
      /\ a.sinceStop = JunctionRelatch
  BY <1>2, <1>3 DEF ReadyForLine
<1>6. out = CrosswalkRules(a, in)
  BY <1>1, StepDecides DEF TickBy
<1> HIDE DEF in, a
<1>7. /\ out.fsm \in Fsm /\ d \in 0..1 /\ pos' = pos + d /\ pos' <= Line
      /\ fsm'.state = out.fsm.state
      /\ fsm'.gone = IF out.fsm.gone + d <= GoneMax THEN out.fsm.gone + d ELSE GoneMax
      /\ out.fsm.sinceStop = JunctionRelatch => fsm'.sinceStop = JunctionRelatch
  BY <1>3, TravelledFacts DEF TickBy
<1>8. out.fsm.state # "JUNCTION_PASS" => m # "maneuver"
  BY MotionTyped DEF TickBy
<1>9. out.speed = "halt" /\ out.fsm.state # "JUNCTION_PASS" => d = 0
  BY MotionTyped DEF TickBy, Moves
<1>10. CASE out.fsm = a /\ out.speed = "halt" /\ a.state = "CROSSWALK_STOP"
  <2>1. d = 0 /\ pos \in CrosswalkAt
    BY <1>2, <1>9, <1>10 DEF ReadyForLine
  <2>2. QED BY <1>3, <1>5, <1>7, <1>8, <1>10, <2>1 DEF ReadyForLine
<1>11. CASE out.fsm = Enter(a, "CROSSWALK_CLEAR") /\ a.state = "CROSSWALK_STOP"
  <2>1. out.fsm.state = "CROSSWALK_CLEAR" /\ out.fsm.gone = 0
        /\ out.fsm.sinceStop = JunctionRelatch
    BY <1>2, <1>5, <1>11, EnterFacts DEF States
  <2>2. pos \in CrosswalkAt
    BY <1>2, <1>11 DEF ReadyForLine
  <2>3. fsm'.gone = d /\ pos' - pos = d /\ pos <= pos'
    BY <1>3, <1>7, <2>1
  <2>4. QED BY <1>7, <1>8, <2>1, <2>2, <2>3 DEF ReadyForLine
<1>12. CASE out.fsm = a /\ RelatchBlocked(a)
  <2>1. a.state = "CROSSWALK_CLEAR" /\ a.gone < CrosswalkRelatch /\ a.gone \in Nat
    BY <1>2, <1>3, <1>12 DEF RelatchBlocked, Fsm
  <2>2. PICK c \in CrosswalkAt :
              c <= pos /\ (a.gone >= CrosswalkRelatch \/ a.gone = pos - c)
    BY <1>2, <2>1 DEF ReadyForLine
  <2>3. a.gone = pos - c
    BY <1>3, <2>1, <2>2
  <2>4. c <= pos' /\ (fsm'.gone >= CrosswalkRelatch \/ fsm'.gone = pos' - c)
    BY <1>3, <1>7, <1>12, <2>1, <2>2, <2>3
  <2>5. QED BY <1>5, <1>7, <1>8, <1>12, <2>1, <2>4 DEF ReadyForLine
<1>13. CASE out = Decide(Enter(a, "CROSSWALK_STOP"), "halt") /\ in.crosswalk_trigger
  <2>1. Enter(a, "CROSSWALK_STOP") \in Fsm
        /\ Enter(a, "CROSSWALK_STOP").state = "CROSSWALK_STOP"
        /\ Enter(a, "CROSSWALK_STOP").sinceStop = JunctionRelatch
    BY <1>2, <1>5, EnterFacts DEF States
  <2>2. out.fsm = Enter(a, "CROSSWALK_STOP") /\ out.speed = "halt"
    BY <1>13, <2>1, DecideFacts, SpeedNames
  <2>3. d = 0 /\ pos \in CrosswalkAt
    BY <1>4, <1>9, <1>13, <2>1, <2>2
  <2>4. QED BY <1>3, <1>7, <1>8, <2>1, <2>2, <2>3 DEF ReadyForLine
<1>14. CASE out = RedLineRules(a, in)
  <2>1. RedLineRules(a, in) = ManeuverRules(a, in)
    BY <1>1, <1>2, <1>4, <1>5, RedLineDecides
  <2>2. ManeuverRules(a, in) = JunctionRules(a, in)
    BY <1>1, <1>2, <1>4, ManeuverDecides
  <2>3. out.fsm.state \in LaneStates /\ out.fsm.sinceStop = JunctionRelatch
    BY <1>1, <1>2, <1>4, <1>5, <1>14, <2>1, <2>2, JunctionDecides
  <2>4. QED BY <1>7, <1>8, <2>3 DEF ReadyForLine, LaneStates
<1>15. CASE a.state = "CROSSWALK_STOP"
  <2>1. out = Decide(a, "halt") \/ out = Decide(Enter(a, "CROSSWALK_CLEAR"), "full")
    BY <1>1, <1>2, <1>4, <1>6, <1>15, CrosswalkDecides
  <2>2. Enter(a, "CROSSWALK_CLEAR") \in Fsm
    BY <1>2, EnterFacts DEF States
  <2>3. \/ out.fsm = a /\ out.speed = "halt"
        \/ out.fsm = Enter(a, "CROSSWALK_CLEAR")
    BY <1>2, <2>1, <2>2, DecideFacts, SpeedNames
  <2>4. QED BY <1>10, <1>11, <1>15, <2>3
<1>16. CASE RelatchBlocked(a)
  <2>1. out = Decide(a, "full")
    BY <1>1, <1>2, <1>4, <1>6, <1>16, CrosswalkDecides
  <2>2. out.fsm = a
    BY <1>2, <2>1, DecideFacts, SpeedNames
  <2>3. QED BY <1>12, <1>16, <2>2
<1>17. CASE a.state # "CROSSWALK_STOP" /\ ~RelatchBlocked(a)
  <2>1. IF in.crosswalk_trigger
        THEN out = Decide(Enter(a, "CROSSWALK_STOP"), "halt")
        ELSE out = RedLineRules(a, in)
    BY <1>1, <1>2, <1>4, <1>6, <1>17, CrosswalkDecides
  <2>2. QED BY <1>13, <1>14, <2>1
<1>18. QED BY <1>15, <1>16, <1>17

(* In the manoeuvre every tick without a reason to stop drives it. *)
LEMMA TickOnManeuver ==
  ASSUME Typed, CourseLaidOut, OnManeuver, HoldsThePlan, ManeuverActive, MissionOpen,
         NEW view \in Views, NEW out, NEW m, NEW d,
         TickBy(view, out, m, d), StopReasons(Observed(view)) = {}
  PROVE  m = "maneuver" /\ fsm'.state = "JUNCTION_PASS"
<1> DEFINE in == Observed(view)
           a == Aged(fsm)
<1>1. in \in Inputs /\ fsm \in Fsm
  BY ObservedTyped DEF Typed, TypeOK
<1>2. a \in Fsm /\ a.state = fsm.state
  BY <1>1, AgedFacts
<1>3. pos \notin CrosswalkAt
  <2>1. pos = Line + ManeuverLength - maneuver /\ maneuver \in 0..ManeuverLength
    BY DEF OnManeuver, ManeuverActive, Typed, TypeOK
  <2>2. CrosswalkRelatch \in Nat /\ CrosswalkRelatch > 0 /\ Line \in Nat
        /\ ManeuverLength \in Nat /\ \A c \in CrosswalkAt : c \in Nat
    BY FsmAssumption, CourseNumbers
  <2>3. QED BY <2>1, <2>2 DEF CourseLaidOut
<1>4. ~in.at_clearance /\ in.maneuver_active /\ ~in.crosswalk_trigger
  BY <1>3 DEF Observed
<1>5. a.state \notin {"CROSSWALK_STOP", "CROSSWALK_CLEAR", "RED_LINE_STOP"}
  BY <1>2 DEF OnManeuver
<1>6. out = CrosswalkRules(a, in)
  BY <1>1, StepDecides DEF TickBy
<1> HIDE DEF in, a
<1>7. CrosswalkRules(a, in) = RedLineRules(a, in)
  BY <1>1, <1>2, <1>4, <1>5, CrosswalkDecides DEF RelatchBlocked
<1>8. RedLineRules(a, in) = ManeuverRules(a, in)
  BY <1>1, <1>2, <1>4, <1>5, RedLineDecides
<1>9. ManeuverRules(a, in) = Decide(Enter(a, "JUNCTION_PASS"), "full")
  BY <1>1, <1>2, <1>4, ManeuverDecides
<1>10. out.fsm.state = "JUNCTION_PASS"
  <2>1. Enter(a, "JUNCTION_PASS") \in Fsm /\ Enter(a, "JUNCTION_PASS").state = "JUNCTION_PASS"
    BY <1>2, EnterFacts DEF States
  <2>2. QED BY <1>6, <1>7, <1>8, <1>9, <2>1, DecideFacts, SpeedNames
<1>11. m = "maneuver"
  BY <1>10, MotionTyped DEF TickBy, ManeuverActive
<1>12. fsm'.state = out.fsm.state
  BY TravelledFacts DEF TickBy
<1>13. QED BY <1>10, <1>11, <1>12

(* A tick leaves what the driver holds and what it was told alone. *)
LEMMA TickOfPlan ==
  ASSUME Typed, DriveInv, CourseLaidOut, WaitsUndisturbed,
         NEW view \in Views, NEW out, NEW m, NEW d, TickBy(view, out, m, d),
         Interrupts(view) /\ fsm.state = "JUNCTION_STOP" => "halt_at_line" \in Allowed,
         HoldsThePlan
  PROVE  /\ (pos <= Line /\ pos' > Line) => motion' = "maneuver" /\ Permitted
         /\ BeforeLine' /\ OnManeuver' /\ BehindIt'
<1> DEFINE reasons == StopReasons(Observed(view))
           begun == maneuver # NoManeuver
<1>1. /\ MissionOpen /\ pos \in Nat /\ d \in 0..1 /\ pos' = pos + d
      /\ Line \in Nat /\ ManeuverLength \in Nat /\ ManeuverLength > 0
      /\ maneuver \in {NoManeuver} \cup 0..ManeuverLength
      /\ junction_passed \in BOOLEAN /\ arrived \in BOOLEAN
  BY PlanFacts, CourseNumbers DEF TickBy, Typed, TypeOK, MissionOpen, HoldsThePlan
<1>2. /\ seq' = seq /\ granted' = granted /\ station_seq' = station_seq
      /\ started' = started /\ estop' = estop /\ arrived' = ArrivedNow(view)
      /\ arrived => arrived'
      /\ Permitted' = Permitted /\ HoldsThePlan'
  BY DEF TickBy, stationVars, latchVars, ArrivedNow, Permitted, MissionOpen, Plan,
         HoldsThePlan
<1>3. reasons # {} => d = 0 /\ m # "maneuver" /\ fsm'.state \in StopStates
                      /\ fsm'.sinceStop = fsm.sinceStop
  BY StoppedTick
<1>4. m # "maneuver" => /\ maneuver' = maneuver /\ junction_passed' = junction_passed
                        /\ ~finished'
  BY <1>1 DEF TickBy
<1>5. m = "maneuver" => /\ motion' = IF LeftToDrive = 0 THEN "halt" ELSE "maneuver"
                        /\ maneuver' = LeftToDrive - d
                        /\ junction_passed' = (junction_passed \/ LeftToDrive = 0)
                        /\ d = 1 => LeftToDrive > 0
  BY <1>1 DEF TickBy, Moves
<1>6. CASE junction_passed
  <2>1. pos >= Line + ManeuverLength /\ junction_passed'
    BY <1>6 DEF DriveInv, BehindIt, TickBy
  <2>2. QED BY <1>1, <1>2, <2>1 DEF BeforeLine, OnManeuver, ManeuverActive, BehindIt
<1>7. CASE ~junction_passed /\ begun
  <2>1. ManeuverActive /\ Permitted /\ pos = Line + ManeuverLength - maneuver
        /\ maneuver \in 0..ManeuverLength /\ LeftToDrive = maneuver
        /\ fsm.state \notin {"CROSSWALK_STOP", "CROSSWALK_CLEAR", "RED_LINE_STOP"}
    BY <1>1, <1>7 DEF DriveInv, OnManeuver, ManeuverActive, LeftToDrive
  <2>2. CASE reasons = {}
    <3>1. m = "maneuver" /\ fsm'.state = "JUNCTION_PASS"
      BY <1>1, <2>1, <2>2, TickOnManeuver DEF DriveInv
    <3>2. maneuver' = maneuver - d /\ junction_passed' = (maneuver = 0)
          /\ (d = 1 => maneuver > 0 /\ motion' = "maneuver")
      BY <1>1, <1>5, <1>7, <2>1, <3>1
    <3>3. maneuver' \in 0..ManeuverLength /\ pos' = Line + ManeuverLength - maneuver'
      BY <1>1, <2>1, <3>2
    <3>4. BeforeLine'
      BY <3>3 DEF BeforeLine, NoManeuver
    <3>5. OnManeuver'
      BY <1>2, <2>1, <3>1, <3>3 DEF OnManeuver
    <3>6. BehindIt'
      <4>1. CASE maneuver = 0
        BY <1>1, <2>1, <4>1 DEF BehindIt
      <4>2. CASE maneuver # 0
        BY <3>2, <4>2 DEF BehindIt
      <4>3. QED BY <4>1, <4>2
    <3>7. QED BY <1>1, <2>1, <3>2, <3>4, <3>5, <3>6
  <2>3. CASE reasons # {}
    <3>1. /\ pos' = pos /\ maneuver' = maneuver /\ junction_passed' = junction_passed
          /\ fsm'.state \in StopStates
      BY <1>1, <1>3, <1>4, <2>3
    <3>2. QED BY <1>1, <1>2, <1>7, <2>1, <3>1
                 DEF BeforeLine, OnManeuver, ManeuverActive, BehindIt, StopStates
  <2>4. QED BY <2>2, <2>3
<1>8. CASE ~junction_passed /\ ~begun
  <2>1. /\ pos <= Line /\ ~finished /\ ~red_pending /\ (~arrived => ReadyForLine)
        /\ LeftToDrive = ManeuverLength
    BY <1>8 DEF DriveInv, BeforeLine, LeftToDrive
  <2>2. ~red_pending'
    BY <1>1, <1>8, <2>1, NoRedBefore DEF TickBy
  <2>3. ASSUME m # "maneuver", pos' <= Line, ~arrived' => ReadyForLine'
        PROVE  BeforeLine' /\ OnManeuver' /\ BehindIt'
    BY <1>4, <1>8, <2>2, <2>3 DEF BeforeLine, OnManeuver, ManeuverActive, BehindIt
  <2>4. CASE reasons # {}
    <3>1. m # "maneuver" /\ pos' = pos /\ pos' <= Line
      BY <1>1, <1>3, <2>1, <2>4
    <3>2. ASSUME ~arrived' PROVE ReadyForLine'
      <4>1. ReadyForLine /\ ~ArrivedNow(view)
        BY <1>2, <2>1, <3>2
      <4>2. fsm.state # "JUNCTION_STOP"
        <5> SUFFICES ASSUME fsm.state = "JUNCTION_STOP" PROVE FALSE
          OBVIOUS
        <5>1. started /\ ~estop
          BY <4>1 DEF ReadyForLine
        <5>2. view.silent \/ view.obstacle \/ view.barricade
          BY <2>4, <4>1, <5>1, WhatStops
        <5>3. QED BY <5>2 DEF Interrupts, WaitsUndisturbed
      <4>3. fsm'.sinceStop = JunctionRelatch /\ fsm'.state \in StopStates
        BY <1>3, <2>4, <4>1, <4>2 DEF ReadyForLine
      <4>4. QED BY <4>3 DEF ReadyForLine, StopStates
    <3>3. QED BY <1>1, <2>1, <2>3, <3>1, <3>2
  <2>5. CASE reasons = {}
    <3>1. ~arrived /\ ReadyForLine /\ started /\ ~estop
      BY <1>1, <2>1, <2>5, WhatStops DEF ArrivedNow
    <3>2. CASE pos < Line
      <4>1. m # "maneuver" /\ pos' <= Line /\ ReadyForLine'
        BY <1>1, <1>8, <2>1, <2>5, <3>1, <3>2, TickOnTheWay
      <4>2. QED BY <1>1, <2>3, <4>1
    <3>3. CASE pos = Line
      <4>1. \/ /\ fsm'.state = "JUNCTION_STOP" /\ d = 0 /\ m # "maneuver"
            \/ /\ fsm'.state = "JUNCTION_PASS" /\ m = "maneuver" /\ JunctionClear
        BY <1>1, <1>8, <2>1, <2>5, <3>1, <3>3, TickAtLine
      <4>2. CASE fsm'.state = "JUNCTION_STOP" /\ d = 0 /\ m # "maneuver"
        <5>1. pos' = Line
          BY <1>1, <3>3, <4>2
        <5>2. ReadyForLine'
          BY <1>2, <3>1, <4>2, <5>1 DEF ReadyForLine
        <5>3. QED BY <1>1, <2>3, <4>2, <5>1, <5>2
      <4>3. CASE fsm'.state = "JUNCTION_PASS" /\ m = "maneuver" /\ JunctionClear
        <5>1. Permitted
          BY <1>1, <4>3 DEF JunctionClear, Permitted, DriveInv, Cleared, Typed, TypeOK
        <5>2. maneuver' = ManeuverLength - d /\ ~junction_passed' /\ motion' = "maneuver"
          BY <1>1, <1>5, <1>8, <2>1, <4>3
        <5>3. maneuver' \in 0..ManeuverLength /\ pos' = Line + ManeuverLength - maneuver'
          BY <1>1, <3>3, <5>2
        <5>4. BeforeLine'
          BY <5>3 DEF BeforeLine, NoManeuver
        <5>5. OnManeuver' /\ BehindIt'
          BY <1>2, <4>3, <5>1, <5>2, <5>3 DEF OnManeuver, BehindIt
        <5>6. QED BY <5>1, <5>2, <5>4, <5>5
      <4>4. QED BY <4>1, <4>2, <4>3
    <3>4. QED BY <1>1, <2>1, <3>2, <3>3
  <2>6. QED BY <2>4, <2>5
<1>9. QED BY <1>6, <1>7, <1>8

LEMMA TickDrives ==
  ASSUME Typed, DriveInv, CourseLaidOut, WaitsUndisturbed,
         NEW view \in Views, NEW pace \in 0..1, ControlTick(view, pace)
  PROVE  /\ (pos <= Line /\ pos' > Line) => motion' = "maneuver" /\ Permitted
         /\ DriveInv'
<1>1. PICK out, m, d : TickBy(view, out, m, d)
  BY TickFacts DEF Typed
<1>2. /\ seq' = seq /\ granted' = granted /\ station_seq' = station_seq /\ wire' = wire
      /\ clear_until' = clear_until /\ started' = started
      /\ arrived => arrived'
      /\ HoldsThePlan' <=> HoldsThePlan
  BY <1>1 DEF TickBy, stationVars, latchVars, ArrivedNow, HoldsThePlan
<1>3. Cleared'
  BY <1>2 DEF DriveInv, Cleared
<1>4. CASE ~HoldsThePlan
  <2>1. pos = 0 /\ (arrived \/ ~started) /\ \A i \in DOMAIN wire : wire[i].cmd # "START"
    BY <1>4 DEF DriveInv, StandsBetween
  <2>2. StopReasons(Observed(view)) # {}
    BY <2>1, WhatStops DEF ArrivedNow
  <2>3. d = 0
    BY <1>1, <2>2, StoppedTick
  <2>4. pos' = 0
    BY <1>1, <2>1, <2>3 DEF TickBy
  <2>5. StandsBetween'
    BY <1>2, <2>1, <2>4 DEF StandsBetween, DriveInv
  <2>6. ~(pos <= Line /\ pos' > Line)
    BY <2>4, CourseNumbers
  <2>7. QED BY <1>2, <1>3, <1>4, <2>5, <2>6
               DEF DriveInv, BeforeLine, OnManeuver, BehindIt
<1>5. CASE HoldsThePlan
  <2>1. Interrupts(view) /\ fsm.state = "JUNCTION_STOP" => "halt_at_line" \in Allowed
    BY DEF ControlTick
  <2>2. StandsBetween'
    BY <1>2, <1>5 DEF StandsBetween, DriveInv
  <2>3. QED BY <1>1, <1>3, <1>5, <2>1, <2>2, TickOfPlan DEF DriveInv
<1>6. QED BY <1>4, <1>5

LEMMA DriveKept ==
  ASSUME Typed, DriveInv, CourseLaidOut, WaitsUndisturbed, [Next]_vars
  PROVE  /\ (pos <= Line /\ pos' > Line) => motion' = "maneuver" /\ Permitted
         /\ DriveInv'
<1> USE DEF DriveInv
<1> DEFINE Kept == <<pos, station_seq, seq, maneuver, finished, junction_passed,
                     arrived, red_pending, fsm>>
<1>1. /\ pos \in Nat /\ Line \in Nat /\ Line > 0 /\ station_seq \in Nat
      /\ seq \in Nat /\ wire \in Seq(Command)
  BY CourseNumbers, PlanFacts DEF Typed, TypeOK, NoPlan
<1>2. ASSUME UNCHANGED Kept, granted \subseteq granted',
             fsm.state = "JUNCTION_STOP" /\ started /\ ~estop => started' /\ ~estop'
      PROVE  BeforeLine' /\ OnManeuver' /\ BehindIt' /\ ~(pos <= Line /\ pos' > Line)
  <2>1. ReadyForLine => ReadyForLine'
    BY <1>2 DEF ReadyForLine
  <2>2. BeforeLine'
    BY <1>2, <2>1 DEF BeforeLine, HoldsThePlan
  <2>3. OnManeuver'
    BY <1>2 DEF OnManeuver, HoldsThePlan, ManeuverActive, Permitted, MissionOpen, Plan
  <2>4. BehindIt'
    BY <1>2 DEF BehindIt, HoldsThePlan
  <2>5. QED BY <1>1, <1>2, <2>2, <2>3, <2>4
<1>3. ASSUME NEW c \in Commands, Send(c)
      PROVE  ~(pos <= Line /\ pos' > Line) /\ DriveInv'
  <2> DEFINE x == [cmd |-> c, route_seq |-> station_seq,
                   clear_until |-> IF c = "CLEARANCE" /\ station_seq \in granted THEN 1 ELSE 0]
  <2>1. UNCHANGED <<Kept, granted, started, estop, clear_until>>
    BY <1>3 DEF Send, worldVars, stationVars, latchVars, missionVars, redVars, driveVars
  <2>2. wire' = Append(wire, x) /\ (c = "START" => HoldsThePlan)
    BY <1>3 DEF Send, WaitsUndisturbed, HoldsThePlan
  <2>3. /\ x.clear_until = 1 => x.route_seq \in granted
        /\ x.cmd = c
    OBVIOUS
  <2> HIDE DEF x
  <2>4. \A i \in DOMAIN wire' : (i \in DOMAIN wire /\ wire'[i] = wire[i]) \/ wire'[i] = x
    BY <1>1, <2>2
  <2>5. Cleared'
    BY <2>1, <2>3, <2>4 DEF Cleared
  <2>6. StandsBetween'
    BY <2>1, <2>2, <2>3, <2>4 DEF StandsBetween, HoldsThePlan
  <2>7. QED BY <1>2, <2>1, <2>5, <2>6
<1>4. CASE Grant
  <2>1. UNCHANGED <<Kept, wire, started, estop, clear_until>> /\ granted \subseteq granted'
    BY <1>4 DEF Grant, worldVars, latchVars, missionVars, redVars, driveVars
  <2>2. Cleared' /\ StandsBetween'
    BY <2>1 DEF Cleared, StandsBetween, HoldsThePlan
  <2>3. QED BY <1>2, <2>1, <2>2
<1>5. CASE NewScenario
  <2>1. /\ pos' = 0 /\ station_seq' = station_seq + 1 /\ (arrived \/ ~started)
        /\ \A i \in DOMAIN wire : wire[i].cmd # "START"
        /\ UNCHANGED <<seq, granted, wire, clear_until, started, arrived>>
    BY <1>5 DEF NewScenario, WaitsUndisturbed, latchVars, missionVars
  <2>2. seq' < station_seq'
    BY <1>1, <2>1 DEF StandsBetween
  <2>3. ~HoldsThePlan'
    BY <1>1, <2>1, <2>2 DEF HoldsThePlan
  <2>4. Cleared' /\ StandsBetween'
    <3>1. Cleared'
      BY <2>1 DEF Cleared
    <3>2. StandsBetween'
      BY <1>1, <2>1, <2>2 DEF StandsBetween
    <3>3. QED BY <3>1, <3>2
  <2>5. ~(pos <= Line /\ pos' > Line)
    BY <1>1, <2>1
  <2>6. QED BY <2>3, <2>4, <2>5 DEF BeforeLine, OnManeuver, BehindIt
<1>6. CASE PlanArrives
  <2>1. /\ seq' = station_seq /\ seq # station_seq /\ clear_until' = 0
        /\ maneuver' = NoManeuver /\ ~finished' /\ ~junction_passed' /\ ~red_pending'
        /\ fsm' = NewFsm /\ UNCHANGED <<pos, station_seq, granted, wire>>
    BY <1>6 DEF PlanArrives, SetPlan, worldVars, stationVars
  <2>2. pos' = 0
    BY <2>1 DEF StandsBetween, HoldsThePlan
  <2>3. ReadyForLine'
    BY <2>1 DEF ReadyForLine, NewFsm
  <2>4. Cleared' /\ StandsBetween'
    BY <1>1, <2>1 DEF Cleared, StandsBetween, HoldsThePlan
  <2>5. BeforeLine'
    BY <1>1, <2>1, <2>2, <2>3 DEF BeforeLine
  <2>6. QED BY <1>1, <2>1, <2>2, <2>4, <2>5 DEF OnManeuver, ManeuverActive, BehindIt
<1>7. CASE PlanUpdated
  <2>1. UNCHANGED <<Kept, granted, wire, started, estop, clear_until>>
    BY <1>7 DEF PlanUpdated, worldVars, stationVars, latchVars, redVars, driveVars
  <2>2. Cleared' /\ StandsBetween'
    BY <2>1 DEF Cleared, StandsBetween, HoldsThePlan
  <2>3. QED BY <1>2, <2>1, <2>2
<1>8. CASE CommandArrives
  <2> DEFINE c == Head(wire)
  <2>1. /\ UNCHANGED <<Kept, granted>> /\ wire # << >> /\ wire' = Tail(wire)
        /\ c.cmd \in {"STOP", "ESTOP"} => fsm.state # "JUNCTION_STOP"
        /\ clear_until' = IF c.cmd = "CLEARANCE" /\ Accepted(c) THEN c.clear_until
                           ELSE clear_until
        /\ started' => c.cmd = "START" \/ started
        /\ started /\ c.cmd \notin {"STOP", "ESTOP"} => started'
        /\ estop' => c.cmd = "ESTOP" \/ estop
    BY <1>8 DEF CommandArrives, WaitsUndisturbed, worldVars, stationVars, missionVars,
                redVars, driveVars
  <2>2. 1 \in DOMAIN wire /\ c = wire[1]
    BY <1>1, <2>1
  <2>3. \A i \in DOMAIN wire' : i + 1 \in DOMAIN wire /\ wire'[i] = wire[i + 1]
    BY <1>1, <2>1
  <2> HIDE DEF c
  <2>4. Cleared'
    <3>1. clear_until' = 1 => seq' \in granted'
      <4>1. CASE c.cmd = "CLEARANCE" /\ Accepted(c)
        BY <2>1, <2>2, <4>1 DEF Cleared, Accepted
      <4>2. CASE ~(c.cmd = "CLEARANCE" /\ Accepted(c))
        BY <2>1, <4>2 DEF Cleared
      <4>3. QED BY <4>1, <4>2
    <3>2. QED BY <2>1, <2>3, <3>1 DEF Cleared
  <2>5. StandsBetween'
    BY <2>1, <2>2, <2>3 DEF StandsBetween, HoldsThePlan
  <2>6. fsm.state = "JUNCTION_STOP" /\ started /\ ~estop => started' /\ ~estop'
    BY <2>1 DEF Typed, TypeOK
  <2>7. QED BY <1>2, <2>1, <2>4, <2>5, <2>6
<1>9. ASSUME NEW view \in Views, NEW pace \in 0..1, ControlTick(view, pace)
      PROVE  /\ (pos <= Line /\ pos' > Line) => motion' = "maneuver" /\ Permitted
             /\ DriveInv'
  BY <1>9, TickDrives
<1>10. CASE UNCHANGED vars
  <2>1. UNCHANGED <<Kept, granted, wire, started, estop, clear_until>>
    BY <1>10 DEF vars, worldVars, stationVars, latchVars, missionVars, redVars, driveVars
  <2>2. Cleared' /\ StandsBetween'
    BY <2>1 DEF Cleared, StandsBetween, HoldsThePlan
  <2>3. QED BY <1>2, <2>1, <2>2
<1>11. QED BY <1>3, <1>4, <1>5, <1>6, <1>7, <1>8, <1>9, <1>10 DEF Next

LEMMA InitDrives == Init => DriveInv
<1> SUFFICES ASSUME Init PROVE DriveInv
  OBVIOUS
<1>1. Cleared /\ StandsBetween
  BY DEF Init, Cleared, StandsBetween, NoPlan
<1>2. ~HoldsThePlan
  BY DEF Init, HoldsThePlan, NoPlan
<1>3. QED BY <1>1, <1>2 DEF DriveInv, BeforeLine, OnManeuver, BehindIt

(* The types hold on every course. *)
THEOREM VisionTypeCorrect == Spec => []TypeOK
BY TypedAlways, PTL DEF Typed

LEMMA DrivesAlways ==
  ASSUME CourseLaidOut, WaitsUndisturbed
  PROVE  Spec => []DriveInv
<1>1. Typed /\ DriveInv /\ [Next]_vars => DriveInv'
  BY DriveKept
<1>2. QED BY <1>1, InitDrives, TypedAlways, PTL DEF Spec

(* Where the first red line is the junction's and no crosswalk lies in its way, *)
(* the robot stands as far beyond the line as it has driven of the manoeuvre,    *)
(* for any lengths and thresholds and whatever stops it (maneuver.py).           *)
THEOREM ManeuverIsTracked ==
  ASSUME CourseLaidOut, WaitsUndisturbed
  PROVE  Spec => []ManeuverTracksGround
<1>1. DriveInv => ManeuverTracksGround
  BY DEF DriveInv, OnManeuver, BehindIt, ManeuverTracksGround
<1>2. QED BY <1>1, DrivesAlways, PTL

(* On such a course the robot goes over the line on the manoeuvre only, and only *)
(* for a mission that was let through (drive_fsm.py:16-18, set_plan).            *)
THEOREM LineIsGuarded ==
  ASSUME CourseLaidOut, WaitsUndisturbed
  PROVE  Spec => EntersWithPermission
<1>1. Typed /\ DriveInv /\ [Next]_vars =>
        [(pos <= Line /\ pos' > Line) => motion' = "maneuver" /\ Permitted]_vars
  BY DriveKept
<1>2. QED BY <1>1, DrivesAlways, TypedAlways, PTL DEF Spec, EntersWithPermission

=============================================================================
