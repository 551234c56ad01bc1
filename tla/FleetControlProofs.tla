------------------------- MODULE FleetControlProofs -------------------------
(***************************************************************************)
(* The control plane lets no robot go against the operator's last words,   *)
(* for any number of robots, routes, presses, crashes and restarts, and    *)
(* whichever commands the topics lose.                                     *)
(***************************************************************************)
EXTENDS FleetControl, SequenceTheorems, WellFoundedInduction, TLAPS

Orders ==
    [cmd : {"START", "STOP", "ESTOP", "RESUME", "CLEARANCE"},
     seq : 0..MaxSeq, clear : 0..1]
FleetOrders == {None, "STOP", "CANCEL", "RESUME"}

----------------------------------------------------------------------------
(***************************************************************************)
(* One command after another.  Obeyed is computed along a sequence; what   *)
(* each command keeps, the sequence keeps.                                 *)
(***************************************************************************)
LEMMA LeastNumber ==
  ASSUME NEW S \in SUBSET Nat, S # {}
  PROVE  \E v \in S : \A u \in S : v <= u
<1>1. PICK v \in S : \A u \in S : <<u, v>> \notin OpToRel(<, Nat)
  BY WFMin, NatLessThanWellFounded
<1>2. \A u \in S : ~ (u < v)
  BY <1>1 DEF OpToRel
<1>3. QED BY <1>2

\* What g says of the agent b of r after each of the first n commands of q.
Follows(r, b, q, g, n) ==
    g = [m \in 0..n |-> IF m = 0 THEN b ELSE Obey(r, g[m - 1], q[m])]

LEMMA FollowsExists ==
  ASSUME NEW r, NEW b, NEW q, NEW N \in Nat
  PROVE  \E g : Follows(r, b, q, g, N)
<1> DEFINE Bad == {n \in Nat : ~\E g : Follows(r, b, q, g, n)}
<1>1. 0 \notin Bad
  <2> DEFINE g == [m \in 0..0 |-> b]
  <2>1. Follows(r, b, q, g, 0)
    BY DEF Follows
  <2>2. QED BY <2>1
<1>2. ASSUME NEW n \in Nat, n # 0, n - 1 \notin Bad
      PROVE  n \notin Bad
  <2>1. n - 1 \in Nat
    BY <1>2
  <2>2. PICK g : Follows(r, b, q, g, n - 1)
    BY <1>2, <2>1
  <2> DEFINE h == [m \in 0..n |-> IF m = n THEN Obey(r, g[n - 1], q[n]) ELSE g[m]]
             Next1(f) == [m \in 0..n |-> IF m = 0 THEN b ELSE Obey(r, f[m - 1], q[m])]
  <2>3. \A m \in 0..(n - 1) : g[m] = IF m = 0 THEN b ELSE Obey(r, g[m - 1], q[m])
    BY <2>2 DEF Follows
  <2>4. ASSUME NEW m \in 0..n
        PROVE  h[m] = IF m = 0 THEN b ELSE Obey(r, h[m - 1], q[m])
    <3>1. CASE m = 0
      BY <1>2, <2>3, <3>1
    <3>2. CASE m # 0
      <4>1. m - 1 \in 0..(n - 1) /\ m - 1 # n
        BY <3>2
      <4>2. h[m - 1] = g[m - 1]
        BY <4>1
      <4>3. CASE m = n
        BY <3>2, <4>2, <4>3
      <4>4. CASE m # n
        <5>1. m \in 0..(n - 1)
          BY <4>4
        <5>2. QED BY <2>3, <3>2, <4>2, <4>4, <5>1
      <4>5. QED BY <4>3, <4>4
    <3>3. QED BY <3>1, <3>2
  <2>5. h = Next1(h)
    BY <2>4
  <2>6. Follows(r, b, q, h, n)
    BY <2>5 DEF Follows
  <2>7. QED BY <2>6
<1>3. Bad = {}
  <2>1. SUFFICES ASSUME Bad # {} PROVE FALSE
    OBVIOUS
  <2>2. PICK v \in Bad : \A u \in Bad : v <= u
    BY <2>1, LeastNumber
  <2>3. v \in Nat /\ v # 0
    BY <1>1, <2>2
  <2>4. v - 1 \in Nat /\ ~(v <= v - 1)
    BY <2>3
  <2>5. QED BY <1>2, <2>2, <2>3, <2>4
<1>4. QED BY <1>3

LEMMA ObeyedFollows ==
  ASSUME NEW r, NEW b, NEW q, Len(q) \in Nat
  PROVE  \E g : /\ Obeyed(r, b, q) = g[Len(q)]
                /\ g[0] = b
                /\ \A n \in 1..Len(q) : g[n] = Obey(r, g[n - 1], q[n])
<1> DEFINE g == CHOOSE g : Follows(r, b, q, g, Len(q))
<1>1. Follows(r, b, q, g, Len(q))
  BY FollowsExists
<1>2. Obeyed(r, b, q) = g[Len(q)]
  BY DEF Obeyed, Follows
<1>3. \A n \in 0..Len(q) : g[n] = IF n = 0 THEN b ELSE Obey(r, g[n - 1], q[n])
  BY <1>1 DEF Follows
<1> HIDE DEF g
<1>4. g[0] = b
  BY <1>3
<1>5. \A n \in 1..Len(q) : g[n] = Obey(r, g[n - 1], q[n])
  BY <1>3
<1>6. QED BY <1>2, <1>4, <1>5

\* What every command of q keeps is kept by q; and the last command of q is obeyed last.
LEMMA ObeyedKeeps ==
  ASSUME NEW r, NEW S, NEW b \in S, NEW M, NEW q \in Seq(M),
         \A s \in S, m \in M : Obey(r, s, m) \in S
  PROVE  /\ Obeyed(r, b, q) \in S
         /\ q # <<>> => \E s \in S : Obeyed(r, b, q) = Obey(r, s, q[Len(q)])
<1>1. Len(q) \in Nat /\ \A n \in 1..Len(q) : q[n] \in M
  OBVIOUS
<1>2. PICK g : /\ Obeyed(r, b, q) = g[Len(q)]
               /\ g[0] = b
               /\ \A n \in 1..Len(q) : g[n] = Obey(r, g[n - 1], q[n])
  BY <1>1, ObeyedFollows
<1> DEFINE Out == {n \in 0..Len(q) : g[n] \notin S}
<1>3. Out = {}
  <2>1. SUFFICES ASSUME Out # {} PROVE FALSE
    OBVIOUS
  <2>2. Out \in SUBSET Nat
    BY <1>1
  <2>3. PICK v \in Out : \A u \in Out : v <= u
    BY <2>1, <2>2, LeastNumber
  <2>4. v \in 1..Len(q)
    BY <1>1, <1>2, <2>3
  <2>5. v - 1 \in 0..Len(q) /\ ~(v <= v - 1)
    BY <1>1, <2>4
  <2>6. g[v - 1] \in S
    BY <2>3, <2>5
  <2>7. QED BY <1>1, <1>2, <2>3, <2>4, <2>6
<1>4. g[Len(q)] \in S
  BY <1>1, <1>3
<1>5. ASSUME q # <<>>
      PROVE  \E s \in S : Obeyed(r, b, q) = Obey(r, s, q[Len(q)])
  <2>1. Len(q) \in 1..Len(q) /\ Len(q) - 1 \in 0..Len(q)
    BY <1>1, <1>5
  <2>2. g[Len(q) - 1] \in S
    BY <1>3, <2>1
  <2>3. QED BY <1>2, <2>1, <2>2
<1>6. QED BY <1>2, <1>4, <1>5

----------------------------------------------------------------------------
(***************************************************************************)
(* What commands do to an agent.                                           *)
(***************************************************************************)
Cruises(b) == StateOf(b) = "CRUISE"

LEMMA CruisesMeans ==
  ASSUME NEW b \in Agents
  PROVE  Cruises(b) <=> /\ ~b.estop /\ ~b.lost /\ b.started /\ b.seq # 0
                        /\ ~b.home /\ ~b.stopped /\ b.clear # 0
BY DEF Cruises, StateOf, Agents

\* a does not cruise unless b did, and an E-stop of b stands in a.
NoWorse(a, b) == (Cruises(a) => Cruises(b)) /\ (b.estop => a.estop)

\* The commands that release nobody.
Quiet(m) == m.cmd \in {"STOP", "ESTOP"} \/ (m.cmd = "CLEARANCE" /\ m.clear = 0)

LEMMA ObeyTyped ==
  ASSUME NEW r, NEW b \in Agents, NEW m \in Orders
  PROVE  Obey(r, b, m) \in Agents
<1>1. LaneObeys(b, m) \in Agents
  BY DEF LaneObeys, Agents, Orders
<1>2. ChainObeys(b, m) \in Agents
  BY ZenonT(40) DEF ChainObeys, Agents, Orders
<1>3. QED BY <1>1, <1>2 DEF Obey

LEMMA FleetObeysTyped ==
  ASSUME NEW r, NEW b \in Agents, NEW c \in FleetOrders
  PROVE  FleetObeys(r, b, c) \in Agents
BY NoValueAssumption DEF FleetObeys, Agents, FleetOrders

LEMMA QuietObeyed ==
  ASSUME NEW r, NEW b \in Agents, NEW m \in Orders, Quiet(m)
  PROVE  /\ NoWorse(Obey(r, b, m), b)
         /\ m.cmd = "STOP" => ~Cruises(Obey(r, b, m))
<1> DEFINE a == Obey(r, b, m)
<1>1. a \in Agents
  BY ObeyTyped
<1>2. /\ b.estop => a.estop
      /\ a.lost = b.lost /\ a.home = b.home /\ a.seq = b.seq
      /\ a.started => b.started
      /\ b.stopped => a.stopped
      /\ ~b.estop /\ m.cmd # "ESTOP" => ~a.estop
      /\ a.clear \in {b.clear, 0}
      /\ m.cmd = "STOP" => a.stopped \/ ~a.started
      /\ m.cmd = "ESTOP" => a.estop
  BY DEF Obey, LaneObeys, ChainObeys, Agents, Orders, Quiet
<1>3. a.estop \/ ~b.estop
  BY <1>2
<1> HIDE DEF a
<1>4. NoWorse(a, b) /\ (m.cmd = "STOP" => ~Cruises(a))
  BY <1>1, <1>2, <1>3, CruisesMeans DEF NoWorse
<1>5. QED BY <1>4 DEF a

LEMMA FleetStopObeyed ==
  ASSUME NEW r, NEW b \in Agents, NEW c \in FleetOrders, c # "RESUME"
  PROVE  /\ NoWorse(FleetObeys(r, b, c), b)
         /\ c # None => ~Cruises(FleetObeys(r, b, c))
         /\ c = None => FleetObeys(r, b, c) = b
<1> DEFINE a == FleetObeys(r, b, c)
<1>1. a \in Agents
  BY FleetObeysTyped
<1>2. /\ a.estop = b.estop /\ a.lost = b.lost /\ a.home = b.home /\ a.seq = b.seq
      /\ a.started => b.started
      /\ b.stopped => a.stopped
      /\ a.clear = b.clear
      /\ c # None => a.stopped \/ ~a.started
      /\ c = None => a = b
  BY NoValueAssumption DEF FleetObeys, Agents, FleetOrders
<1> HIDE DEF a
<1>3. NoWorse(a, b) /\ (c # None => ~Cruises(a)) /\ (c = None => a = b)
  BY <1>1, <1>2, CruisesMeans DEF NoWorse
<1>4. QED BY <1>3 DEF a

LEMMA NoWorseTransitive ==
  ASSUME NEW a, NEW b, NEW c, NoWorse(a, b), NoWorse(b, c)
  PROVE  NoWorse(a, c)
BY DEF NoWorse

\* Nothing q and c say releases the robot, or what they say last stops it.
QuietTo(q, c) == c # "RESUME" /\ \A n \in 1..Len(q) : Quiet(q[n])
EndsStopped(q, c) == c # "RESUME" /\ (q # <<>> => q[Len(q)].cmd = "STOP")

LEMMA ToldKeeps ==
  ASSUME NEW r \in Robots, bot[r] \in Agents, NEW q \in Seq(Orders),
         NEW c \in FleetOrders, NEW a \in Told(r, q, c)
  PROVE  /\ a \in Agents
         /\ QuietTo(q, c) => NoWorse(a, bot[r])
         /\ EndsStopped(q, c) => (Cruises(a) => Cruises(bot[r]))
<1> DEFINE b == bot[r]
           d == FleetObeys(r, b, c)
<1>1. d \in Agents
  BY FleetObeysTyped
<1>2. \A s \in Agents : Obeyed(r, s, q) \in Agents
                     /\ (q # <<>> => \E x \in Agents : Obeyed(r, s, q) = Obey(r, x, q[Len(q)]))
  BY ObeyTyped, ObeyedKeeps, ZenonT(40)
<1>3. \A s \in Agents : q = <<>> => Obeyed(r, s, q) = s
  <2>1. Len(<<>>) = 0 /\ 0 \in Nat
    OBVIOUS
  <2>2. QED BY <2>1, ObeyedFollows
<1>4. a = Obeyed(r, d, q) \/ (c # None /\ a = FleetObeys(r, Obeyed(r, b, q), c))
  BY DEF Told
<1>5. a \in Agents
  BY <1>1, <1>2, <1>4, FleetObeysTyped
<1>6. ASSUME QuietTo(q, c)
      PROVE  NoWorse(a, b)
  <2> DEFINE S == {s \in Agents : NoWorse(s, b)}
             M == {m \in Orders : Quiet(m)}
  <2>1. q \in Seq(M)
    BY <1>6 DEF QuietTo
  <2>2. b \in S
    BY DEF NoWorse
  <2>3. d \in S
    BY <1>1, <1>6, FleetStopObeyed DEF QuietTo
  <2>4. \A s \in S, m \in M : Obey(r, s, m) \in S
    BY ObeyTyped, QuietObeyed, NoWorseTransitive
  <2> HIDE DEF M
  <2>5. \A s \in S : Obeyed(r, s, q) \in S
    BY <2>1, <2>4, ObeyedKeeps
  <2>6. \A s \in S : NoWorse(FleetObeys(r, s, c), b)
    BY <1>6, FleetStopObeyed, NoWorseTransitive DEF QuietTo
  <2>7. QED BY <1>4, <2>2, <2>3, <2>5, <2>6
<1>7. ASSUME EndsStopped(q, c), Cruises(a)
      PROVE  Cruises(b)
  <2>1. CASE c # None /\ a = FleetObeys(r, Obeyed(r, b, q), c)
    BY <1>2, <1>7, <2>1, FleetStopObeyed DEF EndsStopped
  <2>2. CASE a = Obeyed(r, d, q) /\ q # <<>>
    <3>1. PICK x \in Agents : a = Obey(r, x, q[Len(q)])
      BY <1>1, <1>2, <2>2
    <3>2. q[Len(q)] \in Orders /\ q[Len(q)].cmd = "STOP"
      <4>1. Len(q) \in 1..Len(q)
        BY <2>2
      <4>2. QED BY <1>7, <2>2, <4>1 DEF EndsStopped
    <3>3. QED BY <1>7, <3>1, <3>2, QuietObeyed DEF Quiet
  <2>3. CASE a = Obeyed(r, d, q) /\ q = <<>>
    <3>1. a = d
      BY <1>1, <1>3, <2>3
    <3>2. QED BY <1>7, <3>1, FleetStopObeyed DEF EndsStopped, NoWorse
  <2>4. QED BY <1>4, <2>1, <2>2, <2>3
<1>8. QED BY <1>5, <1>6, <1>7

\* What is lost is a beginning of the one topic, or the other's command.
LEMMA HeardKeeps ==
  ASSUME NEW r \in Robots, bot[r] \in Agents, NEW q \in Seq(Orders),
         NEW c \in FleetOrders, NEW a \in Heard(r, q, c)
  PROVE  /\ a \in Agents
         /\ QuietTo(q, c) => NoWorse(a, bot[r])
         /\ EndsStopped(q, c) => (Cruises(a) => Cruises(bot[r]))
<1>1. PICK k \in 1..(Len(q) + 1), d \in {None, c} : a \in Told(r, SubSeq(q, k, Len(q)), d)
  BY DEF Heard
<1> DEFINE t == SubSeq(q, k, Len(q))
<1>2. Len(q) \in Nat /\ \A n \in 1..Len(q) : q[n] \in Orders
  OBVIOUS
<1>3. /\ t \in Seq(Orders)
      /\ Len(t) = IF k <= Len(q) THEN Len(q) - k + 1 ELSE 0
      /\ \A n \in 1..(Len(q) - k + 1) : t[n] = q[k + n - 1]
  BY <1>2, SubSeqProperties
<1>4. d \in FleetOrders /\ (c # "RESUME" => d # "RESUME")
  BY NoValueAssumption DEF FleetOrders
<1> HIDE DEF t
<1>5. QuietTo(q, c) => QuietTo(t, d)
  <2> SUFFICES ASSUME QuietTo(q, c), NEW n \in 1..Len(t)
               PROVE  Quiet(t[n])
    BY <1>4 DEF QuietTo
  <2>1. n \in 1..(Len(q) - k + 1) /\ k + n - 1 \in 1..Len(q)
    BY <1>2, <1>3
  <2>2. QED BY <1>3, <2>1 DEF QuietTo
<1>6. EndsStopped(q, c) => EndsStopped(t, d)
  <2> SUFFICES ASSUME EndsStopped(q, c), t # <<>>
               PROVE  t[Len(t)].cmd = "STOP"
    BY <1>4 DEF EndsStopped
  <2>1. Len(t) # 0
    BY <1>3
  <2>2. /\ Len(t) \in 1..(Len(q) - k + 1) /\ k + Len(t) - 1 = Len(q) /\ Len(q) # 0
    BY <1>2, <1>3, <2>1
  <2>3. q # <<>>
    BY <2>2
  <2>4. QED BY <1>3, <2>2, <2>3 DEF EndsStopped
<1>7. a \in Told(r, t, d)
  BY <1>1 DEF t
<1>8. QED BY <1>3, <1>4, <1>5, <1>6, <1>7, ToldKeeps

LEMMA PublishKeeps ==
  ASSUME bot \in [Robots -> Agents], NEW l \in [Robots -> Seq(Orders)],
         NEW c \in [Robots -> FleetOrders], Publish(l, c)
  PROVE  /\ bot' \in [Robots -> Agents]
         /\ \A r \in Robots : QuietTo(l[r], c[r]) => NoWorse(bot'[r], bot[r])
         /\ \A r \in Robots : EndsStopped(l[r], c[r]) => (Cruises(bot'[r]) => Cruises(bot[r]))
<1>1. \A r \in Robots : l[r] \in Seq(Orders) /\ c[r] \in FleetOrders /\ bot[r] \in Agents
  OBVIOUS
<1>2. \E S : bot' \in [Robots -> S] /\ \A r \in Robots : bot'[r] \in Heard(r, l[r], c[r])
  BY DEF Publish, PublishTo
<1>3. \A r \in Robots :
         /\ bot'[r] \in Agents
         /\ QuietTo(l[r], c[r]) => NoWorse(bot'[r], bot[r])
         /\ EndsStopped(l[r], c[r]) => (Cruises(bot'[r]) => Cruises(bot[r]))
  BY <1>1, <1>2, HeardKeeps
<1>4. bot' \in [Robots -> Agents]
  BY <1>2, <1>3
<1>5. QED BY <1>3, <1>4

----------------------------------------------------------------------------
(***************************************************************************)
(* Types.                                                                  *)
(***************************************************************************)
LEMMA OrdersTyped ==
  ASSUME NEW s \in 0..MaxSeq, NEW n \in 0..1
  PROVE  /\ \A c \in {"START", "STOP", "ESTOP", "RESUME"} : Lane(c, s) \in Orders
         /\ Clearance(s, n) \in Orders /\ Lane("ESTOP", 0) \in Orders
BY ControlAssumption DEF Lane, Clearance, Orders

LEMMA SnapshotTyped ==
  ASSUME NEW f \in Fleets, NEW x \in [Robots -> Contexts]
  PROVE  Snapshot(f, x) \in Snapshots
<1>1. \A r \in Robots : x[r] \in Contexts
  OBVIOUS
<1>2. \A r \in Robots :
        (IF ~x[r].held THEN "none" ELSE IF x[r].reason = "none" THEN "operator" ELSE x[r].reason)
          \in HeldReasons
  BY <1>1 DEF Contexts, HeldReasons
<1>3. QED BY <1>2 DEF Snapshot, Snapshots, Fleets, Missions

LEMMA SavedTyped ==
  ASSUME NEW f \in Fleets, NEW x \in [Robots -> Contexts]
  PROVE  Saved(f, x) \in Snapshots \cup {None}
BY SnapshotTyped DEF Saved

LEMMA NewTyped ==
  /\ NewContext \in Contexts /\ NewFleet \in Fleets /\ NewAgent \in Agents
  /\ ~NewFleet.latched /\ NewFleet.mission = "IDLE"
BY ControlAssumption DEF NewContext, NewFleet, NewAgent, NoReport, Contexts, Fleets, Agents,
   Reports, DriveStates, HeldReasons, Missions

\* What stays of a robot's context: whether it is held, and why.
SameHold(y, x) == y.held = x.held /\ y.reason = x.reason

LEMMA ArmedTyped ==
  ASSUME NEW x \in Contexts
  PROVE  /\ Armed(x) \in Contexts /\ SameHold(Armed(x), x)
         /\ Armed(x).routed = x.routed /\ Armed(x).resuming = x.resuming
<1>1. StartRetries \in 0..StartRetries
  BY ControlAssumption
<1>2. \A y \in Contexts : [y EXCEPT !.armed = TRUE, !.retries = StartRetries] \in Contexts
  BY <1>1, ZenonT(60) DEF Contexts
<1>3. \A y \in Contexts : [y EXCEPT !.acked = FALSE, !.gaveUp = FALSE] \in Contexts
  BY ZenonT(60) DEF Contexts
<1> DEFINE y == [x EXCEPT !.acked = FALSE, !.gaveUp = FALSE]
<1>4. Armed(x) = [y EXCEPT !.armed = TRUE, !.retries = StartRetries]
  BY DEF Armed, Contexts
<1>5. Armed(x) \in Contexts
  BY <1>2, <1>3, <1>4
<1>6. SameHold(Armed(x), x) /\ Armed(x).routed = x.routed /\ Armed(x).resuming = x.resuming
  BY DEF Armed, Contexts, SameHold
<1>7. QED BY <1>5, <1>6

LEMMA ClearTyped ==
  ASSUME NEW x \in Contexts, NEW n \in 0..1
  PROVE  [x EXCEPT !.clear = n] \in Contexts
BY DEF Contexts

LEMMA AssignedTyped ==
  ASSUME NEW x \in Contexts, NEW s \in 0..MaxSeq
  PROVE  Assigned(x, s) \in Contexts /\ SameHold(Assigned(x, s), x)
<1>1. 0 \in 0..StartRetries /\ 0 \in 0..1
  BY ControlAssumption
<1> DEFINE A(y) == [y EXCEPT !.seq = s]
           B(y) == [y EXCEPT !.routed = TRUE]
           C(y) == [y EXCEPT !.arrived = FALSE]
           D(y) == [y EXCEPT !.confirmed = FALSE]
           E(y) == [y EXCEPT !.acked = FALSE]
           F(y) == [y EXCEPT !.armed = FALSE]
           G(y) == [y EXCEPT !.gaveUp = FALSE]
           H(y) == [y EXCEPT !.retries = 0]
           I(y) == [y EXCEPT !.clear = 0]
<1>2. \A y \in Contexts : A(y) \in Contexts /\ B(y) \in Contexts
  BY ZenonT(60) DEF Contexts
<1>3. \A y \in Contexts : C(y) \in Contexts /\ D(y) \in Contexts
  BY ZenonT(60) DEF Contexts
<1>4. \A y \in Contexts : E(y) \in Contexts
  BY ZenonT(60) DEF Contexts
<1>5. \A y \in Contexts : F(y) \in Contexts
  BY ZenonT(60) DEF Contexts
<1>6. \A y \in Contexts : G(y) \in Contexts
  BY ZenonT(60) DEF Contexts
<1>7. \A y \in Contexts : H(y) \in Contexts
  BY <1>1 DEF Contexts
<1>8. \A y \in Contexts : I(y) \in Contexts
  BY <1>1, ClearTyped
<1>9. Assigned(x, s) = H(G(F(E(D(C(B(I(A(x)))))))))
  BY DEF Assigned, Contexts
<1> HIDE DEF A, B, C, D, E, F, G, H, I
<1>10. Assigned(x, s) \in Contexts
  BY <1>2, <1>3, <1>4, <1>5, <1>6, <1>7, <1>8, <1>9
<1>11. SameHold(Assigned(x, s), x)
  BY DEF Assigned, Contexts, SameHold
<1>12. QED BY <1>10, <1>11

LEMMA RearmedTyped ==
  ASSUME NEW r, NEW x \in Contexts, NEW f
  PROVE  Rearmed(r, x, f) \in Contexts /\ SameHold(Rearmed(r, x, f), x)
<1>1. [x EXCEPT !.toStart = FALSE] \in Contexts /\ SameHold([x EXCEPT !.toStart = FALSE], x)
  BY DEF Contexts, SameHold
<1>2. QED BY <1>1, ArmedTyped DEF Rearmed, SameHold

LEMMA ReportTyped ==
  ASSUME NEW b \in Agents
  PROVE  StatusOf(b) \in Reports
BY DEF StatusOf, StateOf, Reports, DriveStates, Agents

LEMMA StateTyped ==
  ASSUME NEW b \in Agents
  PROVE  b.seq \in 0..MaxSeq /\ b.lost \in BOOLEAN
BY DEF Agents

LEMMA StoppedTyped ==
  ASSUME fl \in Fleets
  PROVE  /\ Stopped \in Fleets /\ Stopped.mission = "STOPPED" /\ Stopped.latched = fl.latched
         /\ Estopped \in Fleets /\ Estopped.mission = "ESTOP" /\ Estopped.latched
BY DEF Stopped, Estopped, Fleets, Missions

LEMMA ResumedTyped ==
  ResumedMission \in Missions \ {"ESTOP", "STOPPED"}
BY DEF ResumedMission, Missions

LEMMA DoneTyped ==
  ASSUME NEW f \in Fleets, NEW x
  PROVE  /\ Done(f, x) \in Fleets /\ Done(f, x).latched = f.latched
         /\ Done(f, x).mission = f.mission
              \/ (f.mission = "RUNNING" /\ Done(f, x).mission = "DONE")
         /\ f.mission # "RUNNING" => Done(f, x) = f
BY DEF Done, Fleets, Missions

LEMMA RestoredTyped ==
  ASSUME NEW f \in Fleets, file \in Snapshots \cup {None, Corrupt}
  PROVE  Restored(f) \in Fleets
<1>1. CASE file = None
  BY <1>1, NoValueAssumption DEF Restored
<1>2. CASE file = Corrupt
  BY <1>2, NoValueAssumption DEF Restored, Fleets, Missions
<1>3. CASE file \notin {None, Corrupt}
  <2>1. file \in Snapshots
    BY <1>3
  <2>2. file.mission # None => file.mission \in {"STOPPED", "DONE"}
    BY <2>1 DEF Snapshots
  <2>3. file.latched \in BOOLEAN
    BY <2>1 DEF Snapshots
  <2> DEFINE keep == {"STOPPED", "DONE"}
             preStop == IF file.preStop = "DONE" THEN "DONE" ELSE None
             latched == [mission |-> "ESTOP", latched |-> TRUE, authority |-> TRUE,
                         preEstop |-> IF file.preEstop \in keep THEN file.preEstop ELSE None,
                         preStop |-> preStop]
             saved == [f EXCEPT !.mission = file.mission, !.preStop = preStop]
  <2>4. Restored(f) = IF file.latched THEN latched
                      ELSE IF file.mission # None THEN saved ELSE f
    BY <1>3, <2>3 DEF Restored
  <2>5. latched \in Fleets
    BY DEF Fleets, Missions
  <2>6. file.mission # None => saved \in Fleets
    BY <2>2 DEF Fleets, Missions
  <2>7. QED BY <2>4, <2>5, <2>6
<1>4. QED BY <1>1, <1>2, <1>3

----------------------------------------------------------------------------
(***************************************************************************)
(* The invariant.                                                          *)
(***************************************************************************)
\* An emergency stop that memory and file must know of: one that was saved before the
\* process could die.
Latching(w) == w = "estop" /\ ~DiesInEstop

\* The file tells a coordinator that starts again of every word that stops.
Filed ==
    /\ \A r \in kept : file \notin {None, Corrupt} /\ file.held[r] # "none"
    /\ word = "stop" =>
          file # None /\ (file # Corrupt => file.latched \/ file.mission = "STOPPED")
    /\ Latching(word) => file # None /\ (file # Corrupt => file.latched)

\* What runs stands by the operator's last words.
Obedient ==
    up => /\ file # Corrupt
          /\ fl.latched <=> fl.mission = "ESTOP"
          /\ \A r \in kept : ctx[r].held
          /\ Latching(word) => fl.latched
          /\ word = "stop" => fl.mission \in {"STOPPED", "ESTOP"}
          /\ fl.mission = "RUNNING" => word = "go"

Inv == TypeOK /\ Filed /\ Obedient

\* The operator's own RESUME of this robot, as it is pressed or while it is repeated.
ByHand(r) == ctx[r].resuming \/ ctx'[r].resuming

\* What NeverReleased says of a robot; where the process may die in the emergency stop,
\* the operator's RESUME may release it as well.
Allowed(r) ==
    bot'[r] # bot[r] =>
      /\ Moves(r)' => \/ Moves(r) \/ MayGo(r)
                      \/ r \notin kept' /\ DiesInEstop /\ ByHand(r)
      /\ bot[r].estop /\ ~bot'[r].estop /\ bot'[r] # NewAgent =>
             r \notin kept' /\ (word' # "estop" \/ (DiesInEstop /\ ByHand(r)))

Keeps == Inv' /\ \A r \in Robots : Allowed(r)

LEMMA NoWorseAllowed ==
  ASSUME NEW r, NoWorse(bot'[r], bot[r])
  PROVE  Allowed(r)
BY DEF Allowed, NoWorse, Cruises, Moves

LEMMA StartedAllowed ==
  ASSUME NEW r, r \notin kept', word' = "go"
  PROVE  Allowed(r)
BY DEF Allowed, MayGo

LEMMA ByHandAllowed ==
  ASSUME NEW r, r \notin kept', DiesInEstop, ByHand(r)
  PROVE  Allowed(r)
BY DEF Allowed

LEMMA SameAllowed ==
  ASSUME bot' = bot
  PROVE  \A r \in Robots : Allowed(r)
BY DEF Allowed

LEMMA SnapshotSays ==
  ASSUME NEW f \in Fleets, NEW x \in [Robots -> Contexts]
  PROVE  /\ Snapshot(f, x).latched <=> f.latched \/ f.mission = "ESTOP"
         /\ f.mission = "STOPPED" => Snapshot(f, x).mission = "STOPPED"
         /\ \A r \in Robots : x[r].held => Snapshot(f, x).held[r] # "none"
BY DEF Snapshot

LEMMA FiledBy ==
  ASSUME kept' \subseteq Robots, NEW f \in Fleets, NEW x \in [Robots -> Contexts],
         file' = Saved(f, x),
         \A r \in kept' : x[r].held,
         word' = "stop" => f.mission \in {"STOPPED", "ESTOP"},
         Latching(word') => f.latched
  PROVE  Filed' /\ file' # Corrupt /\ file' \in Snapshots \cup {None, Corrupt}
<1>1. PICK s \in Snapshots : s = Snapshot(f, x)
  BY SnapshotTyped
<1>2. s \notin {None, Corrupt}
  BY NoValueAssumption
<1>3. file' = s \/ (file' = None /\ s = NothingToSave)
  BY <1>1 DEF Saved
<1>4. /\ s.latched <=> f.latched \/ f.mission = "ESTOP"
      /\ f.mission = "STOPPED" => s.mission = "STOPPED"
      /\ \A r \in Robots : x[r].held => s.held[r] # "none"
  BY <1>1, SnapshotSays
<1>5. \A r \in kept' : s.held[r] # "none"
  BY <1>4
<1>6. /\ word' = "stop" => s.latched \/ s.mission = "STOPPED"
      /\ Latching(word') => s.latched
  BY <1>4
<1>7. CASE file' = s
  BY <1>2, <1>5, <1>6, <1>7 DEF Filed
<1>8. CASE file' = None /\ s = NothingToSave
  <2>1. /\ ~s.latched /\ s.mission = None
        /\ \A r \in Robots : s.held[r] = "none"
    BY <1>8 DEF NothingToSave
  <2>2. None # "STOPPED"
    BY NoValueAssumption DEF Missions
  <2>3. kept' = {} /\ word' # "stop" /\ ~Latching(word')
    BY <1>5, <1>6, <2>1, <2>2
  <2>4. QED BY <1>8, <2>3, NoValueAssumption DEF Filed
<1>9. QED BY <1>3, <1>7, <1>8

LEMMA Recorded ==
  ASSUME kept' \subseteq Robots, fl' \in Fleets, ctx' \in [Robots -> Contexts],
         file' = Saved(fl', ctx'),
         fl'.latched <=> fl'.mission = "ESTOP",
         \A r \in kept' : ctx'[r].held,
         word' = "stop" => fl'.mission \in {"STOPPED", "ESTOP"},
         Latching(word') => fl'.latched,
         fl'.mission = "RUNNING" => word' = "go"
  PROVE  Filed' /\ Obedient' /\ file' \in Snapshots \cup {None, Corrupt}
BY FiledBy DEF Obedient

----------------------------------------------------------------------------
(***************************************************************************)
(* The operator's orders.                                                  *)
(***************************************************************************)
LEMMA NoCommandTyped ==
  /\ NoCommand \in [Robots -> FleetOrders]
  /\ \A r \in Robots : NoCommand[r] = None
  /\ None # "RESUME"
BY NoValueAssumption DEF NoCommand, FleetOrders

LEMMA ContextTyped ==
  ASSUME TypeOK, NEW r \in Robots
  PROVE  /\ ctx[r] \in Contexts /\ ctx[r].seq \in 0..MaxSeq /\ ctx[r].clear \in 0..1
         /\ ctx[r].held \in BOOLEAN /\ ctx[r].routed \in BOOLEAN
BY DEF TypeOK, Contexts

LEMMA HoldTyped ==
  ASSUME TypeOK, NEW r \in Robots
  PROVE  /\ Hold(r) \in Orders /\ Quiet(Hold(r)) /\ Hold(r).cmd = "STOP"
         /\ <<Hold(r)>> \in Seq(Orders)
<1>1. Hold(r) \in Orders
  BY ContextTyped, OrdersTyped DEF Hold
<1>2. Hold(r).cmd = "STOP"
  BY DEF Hold, Lane
<1>3. QED BY <1>1, <1>2 DEF Quiet

LEMMA EstopOrderTyped ==
  ASSUME NEW s \in 0..MaxSeq
  PROVE  /\ Lane("ESTOP", s) \in Orders /\ Quiet(Lane("ESTOP", s))
         /\ <<Lane("ESTOP", s)>> \in Seq(Orders)
<1>1. Lane("ESTOP", s) \in Orders
  BY OrdersTyped DEF Orders
<1>2. Lane("ESTOP", s).cmd = "ESTOP"
  BY DEF Lane
<1>3. QED BY <1>1, <1>2 DEF Quiet

LEMMA StartFleetKeeps ==
  ASSUME Inv, StartFleet
  PROVE  Keeps
<1> USE DEF Inv
<1> DEFINE f == [fl EXCEPT !.mission = "RUNNING"]
           x == [r \in Robots |-> IF Routed(r) THEN Armed(ctx[r]) ELSE ctx[r]]
           l == [r \in Robots |-> IF Routed(r) /\ ~ctx[r].held
                                  THEN <<Lane("START", ctx[r].seq)>> ELSE <<>>]
           c == [r \in Robots |-> IF ~Routed(r) /\ ~ctx[r].held /\ Nav(r)
                                  THEN "RESUME" ELSE None]
<1>1. /\ fl' = f /\ ctx' = x /\ file' = Saved(f, x) /\ Publish(l, c)
      /\ up /\ ~fl.latched /\ word' = "go" /\ kept' = kept
      /\ UNCHANGED <<up, route, rep, faults>> /\ presses' = presses + 1
      /\ presses < MaxPresses
  BY DEF StartFleet, Press, wires
<1>2. f \in Fleets /\ ~f.latched /\ f.mission = "RUNNING"
  BY <1>1 DEF TypeOK, Fleets, Missions
<1>3. x \in [Robots -> Contexts] /\ \A r \in Robots : SameHold(x[r], ctx[r])
  BY ContextTyped, ArmedTyped DEF SameHold
<1>4. l \in [Robots -> Seq(Orders)]
  <2>1. \A r \in Robots : Lane("START", ctx[r].seq) \in Orders
    BY ContextTyped, OrdersTyped
  <2>2. QED BY <2>1
<1>5. c \in [Robots -> FleetOrders]
  BY DEF FleetOrders
<1>6. bot' \in [Robots -> Agents]
      /\ \A r \in Robots : QuietTo(l[r], c[r]) => NoWorse(bot'[r], bot[r])
  BY <1>1, <1>4, <1>5, PublishKeeps DEF TypeOK
<1>7. ASSUME NEW r \in Robots PROVE Allowed(r)
  <2>1. CASE r \in kept
    <3>1. ctx[r].held
      BY <1>1, <2>1 DEF Obedient
    <3>2. l[r] = <<>> /\ c[r] = None
      BY <3>1
    <3> HIDE DEF l, c
    <3>3. QuietTo(l[r], c[r])
      BY <3>2, NoCommandTyped DEF QuietTo
    <3>4. QED BY <1>6, <3>3, NoWorseAllowed
  <2>2. CASE r \notin kept
    BY <1>1, <2>2, StartedAllowed
  <2>3. QED BY <2>1, <2>2
<1> HIDE DEF f, x, l, c
<1>8. \A r \in kept' : x[r].held
  BY <1>1, <1>3 DEF Obedient, SameHold, TypeOK
<1>9. Filed' /\ file' # Corrupt /\ file' \in Snapshots \cup {None, Corrupt}
  BY <1>1, <1>2, <1>3, <1>8, FiledBy DEF TypeOK, Latching
<1>10. TypeOK'
  BY <1>1, <1>2, <1>3, <1>6, <1>9, ControlAssumption DEF TypeOK
<1>11. Obedient'
  BY <1>1, <1>2, <1>8, <1>9 DEF Obedient, Latching
<1>12. QED BY <1>7, <1>9, <1>10, <1>11 DEF Keeps

LEMMA QuietOne ==
  ASSUME NEW c \in FleetOrders, c # "RESUME"
  PROVE  /\ QuietTo(<<>>, c)
         /\ \A m \in Orders : Quiet(m) => QuietTo(<<m>>, c)
BY DEF QuietTo

LEMMA StopFleetKeeps ==
  ASSUME Inv, StopFleet
  PROVE  Keeps
<1> USE DEF Inv
<1> DEFINE l == [r \in Robots |-> IF Routed(r) THEN <<Hold(r)>> ELSE <<>>]
<1>1. /\ fl' = Stopped /\ file' = Saved(Stopped, ctx) /\ Publish(l, NoCommand)
      /\ up /\ ~fl.latched /\ word' = "stop"
      /\ UNCHANGED <<up, route, rep, ctx, kept, faults>> /\ presses' = presses + 1
      /\ presses < MaxPresses
  BY DEF StopFleet, Press, wires
<1>2. fl' \in Fleets /\ fl'.mission = "STOPPED" /\ ~fl'.latched
  BY <1>1, StoppedTyped DEF TypeOK
<1>3. l \in [Robots -> Seq(Orders)]
  BY HoldTyped
<1>4. \A r \in Robots : QuietTo(l[r], NoCommand[r])
  BY HoldTyped, QuietOne, NoCommandTyped
<1> HIDE DEF l
<1>5. bot' \in [Robots -> Agents] /\ \A r \in Robots : NoWorse(bot'[r], bot[r])
  BY <1>1, <1>3, <1>4, NoCommandTyped, PublishKeeps DEF TypeOK
<1>6. \A r \in Robots : Allowed(r)
  BY <1>5, NoWorseAllowed
<1>7. \A r \in kept' : ctx'[r].held
  BY <1>1 DEF Obedient
<1>8. Filed' /\ Obedient' /\ file' \in Snapshots \cup {None, Corrupt}
  BY <1>1, <1>2, <1>7, Recorded DEF TypeOK, Latching
<1>9. TypeOK'
  BY <1>1, <1>2, <1>5, <1>8, ControlAssumption DEF TypeOK
<1>10. QED BY <1>6, <1>8, <1>9 DEF Keeps

LEMMA EstopAllKeeps ==
  ASSUME TypeOK, EstopAll
  PROVE  bot' \in [Robots -> Agents] /\ \A r \in Robots : NoWorse(bot'[r], bot[r])
<1> DEFINE l == [r \in Robots |-> <<Lane("ESTOP", 0)>>]
<1>1. 0 \in 0..MaxSeq
  BY ControlAssumption
<1>2. l \in [Robots -> Seq(Orders)]
  BY <1>1, EstopOrderTyped
<1>3. \A r \in Robots : QuietTo(l[r], NoCommand[r])
  BY <1>1, EstopOrderTyped, QuietOne, NoCommandTyped
<1>4. Publish(l, NoCommand)
  BY DEF EstopAll
<1> HIDE DEF l
<1>5. QED BY <1>2, <1>3, <1>4, NoCommandTyped, PublishKeeps DEF TypeOK

LEMMA EstopFleetKeeps ==
  ASSUME Inv, EstopFleet
  PROVE  Keeps
<1> USE DEF Inv
<1>1. /\ fl' = Estopped /\ file' = Saved(Estopped, ctx) /\ EstopAll
      /\ up /\ word' = "estop"
      /\ UNCHANGED <<up, route, rep, ctx, kept, faults>> /\ presses' = presses + 1
      /\ presses < MaxPresses
  BY DEF EstopFleet, Press, wires
<1>2. fl' \in Fleets /\ fl'.mission = "ESTOP" /\ fl'.latched
  BY <1>1, StoppedTyped DEF TypeOK
<1>3. bot' \in [Robots -> Agents] /\ \A r \in Robots : NoWorse(bot'[r], bot[r])
  BY <1>1, EstopAllKeeps
<1>4. \A r \in Robots : Allowed(r)
  BY <1>3, NoWorseAllowed
<1>5. \A r \in kept' : ctx'[r].held
  BY <1>1 DEF Obedient
<1>6. Filed' /\ Obedient' /\ file' \in Snapshots \cup {None, Corrupt}
  BY <1>1, <1>2, <1>5, Recorded DEF TypeOK
<1>7. TypeOK'
  BY <1>1, <1>2, <1>3, <1>6, ControlAssumption DEF TypeOK
<1>8. QED BY <1>4, <1>6, <1>7 DEF Keeps

LEMMA ResumeFleetKeeps ==
  ASSUME Inv, ResumeFleet
  PROVE  Keeps
<1> USE DEF Inv
<1> DEFINE f == [mission |-> ResumedMission, latched |-> FALSE, authority |-> TRUE,
                 preEstop |-> None, preStop |-> None]
           again == {r \in Robots : /\ f.mission = "RUNNING" /\ Routed(r)
                                    /\ ~ctx[r].held /\ ~ctx[r].arrived}
           x == [r \in Robots |-> IF r \in again THEN Armed(ctx[r]) ELSE ctx[r]]
           l == [r \in Robots |-> IF ctx[r].held THEN <<>>
                                  ELSE <<Lane("RESUME", ctx[r].seq)>>]
<1>1. /\ fl' = f /\ file' = Saved(f, ctx) /\ ctx' = x /\ Publish(l, NoCommand)
      /\ up /\ word' = "go"
      /\ UNCHANGED <<up, route, rep, kept, faults>> /\ presses' = presses + 1
      /\ presses < MaxPresses
  BY DEF ResumeFleet, Press, wires
<1>2. f \in Fleets /\ ~f.latched /\ f.mission # "ESTOP"
  BY ResumedTyped DEF Fleets
<1>3. x \in [Robots -> Contexts] /\ \A r \in Robots : SameHold(x[r], ctx[r])
  BY ContextTyped, ArmedTyped DEF SameHold
<1>4. l \in [Robots -> Seq(Orders)]
  <2>1. \A r \in Robots : Lane("RESUME", ctx[r].seq) \in Orders
    BY ContextTyped, OrdersTyped
  <2>2. QED BY <2>1
<1>5. bot' \in [Robots -> Agents]
      /\ \A r \in Robots : QuietTo(l[r], None) => NoWorse(bot'[r], bot[r])
  BY <1>1, <1>4, NoCommandTyped, PublishKeeps DEF TypeOK
<1>6. ASSUME NEW r \in Robots PROVE Allowed(r)
  <2>1. CASE r \in kept
    <3>1. ctx[r].held
      BY <1>1, <2>1 DEF Obedient
    <3>2. l[r] = <<>>
      BY <3>1
    <3> HIDE DEF l
    <3>3. QuietTo(l[r], None)
      BY <3>2, NoCommandTyped DEF QuietTo
    <3>4. QED BY <1>5, <3>3, NoWorseAllowed
  <2>2. CASE r \notin kept
    BY <1>1, <2>2, StartedAllowed
  <2>3. QED BY <2>1, <2>2
<1> HIDE DEF f, x, l
<1>7. \A r \in kept' : ctx[r].held /\ x[r].held
  BY <1>1, <1>3 DEF Obedient, SameHold, TypeOK
<1>8. Filed' /\ file' # Corrupt /\ file' \in Snapshots \cup {None, Corrupt}
  BY <1>1, <1>2, <1>7, FiledBy DEF TypeOK, Latching
<1>9. TypeOK'
  BY <1>1, <1>2, <1>3, <1>5, <1>8, ControlAssumption DEF TypeOK
<1>10. Obedient'
  BY <1>1, <1>2, <1>7, <1>8 DEF Obedient, Latching
<1>11. QED BY <1>6, <1>8, <1>9, <1>10 DEF Keeps

LEMMA OnlyOne ==
  ASSUME NEW r \in Robots, NEW q \in Seq(Orders), NEW c \in FleetOrders
  PROVE  /\ Only(r, q) \in [Robots -> Seq(Orders)] /\ Only(r, q)[r] = q
         /\ OnlyCommand(r, c) \in [Robots -> FleetOrders] /\ OnlyCommand(r, c)[r] = c
         /\ \A o \in Robots \ {r} : QuietTo(Only(r, q)[o], OnlyCommand(r, c)[o])
<1>1. Silent \in [Robots -> Seq(Orders)] /\ \A o \in Robots : Silent[o] = <<>>
  BY DEF Silent
<1>2. Only(r, q) \in [Robots -> Seq(Orders)] /\ Only(r, q)[r] = q
      /\ \A o \in Robots \ {r} : Only(r, q)[o] = <<>>
  BY <1>1 DEF Only
<1>3. OnlyCommand(r, c) \in [Robots -> FleetOrders] /\ OnlyCommand(r, c)[r] = c
      /\ \A o \in Robots \ {r} : OnlyCommand(r, c)[o] = None
  BY NoCommandTyped DEF OnlyCommand
<1>4. \A o \in Robots \ {r} : QuietTo(Only(r, q)[o], OnlyCommand(r, c)[o])
  BY <1>2, <1>3, NoCommandTyped, QuietOne DEF FleetOrders
<1>5. QED BY <1>2, <1>3, <1>4

LEMMA StopRobotKeeps ==
  ASSUME Inv, NEW r \in Robots, StopRobot(r)
  PROVE  Keeps
<1> USE DEF Inv
<1> DEFINE l == Only(r, <<Hold(r)>>)
           c == OnlyCommand(r, "STOP")
<1>1. /\ fl' = fl /\ ctx' = [ctx EXCEPT ![r].held = TRUE] /\ file' = Saved(fl, ctx')
      /\ Publish(l, c)
      /\ up /\ word' = word /\ kept' = kept \cup {r}
      /\ UNCHANGED <<up, route, rep, faults>> /\ presses' = presses + 1
      /\ presses < MaxPresses
  BY DEF StopRobot, Press, wires
<1>2. /\ ctx' \in [Robots -> Contexts]
      /\ ctx'[r].held /\ \A o \in Robots : ctx[o].held => ctx'[o].held
  <2>1. [ctx[r] EXCEPT !.held = TRUE] \in Contexts
    BY ContextTyped, ZenonT(60) DEF Contexts
  <2>2. ctx' = [ctx EXCEPT ![r] = [ctx[r] EXCEPT !.held = TRUE]]
    BY <1>1
  <2>3. [ctx[r] EXCEPT !.held = TRUE].held
    BY ContextTyped DEF Contexts
  <2>4. QED BY <2>1, <2>2, <2>3 DEF TypeOK
<1>3. "STOP" \in FleetOrders /\ "STOP" # "RESUME"
  BY DEF FleetOrders
<1>4. /\ l \in [Robots -> Seq(Orders)] /\ c \in [Robots -> FleetOrders]
      /\ \A o \in Robots : QuietTo(l[o], c[o])
  <2>1. <<Hold(r)>> \in Seq(Orders) /\ QuietTo(<<Hold(r)>>, "STOP")
    BY <1>3, HoldTyped, QuietOne
  <2>2. l[r] = <<Hold(r)>> /\ c[r] = "STOP"
    BY <1>3, <2>1, OnlyOne
  <2>3. \A o \in Robots \ {r} : QuietTo(l[o], c[o])
    BY <1>3, <2>1, OnlyOne
  <2>4. l \in [Robots -> Seq(Orders)] /\ c \in [Robots -> FleetOrders]
    BY <1>3, <2>1, OnlyOne
  <2> HIDE DEF l, c
  <2>5. QED BY <2>1, <2>2, <2>3, <2>4
<1> HIDE DEF l, c
<1>5. bot' \in [Robots -> Agents] /\ \A o \in Robots : NoWorse(bot'[o], bot[o])
  BY <1>1, <1>4, PublishKeeps DEF TypeOK
<1>6. \A o \in Robots : Allowed(o)
  BY <1>5, NoWorseAllowed
<1>7. \A o \in kept' : ctx'[o].held
  BY <1>1, <1>2 DEF Obedient, TypeOK
<1>8. Filed' /\ Obedient' /\ file' \in Snapshots \cup {None, Corrupt}
  BY <1>1, <1>2, <1>7, Recorded DEF TypeOK, Obedient
<1>9. TypeOK'
  BY <1>1, <1>2, <1>5, <1>8, ControlAssumption DEF TypeOK
<1>10. QED BY <1>6, <1>8, <1>9 DEF Keeps

LEMMA ResumeMessagesTyped ==
  ASSUME TypeOK, NEW r \in Robots, NEW f
  PROVE  /\ ResumeMessages(r, f) \in Seq(Orders) /\ ResumeCommand(f) \in FleetOrders
         /\ ResumeMessages(r, f) # <<>>
         /\ Halts(f) => /\ ResumeCommand(f) = "STOP"
                        /\ ResumeMessages(r, f)[Len(ResumeMessages(r, f))].cmd = "STOP"
<1> DEFINE a == Clearance(ctx[r].seq, 0)
           b == Lane("RESUME", ctx[r].seq)
           d == Hold(r)
<1>1. a \in Orders /\ b \in Orders /\ d \in Orders /\ d.cmd = "STOP"
  BY ContextTyped, OrdersTyped, HoldTyped
<1>2. ResumeCommand(f) \in FleetOrders /\ (Halts(f) => ResumeCommand(f) = "STOP")
  BY DEF ResumeCommand, FleetOrders
<1>3. ResumeMessages(r, f) = IF Halts(f) THEN <<a, b, d>> ELSE <<b>>
  BY DEF ResumeMessages
<1> HIDE DEF a, b, d
<1>4. /\ <<a, b, d>> \in Seq(Orders) /\ <<b>> \in Seq(Orders)
      /\ Len(<<a, b, d>>) = 3 /\ <<a, b, d>>[3] = d /\ <<a, b, d>> # <<>> /\ <<b>> # <<>>
  BY <1>1
<1>5. QED BY <1>1, <1>2, <1>3, <1>4

LEMMA StoppedAllowed ==
  ASSUME NEW r, r \notin kept', word' # "estop", Cruises(bot'[r]) => Cruises(bot[r])
  PROVE  Allowed(r)
BY DEF Allowed, Cruises, Moves

LEMMA ResumeRobotKeeps ==
  ASSUME Inv, NEW r \in Robots, ResumeRobot(r)
  PROVE  Keeps
<1> USE DEF Inv
<1> DEFINE latched == \/ ctx[r].reason \in {"link", "estop"}
                      \/ LinkLostSeen(r, ctx[r]) \/ ctx[r].last.state = "ESTOP"
           sends == latched \/ ~Halts(fl)
           freed == [ctx[r] EXCEPT !.held = FALSE, !.reason = "none"]
           armed == IF fl.mission = "RUNNING"
                    THEN Rearmed(r, [freed EXCEPT !.toStart = TRUE], fl) ELSE freed
           y == IF sends
                THEN [armed EXCEPT !.released = TRUE, !.resuming = TRUE, !.heard = FALSE]
                ELSE armed
           l == Only(r, ResumeMessages(r, fl))
           c == OnlyCommand(r, ResumeCommand(fl))
<1>1. /\ fl' = fl /\ ctx' = [ctx EXCEPT ![r] = y] /\ file' = Saved(fl, ctx')
      /\ (sends /\ Publish(l, c)) \/ UNCHANGED bot
      /\ up /\ fl.mission # "ESTOP" /\ ~fl.latched
      /\ word' = (IF word = "none" THEN "go" ELSE word) /\ kept' = kept \ {r}
      /\ UNCHANGED <<up, route, rep, faults>> /\ presses' = presses + 1
      /\ presses < MaxPresses
  BY DEF ResumeRobot, Press, wires
<1>2. y \in Contexts /\ (sends => y.resuming)
  <2>1. freed \in Contexts
    <3>1. \A z \in Contexts : [z EXCEPT !.held = FALSE] \in Contexts
      BY DEF Contexts
    <3>2. \A z \in Contexts : [z EXCEPT !.reason = "none"] \in Contexts
      BY DEF Contexts, HeldReasons
    <3>3. [ctx[r] EXCEPT !.held = FALSE] \in Contexts
      BY <3>1, ContextTyped
    <3>4. QED BY <3>2, <3>3
  <2>2. [freed EXCEPT !.toStart = TRUE] \in Contexts
    BY <2>1 DEF Contexts
  <2> HIDE DEF freed
  <2>3. armed \in Contexts
    BY <2>1, <2>2, RearmedTyped
  <2> HIDE DEF armed, sends
  <2>4. /\ [armed EXCEPT !.released = TRUE, !.resuming = TRUE, !.heard = FALSE] \in Contexts
        /\ [armed EXCEPT !.released = TRUE, !.resuming = TRUE, !.heard = FALSE].resuming
    BY <2>3 DEF Contexts
  <2>5. QED BY <2>3, <2>4
<1> HIDE DEF y, sends
<1>3. /\ ctx' \in [Robots -> Contexts] /\ ctx'[r] = y
      /\ \A o \in Robots \ {r} : ctx'[o] = ctx[o]
  BY <1>1, <1>2 DEF TypeOK
<1>4. /\ l \in [Robots -> Seq(Orders)] /\ c \in [Robots -> FleetOrders]
      /\ \A o \in Robots \ {r} : QuietTo(l[o], c[o])
      /\ l[r] = ResumeMessages(r, fl) /\ c[r] = ResumeCommand(fl)
  BY OnlyOne, ResumeMessagesTyped
<1> HIDE DEF l, c
<1>5. \A o \in Robots : NoWorse(bot[o], bot[o])
  BY DEF NoWorse
<1>6. /\ bot' \in [Robots -> Agents]
      /\ \A o \in Robots \ {r} : NoWorse(bot'[o], bot[o])
      /\ EndsStopped(l[r], c[r]) => (Cruises(bot'[r]) => Cruises(bot[r]))
  BY <1>1, <1>4, <1>5, PublishKeeps DEF TypeOK
<1>7. ASSUME NEW o \in Robots PROVE Allowed(o)
  <2>1. CASE o # r
    BY <1>6, <2>1, NoWorseAllowed
  <2>2. CASE o = r /\ word' = "go"
    BY <1>1, <2>2, StartedAllowed
  <2>3. CASE o = r /\ word' = "stop"
    <3>1. word' = word
      BY <1>1, <2>3
    <3>2. fl.mission = "STOPPED" /\ word # "estop"
      BY <1>1, <2>3, <3>1 DEF Obedient
    <3>3. Halts(fl)
      BY <3>2 DEF Halts
    <3>4. EndsStopped(l[r], c[r])
      BY <1>4, <3>3, ResumeMessagesTyped DEF EndsStopped
    <3>5. QED BY <1>1, <1>6, <2>3, <3>1, <3>2, <3>4, StoppedAllowed
  <2>4. CASE o = r /\ word' = "estop"
    <3>1. word = "estop" /\ DiesInEstop
      BY <1>1, <2>4 DEF Obedient, Latching
    <3>2. CASE UNCHANGED bot
      BY <3>2, SameAllowed
    <3>3. CASE sends
      BY <1>1, <1>2, <1>3, <2>4, <3>1, <3>3, ByHandAllowed DEF ByHand
    <3>4. QED BY <1>1, <3>2, <3>3
  <2>5. word' \in {"go", "stop", "estop"}
    BY <1>1 DEF TypeOK
  <2>6. QED BY <2>1, <2>2, <2>3, <2>4, <2>5
<1>8. \A o \in kept' : ctx'[o].held
  BY <1>1, <1>3 DEF Obedient, TypeOK
<1>9. Filed' /\ Obedient' /\ file' \in Snapshots \cup {None, Corrupt}
  <2>1. /\ Latching(word') => fl'.latched
        /\ word' = "stop" => fl'.mission \in {"STOPPED", "ESTOP"}
        /\ fl'.mission = "RUNNING" => word' = "go"
        /\ fl'.latched <=> fl'.mission = "ESTOP"
    BY <1>1 DEF Obedient, Latching
  <2>2. QED BY <1>1, <1>3, <1>8, <2>1, Recorded DEF TypeOK
<1>10. TypeOK'
  BY <1>1, <1>3, <1>6, <1>9, ControlAssumption DEF TypeOK
<1>11. QED BY <1>7, <1>9, <1>10 DEF Keeps

LEMMA AssignRouteKeeps ==
  ASSUME Inv, NEW r \in Robots, AssignRoute(r)
  PROVE  Keeps
<1> USE DEF Inv
<1> DEFINE s == ctx[r].seq + 1
           x == Assigned([ctx[r] EXCEPT !.zone = FALSE], s)
           y == IF fl.mission = "RUNNING" THEN Armed(x) ELSE x
<1>1. /\ ctx' = [ctx EXCEPT ![r] = y] /\ s <= MaxSeq
      /\ fl' = [fl EXCEPT !.mission = IF @ = "IDLE" THEN "ASSIGNED" ELSE @]
      /\ route' = [route EXCEPT ![r] = s]
      /\ UNCHANGED <<up, file, rep, bot, word, kept, faults>> /\ presses' = presses + 1
      /\ presses < MaxPresses /\ up
  BY DEF AssignRoute, Press
<1>2. s \in 0..MaxSeq
  BY <1>1, ContextTyped, ControlAssumption
<1>3. [ctx[r] EXCEPT !.zone = FALSE] \in Contexts
      /\ SameHold([ctx[r] EXCEPT !.zone = FALSE], ctx[r])
  BY ContextTyped, ZenonT(60) DEF Contexts, SameHold
<1>4. x \in Contexts /\ SameHold(x, ctx[r])
  BY <1>2, <1>3, AssignedTyped DEF SameHold
<1> HIDE DEF x, s
<1>5. y \in Contexts /\ SameHold(y, ctx[r])
  BY <1>4, ArmedTyped DEF SameHold
<1> HIDE DEF y
<1>6. ctx' \in [Robots -> Contexts] /\ \A o \in Robots : ctx'[o].held = ctx[o].held
  BY <1>1, <1>5 DEF TypeOK, SameHold
<1>7. /\ fl' \in Fleets /\ fl'.latched = fl.latched
      /\ fl.mission = "IDLE" => fl'.mission = "ASSIGNED"
      /\ fl.mission # "IDLE" => fl'.mission = fl.mission
  BY <1>1 DEF TypeOK, Fleets, Missions
<1>8. TypeOK'
  BY <1>1, <1>2, <1>6, <1>7, ControlAssumption DEF TypeOK
<1>9. Filed'
  BY <1>1 DEF Filed
<1>10. \A o \in kept' : ctx'[o].held
  BY <1>1, <1>6 DEF Obedient, TypeOK
<1>11. Obedient'
  <2>1. file' # Corrupt /\ (fl'.latched <=> fl'.mission = "ESTOP")
    BY <1>1, <1>7 DEF Obedient
  <2>2. Latching(word') => fl'.latched
    BY <1>1, <1>7 DEF Obedient
  <2>3. word' = "stop" => fl'.mission \in {"STOPPED", "ESTOP"}
    BY <1>1, <1>7 DEF Obedient
  <2>4. fl'.mission = "RUNNING" => word' = "go"
    BY <1>1, <1>7 DEF Obedient
  <2>5. QED BY <1>10, <2>1, <2>2, <2>3, <2>4 DEF Obedient
<1>12. QED BY <1>1, <1>8, <1>9, <1>11, SameAllowed DEF Keeps

LEMMA SwitchProfileKeeps ==
  ASSUME Inv, NEW found \in Boots, SwitchProfile(found)
  PROVE  Keeps
<1> USE DEF Inv
<1> DEFINE blank(r) == [ctx[r] EXCEPT !.routed = FALSE, !.clear = 0, !.arrived = FALSE,
                           !.confirmed = FALSE, !.acked = FALSE, !.gaveUp = FALSE,
                           !.armed = FALSE, !.retries = 0, !.zone = FALSE]
           x == [r \in Robots |-> IF r \in found THEN Assigned(blank(r), ctx[r].seq + 1)
                                  ELSE blank(r)]
           f == [fl EXCEPT !.mission = "IDLE", !.preEstop = None, !.preStop = None]
<1>1. /\ MayMove /\ \A r \in found : ctx[r].seq < MaxSeq
      /\ ctx' = x /\ file' = Saved(f, x)
      /\ fl' = IF found = {} THEN f ELSE [f EXCEPT !.mission = "ASSIGNED"]
      /\ route' = [r \in Robots |-> IF r \in found THEN ctx[r].seq + 1 ELSE route[r]]
      /\ word' = "none" /\ presses' = presses + 1 /\ presses < MaxPresses /\ up
      /\ UNCHANGED <<up, rep, bot, kept, faults>>
  BY DEF SwitchProfile, Press
<1>2. ~fl.latched /\ fl \in Fleets
  BY <1>1 DEF MayMove, TypeOK
<1>3. f \in Fleets /\ ~f.latched
  BY <1>2 DEF Fleets, Missions
<1>4. fl' \in Fleets /\ ~fl'.latched /\ fl'.mission \in {"IDLE", "ASSIGNED"}
  BY <1>1, <1>2, <1>3 DEF Fleets, Missions
<1>5. ASSUME NEW r \in Robots
      PROVE  blank(r) \in Contexts /\ SameHold(blank(r), ctx[r])
  <2> DEFINE A(y) == [y EXCEPT !.clear = 0]
             B(y) == [y EXCEPT !.routed = FALSE, !.arrived = FALSE, !.confirmed = FALSE]
             C(y) == [y EXCEPT !.acked = FALSE, !.gaveUp = FALSE, !.armed = FALSE,
                               !.retries = 0]
             D(y) == [y EXCEPT !.zone = FALSE]
  <2>1. 0 \in 0..StartRetries /\ 0 \in 0..1
    BY ControlAssumption
  <2>2. \A y \in Contexts : A(y) \in Contexts
    BY <2>1, ClearTyped
  <2>3. \A y \in Contexts : B(y) \in Contexts
    BY ZenonT(60) DEF Contexts
  <2>4. \A y \in Contexts : C(y) \in Contexts
    BY <2>1, ZenonT(60) DEF Contexts
  <2>5. \A y \in Contexts : D(y) \in Contexts
    BY ZenonT(60) DEF Contexts
  <2>6. ctx[r] \in Contexts
    BY ContextTyped
  <2>7. blank(r) = D(C(B(A(ctx[r]))))
    BY <2>6 DEF Contexts
  <2>8. SameHold(blank(r), ctx[r])
    BY <2>6 DEF Contexts, SameHold
  <2> HIDE DEF A, B, C, D, blank
  <2>9. blank(r) \in Contexts
    BY <2>2, <2>3, <2>4, <2>5, <2>6, <2>7
  <2>10. QED BY <2>8, <2>9
<1> HIDE DEF blank
<1>6. \A r \in found : r \in Robots /\ ctx[r].seq + 1 \in 0..MaxSeq
  BY <1>1, ContextTyped, ControlAssumption
<1>7. \A r \in Robots : x[r] \in Contexts /\ x[r].held = ctx[r].held
  BY <1>5, <1>6, AssignedTyped DEF SameHold
<1>8. x \in [Robots -> Contexts]
  BY <1>7
<1> HIDE DEF f, x
<1>9. \A r \in kept' : x[r].held
  BY <1>1, <1>7 DEF Obedient, TypeOK
<1>10. Filed' /\ file' # Corrupt /\ file' \in Snapshots \cup {None, Corrupt}
  BY <1>1, <1>3, <1>8, <1>9, FiledBy DEF TypeOK, Latching
<1>11. route' \in [Robots -> 0..MaxSeq]
  BY <1>1, <1>6 DEF TypeOK
<1>12. TypeOK'
  BY <1>1, <1>4, <1>8, <1>10, <1>11, ControlAssumption DEF TypeOK
<1>13. Obedient'
  BY <1>1, <1>4, <1>9, <1>10 DEF Obedient, Latching
<1>14. QED BY <1>1, <1>10, <1>12, <1>13, SameAllowed DEF Keeps

----------------------------------------------------------------------------
(***************************************************************************)
(* What robots report.                                                     *)
(***************************************************************************)
\* The fleet f stands by the operator's word w.
Stands(f, w) ==
    /\ f.latched <=> f.mission = "ESTOP"
    /\ Latching(w) => f.latched
    /\ w = "stop" => f.mission \in {"STOPPED", "ESTOP"}
    /\ f.mission = "RUNNING" => w = "go"

LEMMA DoneStands ==
  ASSUME NEW f \in Fleets, NEW w, NEW x, Stands(f, w)
  PROVE  Done(f, x) \in Fleets /\ Stands(Done(f, x), w)
<1> DEFINE d == Done(f, x)
<1>1. /\ d \in Fleets /\ d.latched = f.latched
      /\ d.mission = f.mission \/ (f.mission = "RUNNING" /\ d.mission = "DONE")
  BY DoneTyped
<1> HIDE DEF d
<1>2. Stands(d, w)
  <2>1. CASE d.mission = f.mission
    BY <1>1, <2>1 DEF Stands
  <2>2. CASE f.mission = "RUNNING" /\ d.mission = "DONE"
    BY <1>1, <2>2 DEF Stands
  <2>3. QED BY <1>1, <2>1, <2>2
<1>3. QED BY <1>1, <1>2 DEF d

LEMMA LatchRestoredStands ==
  ASSUME Inv, up, NEW m
  PROVE  LatchRestored(m) \in Fleets /\ Stands(LatchRestored(m), word)
<1>1. Stands(fl, word) /\ fl \in Fleets
  BY DEF Inv, Obedient, Stands, TypeOK
<1> DEFINE f == [fl EXCEPT !.latched = TRUE, !.preEstop = fl.mission, !.mission = "ESTOP"]
<1>2. f \in Fleets /\ f.latched /\ f.mission = "ESTOP"
  BY <1>1 DEF Fleets, Missions
<1>3. LatchRestored(m) = fl \/ LatchRestored(m) = f
  BY DEF LatchRestored
<1> HIDE DEF f
<1>4. Stands(f, word)
  BY <1>2 DEF Stands
<1>5. QED BY <1>1, <1>2, <1>3, <1>4

\* A context that a report changed: still one, and a hold is not undone.
StillHeld(y, x) == y \in Contexts /\ (x.held => y.held)

LEMMA LinkHeldTyped ==
  ASSUME NEW r, NEW x \in Contexts, NEW latched, NEW late
  PROVE  StillHeld(LinkHeld(r, x, latched, late), x)
<1>1. StillHeld([x EXCEPT !.held = TRUE, !.reason = "link"], x)
  BY DEF StillHeld, Contexts, HeldReasons
<1>2. StillHeld([x EXCEPT !.released = FALSE], x)
  BY DEF StillHeld, Contexts
<1>3. StillHeld(x, x)
  BY DEF StillHeld
<1>4. LinkHeld(r, x, latched, late) \in
        {[x EXCEPT !.held = TRUE, !.reason = "link"], [x EXCEPT !.released = FALSE], x}
  BY DEF LinkHeld
<1>5. QED BY <1>1, <1>2, <1>3, <1>4

LEMMA HoldRestoredTyped ==
  ASSUME NEW x \in Contexts, NEW m
  PROVE  StillHeld(HoldRestored(x, m), x)
<1>1. StillHeld([x EXCEPT !.held = TRUE, !.reason = "estop"], x) /\ StillHeld(x, x)
  BY DEF StillHeld, Contexts, HeldReasons
<1>2. QED BY <1>1 DEF HoldRestored

LEMMA AcknowledgedTyped ==
  ASSUME NEW r, NEW x \in Contexts, NEW m, NEW f
  PROVE  StillHeld(Acknowledged(r, x, m, f), x)
<1>1. StillHeld([x EXCEPT !.acked = TRUE], x) /\ StillHeld(x, x)
  BY DEF StillHeld, Contexts
<1>2. StillHeld(Armed(x), x)
  BY ArmedTyped DEF StillHeld, SameHold
<1>3. Acknowledged(r, x, m, f) \in {[x EXCEPT !.acked = TRUE], Armed(x), x}
  BY DEF Acknowledged
<1>4. QED BY <1>1, <1>2, <1>3

LEMMA StartsAgainTyped ==
  ASSUME NEW r, NEW x \in Contexts, NEW f, NEW late
  PROVE  StillHeld(StartsAgain(r, x, f, late), x)
<1>1. StillHeld([x EXCEPT !.toStart = FALSE], x) /\ StillHeld(x, x)
  BY DEF StillHeld, Contexts
<1>2. StillHeld(Rearmed(r, x, f), x)
  BY RearmedTyped DEF StillHeld, SameHold
<1>3. StartsAgain(r, x, f, late) \in {[x EXCEPT !.toStart = FALSE], Rearmed(r, x, f), x}
  BY DEF StartsAgain
<1>4. QED BY <1>1, <1>2, <1>3

LEMMA ArrivedAtTyped ==
  ASSUME NEW x \in Contexts, NEW m, NEW settled, NEW late \in BOOLEAN
  PROVE  StillHeld(ArrivedAt(x, m, settled, late), x)
<1>1. x.zone \in BOOLEAN /\ x.confirmed \in BOOLEAN
  BY DEF Contexts
<1>2. ASSUME NEW b \in BOOLEAN
      PROVE  StillHeld([x EXCEPT !.arrived = TRUE, !.confirmed = b], x)
  BY DEF StillHeld, Contexts
<1>3. StillHeld(x, x)
  BY DEF StillHeld
<1>4. ArrivedAt(x, m, settled, late) \in
        {[x EXCEPT !.arrived = TRUE, !.confirmed = x.confirmed \/ (x.zone /\ ~late)], x}
  BY DEF ArrivedAt, Contexts
<1>5. QED BY <1>1, <1>2, <1>3, <1>4

LEMMA StatusArrivesKeeps ==
  ASSUME Inv, NEW r \in Robots, NEW late \in BOOLEAN, NEW settled \in BOOLEAN,
         StatusArrives(r, late, settled)
  PROVE  Keeps
<1> USE DEF Inv
<1> DEFINE m == rep[r]
           f == LatchRestored(m)
           heard == [ctx[r] EXCEPT !.last = m, !.heard = TRUE]
           restored == HoldRestored(heard, m)
           held == LinkHeld(r, restored,
                            Nav(r) /\ (m.state = "LINK_LOST" \/ (heard.navLost /\ late)), late)
           acked == Acknowledged(r, held, m, f)
           started == StartsAgain(r, acked, f, late)
           y == ArrivedAt(started, m, settled, late)
           x == [ctx EXCEPT ![r] = y]
           g == IF x[r].confirmed THEN Done(f, x) ELSE f
<1>1. /\ up /\ m # None /\ UNCHANGED <<up, route, bot, operator, faults>>
      /\ rep' = [rep EXCEPT ![r] = None]
      /\ fl' = g /\ ctx' = x /\ file' = Saved(g, x)
  BY DEF StatusArrives
<1>2. m \in Reports
  BY <1>1 DEF TypeOK
<1>3. StillHeld(heard, ctx[r])
  BY <1>2, ContextTyped, ZenonT(60) DEF StillHeld, Contexts
<1>4. f \in Fleets /\ Stands(f, word)
  BY <1>1, LatchRestoredStands
<1> HIDE DEF m, f, heard
<1>5. StillHeld(restored, heard)
  BY <1>3, HoldRestoredTyped DEF StillHeld
<1> HIDE DEF restored
<1>6. StillHeld(held, restored)
  BY <1>5, LinkHeldTyped DEF StillHeld
<1> HIDE DEF held
<1>7. StillHeld(acked, held)
  BY <1>6, AcknowledgedTyped DEF StillHeld
<1> HIDE DEF acked
<1>8. StillHeld(started, acked)
  BY <1>7, StartsAgainTyped DEF StillHeld
<1> HIDE DEF started
<1>9. StillHeld(y, started)
  BY <1>8, ArrivedAtTyped DEF StillHeld
<1> HIDE DEF y
<1>10. StillHeld(y, ctx[r])
  BY <1>3, <1>5, <1>6, <1>7, <1>8, <1>9 DEF StillHeld
<1>11. x \in [Robots -> Contexts] /\ \A o \in Robots : ctx[o].held => x[o].held
  BY <1>10 DEF TypeOK, StillHeld
<1>12. g \in Fleets /\ Stands(g, word)
  BY <1>4, DoneStands
<1> HIDE DEF x, g
<1>13. \A o \in kept' : x[o].held
  BY <1>1, <1>11 DEF Obedient, TypeOK, operator
<1>14. Filed' /\ Obedient' /\ file' \in Snapshots \cup {None, Corrupt}
  BY <1>1, <1>11, <1>12, <1>13, Recorded DEF TypeOK, operator, Stands
<1>15. TypeOK'
  BY <1>1, <1>11, <1>12, <1>14 DEF TypeOK, operator
<1>16. QED BY <1>1, <1>14, <1>15, SameAllowed DEF Keeps

LEMMA StateArrivesKeeps ==
  ASSUME Inv, NEW r \in Robots, NEW late \in BOOLEAN, StateArrives(r, late)
  PROVE  Keeps
<1> USE DEF Inv
<1> DEFINE x == [ctx[r] EXCEPT !.heard = TRUE, !.navLost = bot[r].lost]
           latched == x.last.state = "LINK_LOST" \/ (ctx[r].navLost /\ x.navLost /\ late)
           y == LinkHeld(r, x, latched, late)
<1>1. /\ up /\ ctx' = [ctx EXCEPT ![r] = y]
      /\ UNCHANGED <<up, fl, file, wires, bot, operator, faults>>
  BY DEF StateArrives
<1>2. bot[r].lost \in BOOLEAN
  BY StateTyped DEF TypeOK
<1>3. StillHeld(x, ctx[r])
  BY <1>2, ContextTyped, ZenonT(60) DEF StillHeld, Contexts
<1> HIDE DEF x, latched
<1>4. StillHeld(y, x)
  BY <1>3, LinkHeldTyped DEF StillHeld
<1> HIDE DEF y
<1>5. ctx' \in [Robots -> Contexts] /\ \A o \in Robots : ctx[o].held => ctx'[o].held
  BY <1>1, <1>3, <1>4 DEF TypeOK, StillHeld
<1>6. TypeOK'
  BY <1>1, <1>5 DEF TypeOK, operator, wires
<1>7. Filed'
  BY <1>1 DEF Filed, operator
<1>8. Obedient'
  BY <1>1, <1>5 DEF Obedient, operator, TypeOK
<1>9. QED BY <1>1, <1>6, <1>7, <1>8, SameAllowed DEF Keeps

LEMMA ZoneArrivesKeeps ==
  ASSUME Inv, NEW r \in Robots, ZoneArrives(r)
  PROVE  Keeps
<1> USE DEF Inv
<1> DEFINE y == [ctx[r] EXCEPT !.zone = TRUE, !.confirmed = @ \/ ctx[r].arrived]
           x == [ctx EXCEPT ![r] = y]
           f == Done(fl, x)
<1>1. /\ up /\ ctx' = x /\ fl' = f /\ file' = Saved(f, x)
      /\ UNCHANGED <<up, wires, bot, operator, faults>>
  <2>1. ctx' = [ctx EXCEPT ![r].zone = TRUE, ![r].confirmed = @ \/ ctx[r].arrived]
    BY DEF ZoneArrives
  <2>2. ctx' = x
    BY <2>1 DEF TypeOK
  <2>3. fl' = Done(fl, ctx') /\ file' = Saved(fl', ctx')
    BY DEF ZoneArrives
  <2>4. QED BY <2>2, <2>3 DEF ZoneArrives
<1>2. StillHeld(y, ctx[r])
  BY ContextTyped, ZenonT(60) DEF StillHeld, Contexts
<1> HIDE DEF y
<1>3. x \in [Robots -> Contexts] /\ \A o \in Robots : ctx[o].held => x[o].held
  BY <1>2 DEF TypeOK, StillHeld
<1> HIDE DEF x
<1>4. fl \in Fleets /\ Stands(fl, word)
  BY <1>1 DEF Obedient, Stands, TypeOK
<1>5. f \in Fleets /\ Stands(f, word)
  BY <1>4, DoneStands
<1> HIDE DEF f
<1>6. \A o \in kept' : x[o].held
  BY <1>1, <1>3 DEF Obedient, TypeOK, operator
<1>7. Filed' /\ Obedient' /\ file' \in Snapshots \cup {None, Corrupt}
  BY <1>1, <1>3, <1>5, <1>6, Recorded DEF TypeOK, operator, Stands
<1>8. TypeOK'
  BY <1>1, <1>3, <1>5, <1>7 DEF TypeOK, operator, wires
<1>9. QED BY <1>1, <1>7, <1>8, SameAllowed DEF Keeps

----------------------------------------------------------------------------
(***************************************************************************)
(* The agents' own steps: none of them sets a robot off or opens a latch.  *)
(***************************************************************************)
LEMMA Undisturbed ==
  ASSUME Inv, UNCHANGED <<coordinator, word, kept>>
  PROVE  Filed' /\ Obedient'
BY DEF Inv, coordinator, Filed, Obedient

LEMMA OneAgentMoves ==
  ASSUME TypeOK, NEW r \in Robots, NEW b \in Agents,
         b = NewAgent \/ NoWorse(b, bot[r]), bot' = [bot EXCEPT ![r] = b]
  PROVE  bot' \in [Robots -> Agents] /\ \A o \in Robots : Allowed(o)
<1>1. bot' \in [Robots -> Agents] /\ bot'[r] = b
      /\ \A o \in Robots \ {r} : bot'[o] = bot[o]
  BY DEF TypeOK
<1>2. ~Cruises(NewAgent)
  BY DEF Cruises, StateOf, NewAgent
<1>3. Allowed(r)
  <2>1. CASE b = NewAgent
    BY <1>1, <1>2, <2>1 DEF Allowed, Moves, Cruises
  <2>2. CASE NoWorse(b, bot[r])
    BY <1>1, <2>2, NoWorseAllowed
  <2>3. QED BY <2>1, <2>2
<1>4. \A o \in Robots \ {r} : Allowed(o)
  BY <1>1 DEF Allowed
<1>5. QED BY <1>1, <1>3, <1>4

LEMMA RouteArrivesKeeps ==
  ASSUME Inv, NEW r \in Robots, RouteArrives(r)
  PROVE  Keeps
<1> USE DEF Inv
<1> DEFINE b == [bot[r] EXCEPT !.seq = route[r], !.clear = 0, !.home = FALSE,
                               !.started = @ /\ ~Nav(r)]
<1>1. /\ bot' = [bot EXCEPT ![r] = b] /\ route' = [route EXCEPT ![r] = 0]
      /\ UNCHANGED <<coordinator, rep, operator, faults>>
  <2>1. bot' = [bot EXCEPT ![r].seq = route[r], ![r].clear = 0, ![r].home = FALSE,
                           ![r].started = @ /\ ~Nav(r)]
    BY DEF RouteArrives
  <2>2. bot' = [bot EXCEPT ![r] = b]
    BY <2>1 DEF TypeOK, Agents
  <2>3. QED BY <2>2 DEF RouteArrives
<1>2. bot[r] \in Agents /\ route[r] \in 0..MaxSeq
  BY DEF TypeOK
<1>3. b \in Agents /\ b.clear = 0 /\ b.estop = bot[r].estop
  <2>1. 0 \in 0..1 /\ (bot[r].started /\ ~Nav(r)) \in BOOLEAN
    OBVIOUS
  <2>2. QED BY <1>2, <2>1 DEF Agents
<1> HIDE DEF b
<1>4. NoWorse(b, bot[r])
  BY <1>3, CruisesMeans DEF NoWorse
<1>5. bot' \in [Robots -> Agents] /\ \A o \in Robots : Allowed(o)
  BY <1>1, <1>3, <1>4, OneAgentMoves
<1>6. TypeOK'
  BY <1>1, <1>5, ControlAssumption DEF TypeOK, coordinator, operator
<1>7. QED BY <1>1, <1>5, <1>6, Undisturbed DEF Keeps, operator

LEMMA ReportKeeps ==
  ASSUME Inv, NEW r \in Robots, Report(r)
  PROVE  Keeps
<1> USE DEF Inv
<1>1. /\ rep' = [rep EXCEPT ![r] = StatusOf(bot[r])]
      /\ UNCHANGED <<coordinator, route, bot, operator, faults>>
  BY DEF Report
<1>2. StatusOf(bot[r]) \in Reports
  BY ReportTyped DEF TypeOK
<1>3. TypeOK'
  BY <1>1, <1>2 DEF TypeOK, coordinator, operator
<1>4. QED BY <1>1, <1>3, Undisturbed, SameAllowed DEF Keeps, operator

LEMMA TravelKeeps ==
  ASSUME Inv, NEW r \in Robots, Travel(r) \/ LinkLost(r)
  PROVE  Keeps
<1> USE DEF Inv
<1> DEFINE b == [bot[r] EXCEPT !.home = TRUE]
           d == [bot[r] EXCEPT !.lost = TRUE]
<1>1. bot[r] \in Agents
  BY DEF TypeOK
<1>2. /\ bot' = [bot EXCEPT ![r] = b] \/ bot' = [bot EXCEPT ![r] = d]
      /\ UNCHANGED <<coordinator, wires, operator, faults>>
  BY DEF Travel, LinkLost
<1>3. b \in Agents /\ b.home /\ b.estop = bot[r].estop
      /\ d \in Agents /\ d.lost /\ d.estop = bot[r].estop
  BY <1>1 DEF Agents
<1> HIDE DEF b, d
<1>4. NoWorse(b, bot[r]) /\ NoWorse(d, bot[r])
  BY <1>3, CruisesMeans DEF NoWorse
<1>5. bot' \in [Robots -> Agents] /\ \A o \in Robots : Allowed(o)
  BY <1>2, <1>3, <1>4, OneAgentMoves
<1>6. TypeOK'
  BY <1>2, <1>5 DEF TypeOK, coordinator, wires, operator
<1>7. QED BY <1>2, <1>5, <1>6, Undisturbed DEF Keeps, operator

LEMMA AgentRestartsKeeps ==
  ASSUME Inv, NEW r \in Robots, AgentRestarts(r)
  PROVE  Keeps
<1> USE DEF Inv
<1>1. /\ faults < MaxFaults /\ faults' = faults + 1
      /\ bot' = [bot EXCEPT ![r] = NewAgent]
      /\ route' = [route EXCEPT ![r] = IF up /\ Routed(r) THEN ctx[r].seq ELSE 0]
      /\ UNCHANGED <<coordinator, rep, operator>>
  BY DEF AgentRestarts, Fault
<1>2. bot' \in [Robots -> Agents] /\ \A o \in Robots : Allowed(o)
  BY <1>1, NewTyped, OneAgentMoves
<1>3. route' \in [Robots -> 0..MaxSeq]
  BY <1>1, ContextTyped, ControlAssumption DEF TypeOK
<1>4. TypeOK'
  BY <1>1, <1>2, <1>3, ControlAssumption DEF TypeOK, coordinator, operator
<1>5. QED BY <1>1, <1>2, <1>4, Undisturbed DEF Keeps, operator

----------------------------------------------------------------------------
(***************************************************************************)
(* The process dies and is started again.                                  *)
(***************************************************************************)
LEMMA DiesTyped ==
  ASSUME TypeOK, Dies
  PROVE  /\ up /\ up' = FALSE /\ fl' \in Fleets /\ ctx' \in [Robots -> Contexts]
         /\ route' \in [Robots -> 0..MaxSeq] /\ rep' \in [Robots -> Reports \cup {None}]
         /\ faults' \in 0..MaxFaults
BY NewTyped, ControlAssumption DEF Dies, Fault, TypeOK

LEMMA CrashKeeps ==
  ASSUME Inv, Crash
  PROVE  Keeps
<1> USE DEF Inv
<1>1. Dies /\ UNCHANGED <<file, bot, operator>>
  BY DEF Crash
<1>2. TypeOK'
  BY <1>1, DiesTyped DEF TypeOK, operator
<1>3. Filed' /\ Obedient'
  BY <1>1, DiesTyped DEF Filed, Obedient, operator
<1>4. QED BY <1>1, <1>2, <1>3, SameAllowed DEF Keeps

LEMMA DiesStoppingKeeps ==
  ASSUME Inv, DiesStopping
  PROVE  Keeps
<1> USE DEF Inv
<1>1. Dies /\ bot' = bot /\ presses' = presses + 1 /\ presses < MaxPresses
  BY DEF DiesStopping, Press
<1>2. /\ up /\ fl \in Fleets /\ ctx \in [Robots -> Contexts] /\ kept \subseteq Robots
      /\ word \in {"none", "go", "stop", "estop"} /\ presses \in 0..MaxPresses
  BY <1>1, DiesTyped DEF TypeOK
<1>3. Filed' /\ file' \in Snapshots \cup {None, Corrupt} /\ kept' \subseteq Robots
      /\ word' \in {"none", "go", "stop", "estop"}
  <2>1. CASE ~fl.latched /\ file' = Saved(Stopped, ctx) /\ word' = "stop" /\ UNCHANGED kept
    <3>1. Stopped \in Fleets /\ Stopped.mission = "STOPPED"
      BY <1>2, StoppedTyped
    <3>2. \A r \in kept' : ctx[r].held
      BY <1>2, <2>1 DEF Obedient
    <3>3. QED BY <1>2, <2>1, <3>1, <3>2, FiledBy DEF Latching
  <2>2. ASSUME NEW r \in Robots, file' = Saved(fl, [ctx EXCEPT ![r].held = TRUE]),
               kept' = kept \cup {r}, UNCHANGED word
        PROVE  Filed' /\ file' \in Snapshots \cup {None, Corrupt} /\ kept' \subseteq Robots
               /\ word' \in {"none", "go", "stop", "estop"}
    <3> DEFINE y == [ctx[r] EXCEPT !.held = TRUE]
               x == [ctx EXCEPT ![r] = y]
    <3>1. y \in Contexts /\ y.held
      BY ContextTyped, ZenonT(60) DEF Contexts
    <3>2. file' = Saved(fl, x)
      BY <2>2
    <3> HIDE DEF y
    <3>3. x \in [Robots -> Contexts] /\ x[r].held
          /\ \A o \in Robots : ctx[o].held => x[o].held
      BY <1>2, <3>1
    <3> HIDE DEF x
    <3>4. \A o \in kept' : x[o].held
      BY <1>2, <2>2, <3>3 DEF Obedient
    <3>5. QED BY <1>2, <2>2, <3>2, <3>3, <3>4, FiledBy DEF Obedient
  <2>3. QED BY <2>1, <2>2 DEF DiesStopping
<1>4. TypeOK'
  <2>1. presses' \in 0..MaxPresses
    BY <1>1, <1>2, ControlAssumption
  <2>2. bot' \in [Robots -> Agents]
    BY <1>1 DEF TypeOK
  <2>3. QED BY <1>1, <1>3, <2>1, <2>2, DiesTyped DEF TypeOK
<1>5. Obedient'
  BY <1>1, DiesTyped DEF Obedient
<1>6. QED BY <1>1, <1>3, <1>4, <1>5, SameAllowed DEF Keeps

\* What was sent quiets the robots; what is on disk need not know of it.
LEMMA DiesEstoppingKeeps ==
  ASSUME Inv, DiesEstopping
  PROVE  Keeps
<1> USE DEF Inv
<1>1. /\ DiesInEstop /\ Dies /\ EstopAll /\ word' = "estop"
      /\ presses' = presses + 1 /\ presses < MaxPresses
      /\ UNCHANGED <<file, kept>>
  BY DEF DiesEstopping, Press
<1>2. bot' \in [Robots -> Agents] /\ \A r \in Robots : NoWorse(bot'[r], bot[r])
  BY <1>1, EstopAllKeeps
<1>3. \A r \in Robots : Allowed(r)
  BY <1>2, NoWorseAllowed
<1>4. Filed' /\ Obedient'
  BY <1>1, DiesTyped DEF Filed, Obedient, Latching
<1>5. presses' \in 0..MaxPresses
  BY <1>1, ControlAssumption DEF TypeOK
<1>6. TypeOK'
  BY <1>1, <1>2, <1>5, DiesTyped DEF TypeOK
<1>7. QED BY <1>3, <1>4, <1>6 DEF Keeps

LEMMA FileBreaksKeeps ==
  ASSUME Inv, FileBreaks
  PROVE  Keeps
<1> USE DEF Inv
<1>1. /\ ~up /\ file' = Corrupt /\ kept' = {}
      /\ UNCHANGED <<up, fl, ctx, wires, bot, word, presses, faults>>
  BY DEF FileBreaks
<1>2. TypeOK' /\ Filed' /\ Obedient'
  BY <1>1, NoValueAssumption DEF TypeOK, Filed, Obedient, wires
<1>3. QED BY <1>1, <1>2, SameAllowed DEF Keeps

\* What a coordinator starts with, by what it finds.
LEMMA RestoredStands ==
  ASSUME Inv, NEW f \in Fleets, ~f.latched, f.mission \in {"IDLE", "ASSIGNED"}
  PROVE  /\ Stands(Restored(f), IF file = Corrupt THEN "estop" ELSE word)
         /\ file = Corrupt => Restored(f).latched
<1> USE DEF Inv
<1>1. CASE file = None
  <2>1. Restored(f) = f
    BY <1>1, NoValueAssumption DEF Restored
  <2>2. file # Corrupt /\ word # "stop" /\ ~Latching(word)
    BY <1>1, NoValueAssumption DEF Filed
  <2>3. QED BY <2>1, <2>2 DEF Stands
<1>2. CASE file = Corrupt
  <2>1. Restored(f).latched /\ Restored(f).mission = "ESTOP"
    BY <1>2, NoValueAssumption DEF Restored, Fleets
  <2>2. QED BY <1>2, <2>1 DEF Stands
<1>3. CASE file \notin {None, Corrupt}
  <2>1. file \in Snapshots
    BY <1>3 DEF TypeOK
  <2>2. file.latched \in BOOLEAN /\ (file.mission # None => file.mission \in {"STOPPED", "DONE"})
    BY <2>1 DEF Snapshots
  <2>3. /\ word = "stop" => file.latched \/ file.mission = "STOPPED"
        /\ Latching(word) => file.latched
    BY <1>3 DEF Filed
  <2>4. CASE file.latched
    <3>1. Restored(f).latched /\ Restored(f).mission = "ESTOP"
      BY <1>3, <2>4 DEF Restored
    <3>2. QED BY <1>3, <3>1 DEF Stands
  <2>5. CASE ~file.latched /\ file.mission # None
    <3>1. Restored(f).latched = f.latched /\ Restored(f).mission = file.mission
      BY <1>3, <2>5 DEF Restored, Fleets
    <3>2. QED BY <1>3, <2>2, <2>3, <2>5, <3>1 DEF Stands
  <2>6. CASE ~file.latched /\ file.mission = None
    <3>1. Restored(f) = f
      BY <1>3, <2>6 DEF Restored
    <3>2. word # "stop" /\ ~Latching(word)
      BY <2>3, <2>6, NoValueAssumption DEF Missions
    <3>3. QED BY <1>3, <3>1, <3>2 DEF Stands
  <2>7. QED BY <2>2, <2>4, <2>5, <2>6
<1>4. QED BY <1>1, <1>2, <1>3

LEMMA RestartKeeps ==
  ASSUME Inv, NEW found \in Boots, Restart(found)
  PROVE  Keeps
<1> USE DEF Inv
<1> DEFINE g == [NewFleet EXCEPT !.mission = IF found = {} THEN @ ELSE "ASSIGNED"]
           f == Restored(g)
           why(r) == IF file \in {None, Corrupt} THEN "none" ELSE file.held[r]
           base(r) == IF r \in found THEN Assigned(NewContext, 1) ELSE NewContext
           x == [r \in Robots |-> [base(r) EXCEPT !.held = why(r) # "none", !.reason = why(r)]]
<1>1. /\ ~up /\ up' = TRUE /\ fl' = f /\ ctx' = x
      /\ file' = IF file = Corrupt THEN Snapshot(f, x) ELSE file
      /\ route' = [r \in Robots |-> IF r \in found THEN 1 ELSE 0]
      /\ word' = IF file = Corrupt THEN "estop" ELSE word
      /\ UNCHANGED <<rep, bot, kept, presses, faults>>
  BY DEF Restart
<1>2. g \in Fleets /\ ~g.latched /\ g.mission \in {"IDLE", "ASSIGNED"}
  BY NewTyped DEF Fleets, Missions
<1> HIDE DEF g
<1>3. f \in Fleets /\ Stands(f, word') /\ (file = Corrupt => f.latched)
  BY <1>1, <1>2, RestoredTyped, RestoredStands DEF TypeOK
<1> HIDE DEF f
<1>4. \A r \in Robots : why(r) \in HeldReasons
  BY DEF TypeOK, Snapshots, HeldReasons
<1>5. 0 \in 0..MaxSeq /\ 1 \in 0..MaxSeq
  BY ControlAssumption
<1>6. \A r \in Robots : base(r) \in Contexts
  BY <1>5, NewTyped, AssignedTyped
<1> HIDE DEF base, why
<1>7. \A r \in Robots : x[r] \in Contexts /\ (x[r].held <=> why(r) # "none")
  <2>1. \A y \in Contexts, w \in HeldReasons :
          /\ [y EXCEPT !.held = w # "none", !.reason = w] \in Contexts
          /\ [y EXCEPT !.held = w # "none", !.reason = w].held <=> w # "none"
    BY ZenonT(60) DEF Contexts
  <2>2. QED BY <1>4, <1>6, <2>1
<1>8. x \in [Robots -> Contexts]
  BY <1>7
<1> HIDE DEF x
<1>9. \A r \in kept : x[r].held
  <2> SUFFICES ASSUME NEW r \in kept PROVE x[r].held
    OBVIOUS
  <2>1. file \notin {None, Corrupt} /\ file.held[r] # "none" /\ r \in Robots
    BY DEF Filed, TypeOK
  <2>2. why(r) # "none"
    BY <2>1 DEF why
  <2>3. QED BY <1>7, <2>1, <2>2
<1>10. Filed' /\ file' # Corrupt /\ file' \in Snapshots \cup {None, Corrupt}
  <2>1. CASE file # Corrupt
    BY <1>1, <2>1 DEF Filed, TypeOK
  <2>2. CASE file = Corrupt
    <3>1. kept' = {} /\ word' = "estop" /\ file' = Snapshot(f, x)
      BY <1>1, <2>2 DEF Filed
    <3>2. file' \in Snapshots /\ file' # None /\ file' # Corrupt
      BY <1>3, <1>8, <3>1, SnapshotTyped, NoValueAssumption
    <3>3. file'.latched
      BY <1>3, <1>8, <2>2, <3>1, SnapshotSays
    <3>4. QED BY <3>1, <3>2, <3>3 DEF Filed
  <2>3. QED BY <2>1, <2>2
<1>11. Obedient'
  BY <1>1, <1>3, <1>9, <1>10 DEF Obedient, Stands
<1>12. route' \in [Robots -> 0..MaxSeq] /\ word' \in {"none", "go", "stop", "estop"}
  BY <1>1, <1>5 DEF TypeOK
<1>13. TypeOK'
  BY <1>1, <1>3, <1>8, <1>10, <1>12 DEF TypeOK
<1>14. QED BY <1>1, <1>10, <1>11, <1>13, SameAllowed DEF Keeps

----------------------------------------------------------------------------
(***************************************************************************)
(* The tick.                                                               *)
(***************************************************************************)
LEMMA GrantedTyped ==
  ASSUME TypeOK, NEW r \in Robots, NEW granted
  PROVE  /\ Granted(r, granted) \in Contexts /\ SameHold(Granted(r, granted), ctx[r])
         /\ Granted(r, granted).resuming = ctx[r].resuming
<1> DEFINE n == CASE fl.mission = "RUNNING" -> IF r \in granted THEN 1 ELSE ctx[r].clear
                  [] fl.mission \in {"IDLE", "ASSIGNED", "ESTOP"} -> 0
                  [] OTHER -> ctx[r].clear
<1>1. n \in 0..1
  BY ContextTyped
<1>2. Granted(r, granted) = [ctx[r] EXCEPT !.clear = n]
  BY ContextTyped DEF Granted, Contexts
<1> HIDE DEF n
<1>3. [ctx[r] EXCEPT !.clear = n] \in Contexts
  BY <1>1, ContextTyped, ClearTyped
<1>4. QED BY <1>2, <1>3, ContextTyped DEF SameHold, Contexts

LEMMA RetriedTyped ==
  ASSUME NEW r, NEW x \in Contexts, NEW f, NEW time
  PROVE  Retried(r, x, f, time) \in Contexts /\ SameHold(Retried(r, x, f, time), x)
<1> DEFINE due == Unstarted(x, f) /\ time[r] # "early"
           a == x.resuming /\ ~RetryEnds(r, x, f, time)
           b == x.released \/ ResumesAgain(r, x, f, time)
           c == x.gaveUp \/ (due /\ x.retries = 0 /\ x.armed)
           n == IF due /\ x.retries > 0 THEN x.retries - 1 ELSE x.retries
<1>1. a \in BOOLEAN /\ b \in BOOLEAN /\ c \in BOOLEAN
  OBVIOUS
<1>2. x.retries \in 0..StartRetries
  BY DEF Contexts
<1>3. n \in 0..StartRetries
  BY <1>2, ControlAssumption
<1>4. Retried(r, x, f, time) =
        [x EXCEPT !.resuming = a, !.released = b, !.gaveUp = c, !.retries = n]
  BY DEF Retried, Contexts
<1> HIDE DEF a, b, c, n
<1>5. [x EXCEPT !.resuming = a, !.released = b, !.gaveUp = c] \in Contexts
  BY <1>1 DEF Contexts
<1>6. \A y \in Contexts : [y EXCEPT !.retries = n] \in Contexts
  BY <1>3 DEF Contexts
<1>7. [x EXCEPT !.resuming = a, !.released = b, !.gaveUp = c, !.retries = n]
        = [[x EXCEPT !.resuming = a, !.released = b, !.gaveUp = c] EXCEPT !.retries = n]
  BY DEF Contexts
<1>8. Retried(r, x, f, time) \in Contexts
  BY <1>4, <1>5, <1>6, <1>7
<1>9. SameHold(Retried(r, x, f, time), x)
  BY <1>4 DEF SameHold, Contexts
<1>10. QED BY <1>8, <1>9

LEMMA LaneToldTyped ==
  ASSUME TypeOK, NEW r \in Robots, NEW x \in Contexts, NEW f, NEW time
  PROVE  /\ LaneTold(r, x, f, time) \in Seq(Orders)
         /\ FleetTold(r, x, f) \in FleetOrders
<1>1. x.seq \in 0..MaxSeq /\ x.clear \in 0..1 /\ 0 \in 0..MaxSeq /\ x.routed \in BOOLEAN
  BY ControlAssumption DEF Contexts
<1> DEFINE s == IF x.routed THEN x.seq ELSE 0
<1>2. /\ <<Hold(r)>> \in Seq(Orders) /\ <<Lane("ESTOP", s)>> \in Seq(Orders)
      /\ <<Lane("START", x.seq)>> \in Seq(Orders)
      /\ <<Clearance(x.seq, x.clear)>> \in Seq(Orders)
  <2>1. /\ Hold(r) \in Orders /\ Lane("ESTOP", s) \in Orders
        /\ Lane("START", x.seq) \in Orders /\ Clearance(x.seq, x.clear) \in Orders
    BY <1>1, HoldTyped, OrdersTyped
  <2>2. QED BY <2>1
<1>3. LaneTold(r, x, f, time) \in
        {<<Hold(r)>>, <<Lane("ESTOP", s)>>, <<Lane("START", x.seq)>>,
         <<Clearance(x.seq, x.clear)>>, <<>>}
  BY DEF LaneTold
<1>4. FleetTold(r, x, f) \in {"STOP", "CANCEL", "RESUME", None}
  BY DEF FleetTold
<1>5. <<>> \in Seq(Orders)
  OBVIOUS
<1>6. LaneTold(r, x, f, time) \in Seq(Orders)
  BY <1>2, <1>3, <1>5
<1>7. QED BY <1>4, <1>6 DEF FleetOrders

\* A fleet that does not run, and a robot that is held, are told nothing that releases.
LEMMA LaneToldQuiet ==
  ASSUME TypeOK, NEW r \in Robots, NEW x \in Contexts, NEW f, NEW time,
         x.held \/ f.mission # "RUNNING"
  PROVE  QuietTo(LaneTold(r, x, f, time), FleetTold(r, x, f))
<1>1. x.seq \in 0..MaxSeq /\ 0 \in 0..MaxSeq /\ x.held \in BOOLEAN
  BY ControlAssumption DEF Contexts
<1> DEFINE s == IF x.routed THEN x.seq ELSE 0
<1>2. LaneTold(r, x, f, time) \in {<<Hold(r)>>, <<Lane("ESTOP", s)>>, <<>>}
  BY <1>1 DEF LaneTold, Unstarted
<1>3. FleetTold(r, x, f) \in {"STOP", "CANCEL", None}
  BY <1>1 DEF FleetTold
<1>4. FleetTold(r, x, f) \in FleetOrders /\ FleetTold(r, x, f) # "RESUME"
  BY <1>3, NoValueAssumption DEF FleetOrders
<1>5. /\ Hold(r) \in Orders /\ Quiet(Hold(r))
      /\ Lane("ESTOP", s) \in Orders /\ Quiet(Lane("ESTOP", s))
  BY <1>1, HoldTyped, EstopOrderTyped
<1>6. QED BY <1>2, <1>4, <1>5, QuietOne

\* A fleet that is stopped, with a RESUME repeated to a robot in its latch.
LEMMA HaltedTold ==
  ASSUME TypeOK, NEW r \in Robots, NEW x \in Contexts, NEW f, NEW time,
         Halts(f), ~x.held
  PROVE  EndsStopped(ResumeMessages(r, f) \o LaneTold(r, x, f, time), FleetTold(r, x, f))
         /\ FleetTold(r, x, f) # None
<1> DEFINE p == ResumeMessages(r, f)
           q == LaneTold(r, x, f, time)
<1>1. /\ p \in Seq(Orders) /\ p # <<>> /\ p[Len(p)].cmd = "STOP"
  BY ResumeMessagesTyped
<1>2. q \in Seq(Orders)
  BY LaneToldTyped
<1>3. FleetTold(r, x, f) = "STOP"
  BY DEF FleetTold, Halts
<1>4. q = <<>> \/ q = <<Hold(r)>>
  BY DEF LaneTold, Halts, Unstarted
<1>5. Hold(r).cmd = "STOP"
  BY HoldTyped
<1> HIDE DEF p, q
<1>6. /\ p \o q \in Seq(Orders) /\ Len(p \o q) = Len(p) + Len(q)
      /\ \A i \in 1..(Len(p) + Len(q)) :
            (p \o q)[i] = IF i <= Len(p) THEN p[i] ELSE q[i - Len(p)]
  BY <1>1, <1>2, ConcatProperties
<1>7. Len(p) \in Nat /\ Len(p) > 0
  BY <1>1
<1>8. (p \o q)[Len(p \o q)].cmd = "STOP"
  <2>1. CASE q = <<>>
    <3>1. Len(q) = 0
      BY <2>1
    <3>2. Len(p \o q) = Len(p) /\ Len(p) \in 1..(Len(p) + Len(q)) /\ Len(p) <= Len(p)
      BY <1>6, <1>7, <3>1
    <3>3. QED BY <1>1, <1>6, <3>2
  <2>2. CASE q = <<Hold(r)>>
    <3>1. Len(q) = 1 /\ q[1] = Hold(r)
      BY <2>2
    <3>2. /\ Len(p \o q) = Len(p) + 1 /\ Len(p) + 1 \in 1..(Len(p) + Len(q))
          /\ ~(Len(p) + 1 <= Len(p)) /\ Len(p) + 1 - Len(p) = 1
      BY <1>6, <1>7, <3>1
    <3>3. QED BY <1>5, <1>6, <3>1, <3>2
  <2>3. QED BY <1>4, <2>1, <2>2
<1>9. "STOP" # None
  BY NoValueAssumption
<1>10. EndsStopped(p \o q, FleetTold(r, x, f))
  BY <1>3, <1>8 DEF EndsStopped
<1>11. QED BY <1>3, <1>9, <1>10 DEF p, q

LEMMA TickKeeps ==
  ASSUME Inv, NEW granted, NEW time, Tick(granted, time, TRUE)
  PROVE  Keeps
<1> USE DEF Inv
<1> DEFINE seen == [r \in Robots |-> Granted(r, granted)]
           f == Done(fl, seen)
           x == [r \in Robots |-> Retried(r, seen[r], f, time)]
           resumed(r) == ResumesAgain(r, seen[r], f, time)
           l == [r \in Robots |->
                   (IF resumed(r) THEN ResumeMessages(r, f) ELSE <<>>)
                     \o LaneTold(r, seen[r], f, time)]
           c == [r \in Robots |->
                   IF resumed(r) /\ FleetTold(r, seen[r], f) = None
                   THEN ResumeCommand(f) ELSE FleetTold(r, seen[r], f)]
<1>1. /\ up /\ UNCHANGED <<up, wires, operator, faults>>
      /\ fl' = f /\ ctx' = x /\ file' = Saved(f, seen) /\ Publish(l, c)
  BY DEF Tick, Publish
<1>2. /\ seen \in [Robots -> Contexts]
      /\ \A r \in Robots : /\ SameHold(seen[r], ctx[r])
                           /\ seen[r].resuming = ctx[r].resuming
  BY GrantedTyped
<1> HIDE DEF seen
<1>3. fl \in Fleets /\ Stands(fl, word)
  BY <1>1 DEF Obedient, Stands, TypeOK
<1>4. /\ f \in Fleets /\ Stands(f, word) /\ f.latched = fl.latched
      /\ fl.mission # "RUNNING" => f = fl
  BY <1>3, DoneStands, DoneTyped
<1> HIDE DEF f
<1>5. \A r \in Robots : seen[r] \in Contexts
  BY <1>2
<1>6. \A r \in Robots : x[r] \in Contexts /\ SameHold(x[r], seen[r])
  BY <1>5, RetriedTyped
<1>7. x \in [Robots -> Contexts]
  BY <1>6
<1> HIDE DEF x
<1>8. \A r \in kept' : r \in Robots /\ ctx[r].held /\ seen[r].held /\ x[r].held
  BY <1>1, <1>2, <1>6 DEF Obedient, SameHold, TypeOK, operator
<1>9. Filed' /\ file' # Corrupt /\ file' \in Snapshots \cup {None, Corrupt}
  <2>1. kept' \subseteq Robots
    BY <1>1 DEF TypeOK, operator
  <2>2. \A r \in kept' : seen[r].held
    BY <1>8
  <2>3. /\ word' = "stop" => f.mission \in {"STOPPED", "ESTOP"}
        /\ Latching(word') => f.latched
    BY <1>1, <1>4 DEF Stands, operator
  <2>4. QED BY <1>1, <1>2, <1>4, <2>1, <2>2, <2>3, FiledBy
<1>10. Obedient'
  BY <1>1, <1>4, <1>8, <1>9 DEF Obedient, Stands, operator
<1>11. ASSUME NEW r \in Robots
       PROVE  l[r] \in Seq(Orders) /\ c[r] \in FleetOrders
  <2>1. /\ LaneTold(r, seen[r], f, time) \in Seq(Orders)
        /\ FleetTold(r, seen[r], f) \in FleetOrders
    BY <1>5, LaneToldTyped
  <2>2. /\ ResumeMessages(r, f) \in Seq(Orders) /\ ResumeCommand(f) \in FleetOrders
        /\ <<>> \in Seq(Orders)
    BY ResumeMessagesTyped
  <2>3. \A p, q \in Seq(Orders) : p \o q \in Seq(Orders)
    BY ConcatProperties
  <2> HIDE DEF resumed
  <2>4. QED BY <2>1, <2>2, <2>3
<1>12. l \in [Robots -> Seq(Orders)] /\ c \in [Robots -> FleetOrders]
  BY <1>11
<1>13. /\ bot' \in [Robots -> Agents]
       /\ \A r \in Robots : QuietTo(l[r], c[r]) => NoWorse(bot'[r], bot[r])
       /\ \A r \in Robots : EndsStopped(l[r], c[r]) => (Cruises(bot'[r]) => Cruises(bot[r]))
  <2> HIDE DEF l, c
  <2>1. QED BY <1>1, <1>12, PublishKeeps DEF TypeOK
<1>14. \A r \in Robots : resumed(r) =>
          /\ ~seen[r].held /\ ~f.latched /\ f.mission # "ESTOP" /\ ctx[r].resuming
  BY <1>2 DEF ResumesAgain, RetryEnds
<1>15. ASSUME NEW r \in Robots, ~resumed(r), seen[r].held \/ f.mission # "RUNNING"
       PROVE  Allowed(r)
  <2>1. LaneTold(r, seen[r], f, time) \in Seq(Orders)
    BY <1>5, LaneToldTyped
  <2>2. l[r] = LaneTold(r, seen[r], f, time)
    BY <1>15, <2>1, ConcatEmptySeq
  <2>3. c[r] = FleetTold(r, seen[r], f)
    BY <1>15
  <2> HIDE DEF l, c
  <2>4. QuietTo(l[r], c[r])
    BY <1>5, <1>15, <2>2, <2>3, LaneToldQuiet
  <2>5. QED BY <1>13, <2>4, NoWorseAllowed
<1>16. ASSUME NEW r \in Robots, resumed(r), Halts(f), r \notin kept', word' # "estop"
       PROVE  Allowed(r)
  <2>1. ~seen[r].held
    BY <1>14, <1>16
  <2>2. /\ EndsStopped(ResumeMessages(r, f) \o LaneTold(r, seen[r], f, time),
                       FleetTold(r, seen[r], f))
        /\ FleetTold(r, seen[r], f) # None
    BY <1>5, <1>16, <2>1, HaltedTold
  <2>3. EndsStopped(l[r], c[r])
    BY <1>16, <2>2
  <2> HIDE DEF l, c
  <2>4. QED BY <1>13, <1>16, <2>3, StoppedAllowed
<1> HIDE DEF l, c
<1>17. ASSUME NEW r \in Robots PROVE Allowed(r)
  <2>1. CASE r \in kept'
    <3>1. seen[r].held /\ ~resumed(r)
      BY <1>8, <1>14, <2>1
    <3>2. QED BY <1>15, <3>1
  <2>2. CASE r \notin kept' /\ word' = "go"
    BY <2>2, StartedAllowed
  <2>3. CASE r \notin kept' /\ word' = "none" /\ ctx[r].resuming
    BY <2>3 DEF Allowed, MayGo
  <2>4. CASE r \notin kept' /\ word' # "go" /\ ~(word' = "none" /\ ctx[r].resuming)
    <3>1. f = fl /\ f.mission # "RUNNING"
      BY <1>1, <1>3, <1>4, <2>4 DEF Stands, operator
    <3>2. CASE ~resumed(r)
      BY <1>15, <3>1, <3>2
    <3>3. CASE resumed(r)
      <4>1. word \in {"stop", "estop"} /\ word' = word
        BY <1>1, <1>14, <2>4, <3>3 DEF TypeOK, operator
      <4>2. CASE word = "stop"
        <5>1. f.mission = "STOPPED"
          BY <1>4, <1>14, <3>3, <4>2 DEF Stands
        <5>2. QED BY <1>16, <2>4, <3>3, <4>1, <4>2, <5>1 DEF Halts
      <4>3. CASE word = "estop"
        <5>1. DiesInEstop /\ ctx[r].resuming
          BY <1>4, <1>14, <3>3, <4>3 DEF Stands, Latching
        <5>2. QED BY <2>4, <5>1, ByHandAllowed DEF ByHand
      <4>4. QED BY <4>1, <4>2, <4>3
    <3>4. QED BY <3>2, <3>3
  <2>5. QED BY <2>1, <2>2, <2>3, <2>4
<1>18. TypeOK'
  BY <1>1, <1>4, <1>7, <1>9, <1>13 DEF TypeOK, operator, wires
<1>19. QED BY <1>9, <1>10, <1>17, <1>18 DEF Keeps

----------------------------------------------------------------------------
LEMMA ControlStart == Init => Inv
<1> SUFFICES ASSUME Init PROVE Inv
  OBVIOUS
<1>1. 0 \in 0..MaxSeq /\ 0 \in 0..MaxPresses /\ 0 \in 0..MaxFaults
  BY ControlAssumption
<1>2. TypeOK
  BY <1>1, NewTyped DEF Init, TypeOK
<1>3. Filed /\ Obedient
  BY DEF Init, Filed, Obedient, Latching
<1>4. QED BY <1>2, <1>3 DEF Inv

LEMMA ControlStep ==
  ASSUME Inv, [Next]_vars
  PROVE  Keeps
<1>1. CASE Operator
  BY <1>1, StartFleetKeeps, StopFleetKeeps, EstopFleetKeeps, ResumeFleetKeeps,
     StopRobotKeeps, ResumeRobotKeeps, AssignRouteKeeps, SwitchProfileKeeps DEF Operator
<1>2. CASE Messages
  BY <1>2, StatusArrivesKeeps, StateArrivesKeeps, ZoneArrivesKeeps, RouteArrivesKeeps,
     ReportKeeps, TravelKeeps, AgentRestartsKeeps DEF Messages
<1>3. CASE Ticks
  BY <1>3, TickKeeps DEF Ticks
<1>4. CASE Process
  BY <1>4, CrashKeeps, DiesStoppingKeeps, DiesEstoppingKeeps, FileBreaksKeeps, RestartKeeps
     DEF Process
<1>5. CASE UNCHANGED vars
  <2>1. UNCHANGED <<coordinator, wires, bot, operator, faults>>
    BY <1>5 DEF vars
  <2>2. TypeOK'
    BY <2>1 DEF Inv, TypeOK, coordinator, wires, operator
  <2>3. QED BY <2>1, <2>2, Undisturbed, SameAllowed DEF Keeps, Inv, operator
<1>6. QED BY <1>1, <1>2, <1>3, <1>4, <1>5 DEF Next

(***************************************************************************)
(* Every variable of the control plane keeps its type, and what runs and   *)
(* what is on disk stand by the operator's last words, whatever is lost,   *)
(* crashes or starts again; of an emergency stop they know unless the      *)
(* process may die between sending it and saving it                        *)
(* (fleet_coordinator.py, _save_control_state and _restore_control_state). *)
(***************************************************************************)
THEOREM ControlHolds == Spec => [](TypeOK /\ Filed /\ Obedient)
<1>1. Inv /\ [Next]_vars => Inv'
  BY ControlStep DEF Keeps
<1>2. QED BY <1>1, ControlStart, PTL DEF Spec, Inv

(***************************************************************************)
(* No robot is set off or let out of an E-stop against the operator's last *)
(* words, for any number of robots, of either kind, of presses, crashes    *)
(* and restarts, whichever commands are lost or overtake each other        *)
(* (fleet_coordinator.py, the operator's services and the tick).           *)
(***************************************************************************)
THEOREM NobodyReleased ==
  ASSUME ~DiesInEstop
  PROVE  Spec => NeverReleased
<1>1. Inv /\ [Next]_vars => Inv'
  BY ControlStep DEF Keeps
<1>2. Inv /\ [Next]_vars => \A r \in Robots : Allowed(r)
  BY ControlStep DEF Keeps
<1>3. Inv /\ [Next]_vars =>
        [\A r \in Robots : bot'[r] # bot[r] =>
           /\ Moves(r)' => Moves(r) \/ MayGo(r)
           /\ bot[r].estop /\ ~bot'[r].estop /\ bot'[r] # NewAgent =>
                  word' # "estop" /\ r \notin kept'
        ]_vars
  BY <1>2 DEF Allowed
<1>4. QED BY <1>1, <1>3, ControlStart, PTL DEF Spec, NeverReleased

(***************************************************************************)
(* A process that dies in the emergency stop releases nobody either.  At   *)
(* any time a robot is set off only if the operator's last word let the    *)
(* fleet go, let out of an E-stop only if that word is another one, or     *)
(* either by the operator's own RESUME of this robot; never one that is    *)
(* kept (estop_fleet publishes before it saves; resume_robot and           *)
(* _retry_resumes look at the latch the file restored).                    *)
(***************************************************************************)
ReleasedByHand ==
    [][\A r \in Robots : bot'[r] # bot[r] =>
         /\ Moves(r)' => \/ Moves(r)
                         \/ r \notin kept' /\ (word' = "go" \/ ByHand(r))
         /\ bot[r].estop /\ ~bot'[r].estop /\ bot'[r] # NewAgent =>
                r \notin kept' /\ (word' # "estop" \/ ByHand(r))
      ]_vars

THEOREM OnlyReleasedByHand == Spec => ReleasedByHand
<1>1. Inv /\ [Next]_vars => Inv'
  BY ControlStep DEF Keeps
<1>2. Inv /\ [Next]_vars => \A r \in Robots : Allowed(r)
  BY ControlStep DEF Keeps
<1>3. Inv /\ [Next]_vars =>
        [\A r \in Robots : bot'[r] # bot[r] =>
           /\ Moves(r)' => \/ Moves(r)
                           \/ r \notin kept' /\ (word' = "go" \/ ByHand(r))
           /\ bot[r].estop /\ ~bot'[r].estop /\ bot'[r] # NewAgent =>
                  r \notin kept' /\ (word' # "estop" \/ ByHand(r))
        ]_vars
  BY <1>2 DEF Allowed, MayGo, ByHand
<1>4. QED BY <1>1, <1>3, ControlStart, PTL DEF Spec, ReleasedByHand
=============================================================================
