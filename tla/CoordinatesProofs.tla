------------------------- MODULE CoordinatesProofs -------------------------
(***************************************************************************)
(* What a robot drives by, for any robots, cameras, profiles, graphs and   *)
(* limits: the pose it moves on, the sightings an arrival rests on, the    *)
(* graph an editor saves, and the profile a fleet comes back on.           *)
(***************************************************************************)
EXTENDS Coordinates, TLAPS

----------------------------------------------------------------------------
LEMMA Limits ==
  /\ FixTimeout \in Nat /\ TfCache \in Nat /\ PoseTimeout \in Nat /\ MaxOutage \in Nat
  /\ PostTimeout \in Nat /\ MaxEventAge \in Nat /\ MaxZoneQueue \in Nat /\ MaxAge \in Nat
  /\ GoalTimeout \in Nat /\ ConfirmTime \in Nat /\ MaxEvents \in Nat
  /\ Robot!MaxTf \in Nat /\ Robot!MaxFix \in Nat
<1>1. FixTimeout \in Nat /\ TfCache \in Nat /\ PoseTimeout \in Nat /\ MaxOutage \in Nat
  BY VisionAssumption
<1>2. /\ PostTimeout \in Nat /\ MaxEventAge \in Nat /\ MaxZoneQueue \in Nat
      /\ MaxAge \in Nat /\ MaxEvents \in Nat
  BY VisionAssumption
<1>3. GoalTimeout \in Nat /\ ConfirmTime \in Nat
  BY VisionAssumption
<1>4. Robot!MaxTf \in Nat /\ Robot!MaxFix \in Nat
  BY ONLY <1>1 DEF Robot!MaxTf, Robot!MaxFix
<1>5. QED BY <1>1, <1>2, <1>3, <1>4

----------------------------------------------------------------------------
(* The pose. *)

PoseTyped ==
    /\ fuser \in [map : {fuser.map}, cand : {fuser.cand}, count : {fuser.count}, age : Nat]
    /\ tf \in Nat /\ odom \in 0..MaxOutage
    /\ agent \in [age : Nat, wheels : BOOLEAN]

\* What the robot's clocks say of the last fix: the transform was sent when there was
\* one, and looked up when there was a transform.
FixBehindPose ==
    /\ tf < Robot!MaxTf => fuser.age <= FixTimeout + tf
    /\ agent.age < PoseTimeout =>
            fuser.age <= FixTimeout + TfCache + MaxOutage + agent.age
    /\ agent.wheels /\ "control" \in ran => agent.age < PoseTimeout

PoseInv == PoseTyped /\ FixBehindPose

LEMMA PoseStart == Robot!PoseFuserInit => PoseInv
<1> USE Limits
<1> SUFFICES ASSUME Robot!PoseFuserInit PROVE PoseInv
  OBVIOUS
<1>1. PoseTyped
  BY DEF Robot!PoseFuserInit, PoseTyped, Robot!MaxFix, Robot!MaxTf
<1>2. FixBehindPose
  BY DEF Robot!PoseFuserInit, FixBehindPose, Robot!MaxTf
<1>3. QED BY <1>1, <1>2 DEF PoseInv

\* A fix, or an operator's word, makes the last fix younger.
LEMMA FixYounger ==
  ASSUME PoseInv, UNCHANGED <<tf, odom, agent, ran>>,
         NEW m, NEW c, NEW n, NEW a \in {fuser.age, 0},
         fuser' = [map |-> m, cand |-> c, count |-> n, age |-> a]
  PROVE  PoseInv'
<1> USE Limits DEF PoseInv
<1>1. PoseTyped'
  BY DEF PoseTyped
<1>2. fuser'.age <= fuser.age /\ fuser'.age \in Nat /\ fuser.age \in Nat
  BY DEF PoseTyped
<1>3. FixBehindPose'
  BY <1>2 DEF FixBehindPose, PoseTyped, Robot!MaxTf
<1>4. QED BY <1>1, <1>3

LEMMA OnFixKeeps == ASSUME PoseInv, NEW p, Robot!OnFix(p) PROVE PoseInv'
<1>1. UNCHANGED <<tf, odom, agent, ran>>
  BY DEF Robot!OnFix
<1>2. PICK m, c, n, a : fuser = [map |-> m, cand |-> c, count |-> n, age |-> a]
  BY DEF PoseInv, PoseTyped
<1>3. CASE fuser' = fuser
  BY <1>1, <1>2, <1>3, FixYounger
<1>4. CASE fuser' = Robot!Adopted(p)
  BY <1>1, <1>4, FixYounger DEF Robot!Adopted
<1>5. CASE fuser' = Robot!Held(p)
  <2>1. fuser' = [map |-> m, cand |-> p, count |-> Robot!Counted(p), age |-> a]
    BY <1>2, <1>5 DEF Robot!Held
  <2>2. a \in {fuser.age, 0}
    BY <1>2
  <2>3. QED BY <1>1, <2>1, <2>2, FixYounger
<1>6. QED BY <1>3, <1>4, <1>5 DEF Robot!OnFix, Robot!Fused

LEMMA InitialPoseKeeps == ASSUME PoseInv, NEW p, Robot!OnInitialPose(p) PROVE PoseInv'
<1>1. fuser' = [map |-> p, cand |-> fuser.cand, count |-> fuser.count, age |-> 0]
  BY DEF Robot!OnInitialPose, PoseInv, PoseTyped
<1>2. QED BY <1>1, FixYounger DEF Robot!OnInitialPose

LEMMA PublishKeeps == ASSUME PoseInv, Robot!PublishTf PROVE PoseInv'
<1> USE Limits DEF PoseInv
<1>1. fuser' = fuser /\ odom' = odom /\ agent' = agent /\ ran' = ran \cup {"tf"}
      /\ (tf' = tf \/ (tf' = 0 /\ fuser.age <= FixTimeout))
  BY DEF Robot!PublishTf, Robot!Alive
<1>2. PoseTyped'
  BY <1>1 DEF PoseTyped
<1>3. FixBehindPose'
  BY <1>1 DEF FixBehindPose, PoseTyped, Robot!MaxTf
<1>4. QED BY <1>2, <1>3

\* A pose is looked up with a transform that is TfCache behind odometry at most.
LEMMA LookupKeeps == ASSUME PoseInv, NEW v \in BOOLEAN, Robot!ControlTick(v) PROVE PoseInv'
<1> USE Limits DEF PoseInv
<1> DEFINE a == Robot!Updated
<1>1. /\ a \in [age : Nat, wheels : BOOLEAN]
      /\ a = agent \/ (a.age = 0 /\ Robot!Lookup)
  BY DEF Robot!Updated, PoseTyped
<1>2. ASSUME Robot!Lookup
      PROVE  fuser.age <= FixTimeout + TfCache + MaxOutage
  <2>1. tf \in Nat /\ odom \in 0..MaxOutage /\ fuser.age \in Nat
    BY DEF PoseTyped
  <2>2. tf <= odom \/ tf - odom <= TfCache
    BY <1>2, <2>1 DEF Robot!Lookup, Robot!Common
  <2>3. fuser.age <= FixTimeout + tf
    BY <1>2 DEF Robot!Lookup, FixBehindPose
  <2>4. QED BY <2>1, <2>2, <2>3
<1>3. a.age < PoseTimeout => fuser.age <= FixTimeout + TfCache + MaxOutage + a.age
  <2>1. CASE a = agent
    BY <2>1 DEF FixBehindPose
  <2>2. CASE a.age = 0 /\ Robot!Lookup
    BY <1>2, <2>2 DEF PoseTyped
  <2>3. QED BY <1>1, <2>1, <2>2
<1> HIDE DEF a
<1>4. /\ agent' \in [age : Nat, wheels : BOOLEAN] /\ agent'.age = a.age
      /\ agent'.wheels => a.age < PoseTimeout
  <2>1. agent' = [a EXCEPT !.wheels = v /\ Robot!Localized(a)]
    BY DEF Robot!ControlTick, a
  <2>2. Robot!Localized(a) <=> a.age < PoseTimeout
    BY DEF Robot!Localized
  <2>3. QED BY <1>1, <2>1, <2>2
<1>5. UNCHANGED <<fuser, tf, odom>>
  BY DEF Robot!ControlTick
<1>6. PoseTyped'
  BY <1>4, <1>5 DEF PoseTyped
<1>7. FixBehindPose'
  BY <1>3, <1>4, <1>5 DEF FixBehindPose, Robot!MaxTf
<1>8. QED BY <1>6, <1>7

LEMMA BaseKeeps == ASSUME PoseInv, Robot!BaseReturns PROVE PoseInv'
<1> USE Limits DEF PoseInv
<1>1. UNCHANGED <<fuser, tf, agent>> /\ odom' = 0 /\ ran' = {}
  BY DEF Robot!BaseReturns
<1>2. PoseTyped'
  BY <1>1 DEF PoseTyped
<1>3. FixBehindPose'
  BY <1>1 DEF FixBehindPose, Robot!MaxTf
<1>4. QED BY <1>2, <1>3

LEMMA ClockKeeps == ASSUME PoseInv, NEW base \in BOOLEAN, Robot!PoseFuserTick(base) PROVE PoseInv'
<1> USE Limits DEF PoseInv
<1>1. PICK m, c, n, a : a \in Nat /\ fuser = [map |-> m, cand |-> c, count |-> n, age |-> a]
  BY DEF PoseInv, PoseTyped
<1>2. /\ fuser' = [map |-> m, cand |-> c, count |-> n, age |-> Robot!Aged(a, Robot!MaxFix)]
      /\ agent' = [agent EXCEPT !.age = Robot!Aged(agent.age, PoseTimeout)]
      /\ tf' = Robot!Aged(tf, Robot!MaxTf) /\ ran' = {}
      /\ odom' = 0 \/ (odom < MaxOutage /\ odom' = odom + 1)
  BY <1>1 DEF Robot!PoseFuserTick
<1>3. ASSUME NEW x \in Nat, NEW most \in Nat
      PROVE  /\ Robot!Aged(x, most) \in {x, x + 1} /\ Robot!Aged(x, most) \in Nat
             /\ x < most => Robot!Aged(x, most) = x + 1
             /\ Robot!Aged(x, most) < most => x < most
  BY DEF Robot!Aged
<1>4. tf \in Nat /\ odom \in 0..MaxOutage /\ agent \in [age : Nat, wheels : BOOLEAN]
  BY DEF PoseTyped
<1>5. PoseTyped'
  BY <1>1, <1>2, <1>3, <1>4 DEF PoseTyped
<1>6. fuser.age = a /\ fuser'.age \in {a, a + 1} /\ agent'.age = Robot!Aged(agent.age, PoseTimeout)
  BY <1>1, <1>2, <1>3, <1>4
<1>7. tf' < Robot!MaxTf => fuser'.age <= FixTimeout + tf'
  BY <1>1, <1>2, <1>3, <1>4, <1>6 DEF FixBehindPose
<1>8. agent'.age < PoseTimeout => fuser'.age <= FixTimeout + TfCache + MaxOutage + agent'.age
  BY <1>1, <1>2, <1>3, <1>4, <1>6 DEF FixBehindPose
<1>9. FixBehindPose'
  BY <1>2, <1>7, <1>8 DEF FixBehindPose, Robot!MaxTf
<1>10. QED BY <1>5, <1>9

\* The robot's own steps, and those that are none of its.
LEMMA PoseUnmoved == PoseInv /\ UNCHANGED <<fuser, tf, odom, agent, ran>> => PoseInv'
BY DEF PoseInv, PoseTyped, FixBehindPose, Robot!MaxTf

LEMMA PoseStep == PoseInv /\ [Next]_vars => PoseInv'
<1> SUFFICES ASSUME PoseInv, [Next]_vars PROVE PoseInv'
  OBVIOUS
<1>1. CASE UNCHANGED <<fuser, tf, odom, agent, ran>>
  BY <1>1, PoseUnmoved
<1>2. CASE UNCHANGED vars
  BY <1>1, <1>2 DEF vars, poseVars
<1>3. CASE Frame \/ Take \/ PoseRestart
  BY <1>1, <1>3 DEF Frame, Take, PoseRestart, PoseTablet
<1>4. ASSUME NEW outcome \in Outcomes, PostPose(outcome)
      PROVE  PoseInv'
  BY <1>1, <1>4 DEF PostPose
<1>5. ASSUME NEW t \in Topics, Receive(t)
      PROVE  PoseInv'
  BY <1>1, <1>5, OnFixKeeps DEF Receive
<1>6. ASSUME NEW v \in BOOLEAN, Drive(v)
      PROVE  PoseInv'
  BY <1>6, LookupKeeps DEF Drive
<1>7. CASE PublishTf
  BY <1>7, PublishKeeps DEF PublishTf
<1>8. CASE InitialPose
  BY <1>8, InitialPoseKeeps DEF InitialPose
<1>9. CASE BaseReturns
  BY <1>9, BaseKeeps DEF BaseReturns
<1>10. ASSUME NEW base \in BOOLEAN, PoseTick(base)
       PROVE  PoseInv'
  BY <1>1, <1>10, ClockKeeps DEF PoseTick
<1>11. CASE Zone
  BY <1>1, <1>11 DEF Zone, poseVars
<1>12. QED BY <1>2, <1>3, <1>4, <1>5, <1>6, <1>7, <1>8, <1>9, <1>10, <1>11
         DEF Next, PostZone, ZoneFrame, Send, Skip, ZoneTablet, ZoneRestart, Claim, Arrive, ZoneTick

----------------------------------------------------------------------------
(* Zone events. *)

Event == [robot : Robots, camera : Cameras, type : {"ENTER", "EXIT"}, number : Nat, age : Nat]
Item == [event : Event, retries : 1..MaxRetries, wait : Nat]
Sighting == [camera : Cameras, type : {"ENTER", "EXIT"}, delay : Nat, age : Nat]

ZonesTyped ==
    /\ number \in Nat /\ took \in 0..PostTimeout
    /\ todo \in Seq(Event) /\ queue \in Seq(Item) /\ Len(queue) <= MaxZoneQueue
    /\ loop \in [at : {"free", "flush", "post"}, items : Seq(Item), lag : Nat]
    /\ last \in [Robots -> [Cameras -> Nat]]
    /\ stored # None => stored \in Sighting
    /\ arrival \in [claim : Nat \cup {None}, arrived : BOOLEAN, confirmed : BOOLEAN, gap : Nat]

\* What POSTs of a whole retry queue take, and the delay of what is sent after them.
QueueTime == MaxZoneQueue * PostTimeout
MaxDelay == MaxEventAge + QueueTime + PostTimeout

\* How old events can be on their way: a flush takes a POST for each item at most.
EventsOnTime ==
    /\ loop.at = "flush" =>
            /\ todo # <<>> /\ todo[1].age <= MaxEventAge + loop.lag
            /\ loop.items # <<>>
            /\ loop.lag + Len(loop.items) * PostTimeout <= QueueTime + took
    /\ loop.at = "post" => todo # <<>> /\ todo[1].age <= MaxEventAge + QueueTime + took

\* What the coordinator holds is no later than that.
SightingsOnTime ==
    /\ stored # None => stored.delay <= MaxDelay
    /\ arrival.confirmed => arrival.gap <= MaxDelay + GoalTimeout

\* An event not later than the last one of its camera was taken, if not counted anew
\* from event 1.
TakenBehindLast ==
    /\ \A d \in taken : d \in Cameras \X Nat /\ (d[2] <= last[Me][d[1]] \/ <<d[1], 1>> \in taken)
    /\ EventTakenOnce

LEMMA QueueTimes ==
  /\ QueueTime \in Nat /\ MaxDelay \in Nat
  /\ MaxDelay = MaxEventAge + (MaxZoneQueue + 1) * PostTimeout
  /\ \A n \in Nat : /\ n * PostTimeout \in Nat
                     /\ n <= MaxZoneQueue => n * PostTimeout <= QueueTime
                     /\ (n + 1) * PostTimeout = n * PostTimeout + PostTimeout
<1>1. PostTimeout \in Nat /\ MaxZoneQueue \in Nat /\ MaxEventAge \in Nat
  BY Limits
<1>2. ASSUME NEW n \in Nat
      PROVE  /\ n * PostTimeout \in Nat /\ (n + 1) * PostTimeout = n * PostTimeout + PostTimeout
             /\ n <= MaxZoneQueue => n * PostTimeout <= MaxZoneQueue * PostTimeout
  BY <1>1
<1>3. QED BY <1>1, <1>2 DEF QueueTime, MaxDelay

LEMMA AgedEvent ==
  ASSUME NEW e \in Event
  PROVE  Zones!Aged(e) \in Event /\ Zones!Aged(e).age <= e.age + 1
<1> DEFINE a == IF e.age < MaxAge THEN e.age + 1 ELSE e.age
<1>1. e.age \in Nat /\ MaxAge \in Nat
  BY Limits DEF Event
<1>2. a \in Nat /\ a <= e.age + 1
  BY <1>1
<1> HIDE DEF a
<1>3. Zones!Aged(e) = [e EXCEPT !.age = a]
  BY DEF Zones!Aged, a
<1>4. QED BY <1>2, <1>3 DEF Event

LEMMA AgedFacts ==
  ASSUME NEW items \in Seq(Item)
  PROVE  /\ Zones!AgedAll(items) \in Seq(Item) /\ Len(Zones!AgedAll(items)) = Len(items)
         /\ (items # <<>>) => Zones!AgedAll(items) # <<>>
<1>1. ASSUME NEW i \in DOMAIN items
      PROVE  [items[i] EXCEPT !.event = Zones!Aged(@)] \in Item
  <2> items[i] \in Item
    OBVIOUS
  <2>1. items[i].event \in Event
    BY DEF Item
  <2>2. Zones!Aged(items[i].event) \in Event
    BY <2>1, AgedEvent
  <2>3. QED BY <2>1, <2>2 DEF Item
<1>2. Zones!AgedAll(items) \in [1 .. Len(items) -> Item]
  BY <1>1 DEF Zones!AgedAll
<1>3. QED BY <1>2

LEMMA QueuedFacts ==
  ASSUME queue \in Seq(Item), Len(queue) <= MaxZoneQueue, NEW item \in Item
  PROVE  Zones!Queued(item) \in Seq(Item) /\ Len(Zones!Queued(item)) <= MaxZoneQueue
<1> DEFINE q == Append(queue, item)
<1>1. q \in Seq(Item) /\ Len(q) = Len(queue) + 1 /\ MaxZoneQueue \in Nat
  BY Limits
<1> HIDE DEF q
<1>2. CASE Len(q) > MaxZoneQueue
  <2>1. Zones!Queued(item) = Tail(q)
    BY <1>2 DEF Zones!Queued, q
  <2>2. q # <<>> /\ Tail(q) \in Seq(Item) /\ Len(Tail(q)) = Len(q) - 1
    BY <1>1
  <2>3. QED BY <1>1, <2>1, <2>2
<1>3. CASE ~ (Len(q) > MaxZoneQueue)
  BY <1>1, <1>3 DEF Zones!Queued, q
<1>4. QED BY <1>2, <1>3

(* An event being posted was not too old when the loop began to post. *)
LEMMA PostedFacts ==
  ASSUME ZonesTyped, EventsOnTime, Zones!Posting
  PROVE  Zones!Posted \in Event /\ Zones!Posted.age <= MaxDelay
<1> USE Limits, QueueTimes
<1>1. CASE loop.at = "post"
  <2>1. Zones!Posted = todo[1] /\ todo # <<>> /\ todo[1] \in Event
    BY <1>1 DEF Zones!Posted, EventsOnTime, ZonesTyped
  <2>2. todo[1].age <= MaxEventAge + QueueTime + took /\ took \in 0..PostTimeout
    BY <1>1 DEF EventsOnTime, ZonesTyped
  <2>3. QED BY <2>1, <2>2 DEF MaxDelay, Event
<1>2. CASE Zones!Due
  <2>1. /\ loop.at = "flush" /\ loop.items # <<>> /\ loop.items \in Seq(Item) /\ loop.lag \in Nat
        /\ loop.lag + Len(loop.items) * PostTimeout <= QueueTime + took /\ took \in 0..PostTimeout
    BY <1>2 DEF Zones!Due, EventsOnTime, ZonesTyped
  <2>2. loop.items[1] \in Item /\ Len(loop.items) \in Nat /\ Len(loop.items) >= 1
    <3> DEFINE items == loop.items
    <3>1. items \in Seq(Item) /\ items # <<>>
      BY <2>1
    <3> HIDE DEF items
    <3>2. items[1] \in Item /\ Len(items) \in Nat /\ Len(items) >= 1
      BY ONLY <3>1
    <3>3. QED BY <3>2 DEF items
  <2>3. Zones!Posted = loop.items[1].event /\ loop.items[1].event \in Event
    BY <2>1, <2>2 DEF Zones!Posted, Zones!Next1, Item
  <2>4. loop.items[1].event.age <= MaxEventAge + loop.lag
    <3>1. ~ (loop.items[1].event.age > MaxEventAge + loop.lag)
      BY <1>2 DEF Zones!Due, Zones!Expired, Zones!Next1
    <3>2. loop.items[1].event.age \in Nat
      BY <2>3 DEF Event
    <3>3. QED BY <2>1, <3>1, <3>2
  <2>5. Len(loop.items) * PostTimeout >= PostTimeout
    <3>1. Len(loop.items) - 1 \in Nat /\ (Len(loop.items) - 1) + 1 = Len(loop.items)
      BY <2>2
    <3>2. (Len(loop.items) - 1) * PostTimeout \in Nat
      BY <3>1
    <3>3. Len(loop.items) * PostTimeout = (Len(loop.items) - 1) * PostTimeout + PostTimeout
      BY <3>1
    <3>4. QED BY <3>2, <3>3
  <2>6. loop.items[1].event.age \in Nat /\ Len(loop.items) * PostTimeout \in Nat
    BY <2>2, <2>3 DEF Event
  <2> DEFINE x == Len(loop.items) * PostTimeout
             y == loop.items[1].event.age
  <2>7. x \in Nat /\ x >= PostTimeout /\ loop.lag + x <= QueueTime + took
    BY <2>1, <2>5, <2>6
  <2>8. y \in Nat /\ y <= MaxEventAge + loop.lag
    BY <2>4, <2>6
  <2> HIDE DEF x, y
  <2>9. y <= MaxDelay
    BY <2>1, <2>7, <2>8 DEF MaxDelay
  <2>10. QED BY <2>3, <2>9 DEF y
<1>3. QED BY <1>1, <1>2 DEF Zones!Posting

LEMMA ZonesStart ==
  ASSUME Init
  PROVE  ZonesTyped /\ EventsOnTime /\ SightingsOnTime /\ TakenBehindLast
<1> USE Limits DEF Init, Zones!TabletZonesInit, Zones!Free, Zones!At
<1>1. ZonesTyped
  <2>1. <<>> \in Seq(Event) /\ <<>> \in Seq(Item) /\ Len(<<>>) = 0
    OBVIOUS
  <2>2. loop \in [at : {"free", "flush", "post"}, items : Seq(Item), lag : Nat]
    BY <2>1
  <2>3. last \in [Robots -> [Cameras -> Nat]]
    OBVIOUS
  <2>4. arrival \in [claim : Nat \cup {None}, arrived : BOOLEAN, confirmed : BOOLEAN, gap : Nat]
    BY DEF Unclaimed
  <2>5. QED BY <2>1, <2>2, <2>3, <2>4 DEF ZonesTyped
<1>2. EventsOnTime
  BY DEF EventsOnTime
<1>3. SightingsOnTime
  BY DEF SightingsOnTime, Unclaimed
<1>4. TakenBehindLast
  BY DEF TakenBehindLast, EventTakenOnce
<1>5. QED BY <1>1, <1>2, <1>3, <1>4

(* The next item of a flush: what is left of the queue still fits the time. *)
LEMMA RestFacts ==
  ASSUME ZonesTyped, EventsOnTime, loop.at = "flush",
         loop' = Zones!Rest, todo' = todo, took' \in Nat
  PROVE  /\ loop' \in [at : {"free", "flush", "post"}, items : Seq(Item), lag : Nat]
         /\ EventsOnTime'
<1> USE Limits, QueueTimes
<1>1. /\ loop \in [at : {"free", "flush", "post"}, items : Seq(Item), lag : Nat]
      /\ took \in 0..PostTimeout /\ todo \in Seq(Event)
      /\ todo # <<>> /\ todo[1].age <= MaxEventAge + loop.lag /\ loop.items # <<>>
      /\ loop.lag + Len(loop.items) * PostTimeout <= QueueTime + took
  BY DEF ZonesTyped, EventsOnTime
<1> DEFINE n == Len(loop.items)
<1>2. loop.items \in Seq(Item) /\ n \in Nat /\ n >= 1 /\ loop.lag \in Nat
  BY <1>1
<1>3. /\ (n - 1) \in Nat /\ (n - 1) * PostTimeout \in Nat
      /\ n * PostTimeout = (n - 1) * PostTimeout + PostTimeout
  <2> HIDE DEF n
  <2>1. n - 1 \in Nat /\ (n - 1) + 1 = n
    BY <1>2
  <2> DEFINE k == n - 1
  <2>2. k \in Nat /\ n = k + 1
    BY <2>1
  <2> HIDE DEF k
  <2>3. k * PostTimeout \in Nat /\ (k + 1) * PostTimeout = k * PostTimeout + PostTimeout
    BY <2>2, QueueTimes
  <2>4. QED BY <2>1, <2>2, <2>3 DEF k
<1> DEFINE rest == (n - 1) * PostTimeout
<1>4. loop.lag + rest <= QueueTime /\ loop.lag <= QueueTime
  <2> HIDE DEF rest
  <2>1. loop.lag + (rest + PostTimeout) <= QueueTime + took
    BY <1>1, <1>3 DEF rest
  <2>2. QED BY <1>1, <1>2, <1>3, <2>1 DEF rest
<1>5. CASE n = 1
  <2>1. loop' = [at |-> "post", items |-> <<>>, lag |-> 0]
    BY <1>5 DEF Zones!Rest, Zones!At
  <2>2. todo[1].age \in Nat
    <3>1. todo[1] \in Event
      BY <1>1
    <3>2. QED BY <3>1 DEF Event
  <2>3. todo[1].age <= MaxEventAge + QueueTime + took'
    <3> DEFINE age == todo[1].age
               lag == loop.lag
    <3>1. /\ age \in Nat /\ lag \in Nat /\ took' \in Nat /\ QueueTime \in Nat /\ MaxEventAge \in Nat
          /\ age <= MaxEventAge + lag /\ lag <= QueueTime
      BY <1>1, <1>2, <1>4, <2>2
    <3>2. \A x, l, q, m, k \in Nat : x <= m + l /\ l <= q => x <= m + q + k
      OBVIOUS
    <3> HIDE DEF age, lag
    <3>3. age <= MaxEventAge + QueueTime + took'
      BY <3>1, <3>2
    <3>4. QED BY <3>3 DEF age
  <2>4. loop' \in [at : {"free", "flush", "post"}, items : Seq(Item), lag : Nat]
    BY <2>1
  <2>5. QED BY <1>1, <2>1, <2>3, <2>4 DEF EventsOnTime, QueueTime
<1>6. CASE n # 1
  <2>1. loop' = [loop EXCEPT !.items = Tail(loop.items)]
    BY <1>6 DEF Zones!Rest
  <2>2. Tail(loop.items) \in Seq(Item) /\ Len(Tail(loop.items)) = n - 1 /\ Tail(loop.items) # <<>>
    <3>1. loop.items # <<>> /\ Tail(loop.items) \in Seq(Item) /\ Len(Tail(loop.items)) = n - 1
      BY <1>1, <1>2
    <3>2. n - 1 # 0
      BY <1>2, <1>6
    <3>3. QED BY <3>1, <3>2
  <2>3. /\ loop' \in [at : {"free", "flush", "post"}, items : Seq(Item), lag : Nat]
        /\ loop'.at = "flush" /\ loop'.items = Tail(loop.items) /\ loop'.lag = loop.lag
    BY <1>1, <2>1, <2>2
  <2>4. loop'.lag + Len(loop'.items) * PostTimeout <= QueueTime + took'
    <3>1. Len(loop'.items) * PostTimeout = rest
      BY <2>2, <2>3
    <3> HIDE DEF rest
    <3>2. loop.lag + rest <= QueueTime + took'
      BY <1>2, <1>3, <1>4 DEF rest
    <3>3. QED BY <2>3, <3>1, <3>2
  <2>5. QED BY <1>1, <2>2, <2>3, <2>4 DEF EventsOnTime, QueueTime
<1>7. QED BY <1>5, <1>6

LEMMA ZoneFrameKeeps ==
  ASSUME ZonesTyped, NEW c \in Cameras, NEW saw, Zones!ZoneFrame(c, saw)
  PROVE  /\ number' \in Nat /\ todo' \in Seq(Event)
         /\ loop.at = "free" /\ UNCHANGED <<loop, queue, took>>
<1> DEFINE counted == [r \in Zones!Targets |-> Zones!Counted(det[c][r], r \in saw)]
           changed == {r \in Zones!Targets : Zones!Enters(counted[r]) \/ Zones!Exits(counted[r])}
<1>1. PICK moved \in Zones!InOrder(changed) :
        /\ number' = number + Len(moved)
        /\ todo' = [i \in DOMAIN moved |->
              [robot |-> moved[i], camera |-> c, number |-> number + i, age |-> 0,
               type |-> IF Zones!Enters(counted[moved[i]]) THEN "ENTER" ELSE "EXIT"]]
  BY DEF Zones!ZoneFrame
<1>2. changed \subseteq Robots
  <2>1. Zones!Targets \subseteq Robots
    BY VisionAssumption DEF Zones!Targets
  <2>2. QED BY <2>1
<1> HIDE DEF changed, counted
<1>3. PICK n \in 0 .. Len(RobotOrder) : moved \in [1 .. n -> changed]
  BY DEF Zones!InOrder
<1>4. n \in Nat /\ Len(moved) = n /\ DOMAIN moved = 1 .. n
  <2>1. Len(RobotOrder) \in Nat
    BY VisionAssumption
  <2>2. n \in Nat /\ moved \in Seq(changed)
    BY <1>3, <2>1
  <2>3. QED BY <1>3, <2>2
<1>5. number \in Nat
  BY DEF ZonesTyped
<1>6. ASSUME NEW i \in 1 .. n
      PROVE  [robot |-> moved[i], camera |-> c, number |-> number + i, age |-> 0,
              type |-> IF Zones!Enters(counted[moved[i]]) THEN "ENTER" ELSE "EXIT"] \in Event
  <2>1. moved[i] \in Robots /\ number + i \in Nat
    BY <1>2, <1>3, <1>4, <1>5
  <2>2. QED BY <2>1 DEF Event
<1>7. todo' \in [1 .. n -> Event]
  BY <1>1, <1>4, <1>6
<1>8. todo' \in Seq(Event)
  BY <1>4, <1>7
<1>9. loop.at = "free" /\ UNCHANGED <<loop, queue, took>>
  BY DEF Zones!ZoneFrame, Zones!Free, Zones!At
<1>10. QED BY <1>1, <1>4, <1>5, <1>8, <1>9

LEMMA SendKeeps ==
  ASSUME ZonesTyped, EventsOnTime, Zones!Send
  PROVE  /\ todo' \in Seq(Event) /\ queue' \in Seq(Item) /\ Len(queue') <= MaxZoneQueue
         /\ loop' \in [at : {"free", "flush", "post"}, items : Seq(Item), lag : Nat]
         /\ EventsOnTime' /\ UNCHANGED <<number, took>>
<1> USE Limits, QueueTimes
<1>1. /\ loop.at = "free" /\ todo # <<>> /\ todo \in Seq(Event) /\ queue \in Seq(Item)
      /\ Len(queue) <= MaxZoneQueue /\ Len(queue) \in Nat /\ took \in 0..PostTimeout
      /\ loop \in [at : {"free", "flush", "post"}, items : Seq(Item), lag : Nat]
  BY DEF Zones!Send, Zones!Free, Zones!At, ZonesTyped
<1>2. UNCHANGED <<number, took>>
  BY DEF Zones!Send
<1>3. CASE Zones!Expired(Head(todo), 0)
  <2>1. todo' = Tail(todo) /\ UNCHANGED <<loop, queue>>
    BY <1>3 DEF Zones!Send
  <2>2. QED BY <1>1, <1>2, <2>1 DEF EventsOnTime
<1>4. CASE ~ Zones!Expired(Head(todo), 0)
  <2>1. /\ loop' = IF queue = <<>> THEN Zones!At("post", <<>>, 0) ELSE Zones!At("flush", queue, 0)
        /\ queue' = <<>> /\ todo' = todo
    BY <1>4 DEF Zones!Send
  <2>2. Head(todo) = todo[1] /\ todo[1] \in Event
    BY <1>1
  <2>3. todo[1].age \in Nat /\ todo[1].age <= MaxEventAge
    <3>1. todo[1].age \in Nat
      BY <2>2 DEF Event
    <3>2. ~ (todo[1].age > MaxEventAge + 0)
      BY <1>4, <2>2 DEF Zones!Expired
    <3>3. QED BY <3>1, <3>2
  <2>4. queue' \in Seq(Item) /\ Len(queue') <= MaxZoneQueue
    BY <2>1
  <2>5. CASE queue = <<>>
    <3>1. loop' = [at |-> "post", items |-> <<>>, lag |-> 0]
      BY <2>1, <2>5 DEF Zones!At
    <3>2. todo'[1].age <= MaxEventAge + QueueTime + took'
      BY <1>1, <1>2, <2>1, <2>3
    <3>3. loop' \in [at : {"free", "flush", "post"}, items : Seq(Item), lag : Nat]
      BY <3>1
    <3>4. QED BY <1>1, <1>2, <2>1, <2>4, <3>1, <3>2, <3>3 DEF EventsOnTime, QueueTime
  <2>6. CASE queue # <<>>
    <3>1. loop' = [at |-> "flush", items |-> queue, lag |-> 0]
      BY <2>1, <2>6 DEF Zones!At
    <3>2. Len(queue) * PostTimeout <= QueueTime /\ Len(queue) * PostTimeout \in Nat
      BY <1>1
    <3>3. loop'.lag + Len(loop'.items) * PostTimeout <= QueueTime + took'
      BY <1>1, <1>2, <3>1, <3>2
    <3>4. loop' \in [at : {"free", "flush", "post"}, items : Seq(Item), lag : Nat]
      BY <1>1, <3>1
    <3>5. QED BY <1>1, <1>2, <2>1, <2>3, <2>4, <2>6, <3>1, <3>3, <3>4 DEF EventsOnTime, QueueTime
  <2>7. QED BY <2>5, <2>6
<1>5. QED BY <1>3, <1>4

LEMMA SkipKeeps ==
  ASSUME ZonesTyped, EventsOnTime, Zones!Skip
  PROVE  /\ queue' \in Seq(Item) /\ Len(queue') <= MaxZoneQueue
         /\ loop' \in [at : {"free", "flush", "post"}, items : Seq(Item), lag : Nat]
         /\ EventsOnTime' /\ UNCHANGED <<number, todo, took>>
<1>1. loop.at = "flush" /\ loop' = Zones!Rest /\ UNCHANGED <<number, todo, took>> /\ took \in Nat
  BY Limits DEF Zones!Skip, ZonesTyped
<1>2. /\ loop' \in [at : {"free", "flush", "post"}, items : Seq(Item), lag : Nat]
      /\ EventsOnTime'
  BY <1>1, RestFacts
<1>3. queue \in Seq(Item) /\ Len(queue) <= MaxZoneQueue
  BY DEF ZonesTyped
<1>4. [Zones!Next1 EXCEPT !.wait = Zones!Left(@)] \in Item
  <2>1. Zones!Next1 \in Item /\ loop.lag \in Nat
    BY <1>1 DEF Zones!Next1, EventsOnTime, ZonesTyped
  <2>2. Zones!Left(Zones!Next1.wait) \in Nat
    BY <2>1 DEF Zones!Left, Item
  <2>3. QED BY <2>1, <2>2 DEF Item
<1>5. queue' \in Seq(Item) /\ Len(queue') <= MaxZoneQueue
  BY <1>3, <1>4, QueuedFacts DEF Zones!Skip
<1>6. QED BY <1>1, <1>2, <1>5

LEMMA AnsweredKeeps ==
  ASSUME ZonesTyped, EventsOnTime, NEW ok \in BOOLEAN, Zones!Answered(ok)
  PROVE  /\ queue' \in Seq(Item) /\ Len(queue') <= MaxZoneQueue /\ todo' \in Seq(Event)
         /\ loop' \in [at : {"free", "flush", "post"}, items : Seq(Item), lag : Nat]
         /\ EventsOnTime' /\ took' = 0 /\ UNCHANGED number
<1> USE Limits
<1>1. /\ queue \in Seq(Item) /\ Len(queue) <= MaxZoneQueue /\ todo \in Seq(Event)
      /\ loop \in [at : {"free", "flush", "post"}, items : Seq(Item), lag : Nat]
  BY DEF ZonesTyped
<1>2. CASE Zones!Retried(ok)
  <2>1. /\ loop.at = "flush" /\ loop' = Zones!Rest /\ UNCHANGED <<number, todo>> /\ took' = 0
        /\ queue' = IF ok \/ Zones!Next1.retries = MaxRetries THEN queue
                    ELSE Zones!Queued([Zones!Next1 EXCEPT !.retries = @ + 1,
                              !.wait = Zones!Left(Backoff[Zones!Next1.retries + 1])])
    BY <1>2 DEF Zones!Retried, Zones!Due
  <2>2. /\ loop' \in [at : {"free", "flush", "post"}, items : Seq(Item), lag : Nat]
        /\ EventsOnTime'
    BY <2>1, RestFacts
  <2>3. Zones!Next1 \in Item /\ loop.lag \in Nat
    <3>1. loop.items # <<>> /\ loop.items \in Seq(Item) /\ loop.lag \in Nat
      BY <1>1, <2>1 DEF EventsOnTime
    <3>2. QED BY <3>1 DEF Zones!Next1
  <2>4. ASSUME Zones!Next1.retries # MaxRetries
        PROVE  [Zones!Next1 EXCEPT !.retries = @ + 1,
                    !.wait = Zones!Left(Backoff[Zones!Next1.retries + 1])] \in Item
    <3>1. Zones!Next1.retries + 1 \in 1 .. MaxRetries
      BY <2>3, <2>4, VisionAssumption DEF Item
    <3>2. Backoff[Zones!Next1.retries + 1] \in Nat
      BY <3>1, VisionAssumption
    <3>3. Zones!Left(Backoff[Zones!Next1.retries + 1]) \in Nat
      BY <2>3, <3>2 DEF Zones!Left
    <3>4. QED BY <2>3, <3>1, <3>3 DEF Item
  <2>5. queue' \in Seq(Item) /\ Len(queue') <= MaxZoneQueue
    BY <1>1, <2>1, <2>4, QueuedFacts
  <2>6. QED BY <1>1, <2>1, <2>2, <2>5
<1>3. CASE Zones!Sent(ok)
  <2>1. /\ loop.at = "post" /\ took' = 0 /\ loop' = [at |-> "free", items |-> <<>>, lag |-> 0]
        /\ todo' = Tail(todo) /\ number' = number
        /\ queue' = IF ok \/ Zones!Expired(Head(todo), 0) THEN queue
                    ELSE Zones!Queued([event |-> Head(todo), retries |-> 1, wait |-> Backoff[1]])
    BY <1>3 DEF Zones!Sent, Zones!Free, Zones!At
  <2>2. todo # <<>> /\ Head(todo) \in Event /\ Tail(todo) \in Seq(Event)
    BY <1>1, <2>1 DEF EventsOnTime
  <2>3. 1 \in 1 .. MaxRetries /\ Backoff[1] \in Nat
    BY VisionAssumption
  <2>4. [event |-> Head(todo), retries |-> 1, wait |-> Backoff[1]] \in Item
    BY <2>2, <2>3 DEF Item
  <2>5. queue' \in Seq(Item) /\ Len(queue') <= MaxZoneQueue
    BY <1>1, <2>1, <2>4, QueuedFacts
  <2>6. loop' \in [at : {"free", "flush", "post"}, items : Seq(Item), lag : Nat]
    BY <2>1
  <2>7. QED BY <2>1, <2>2, <2>5, <2>6 DEF EventsOnTime
<1>4. QED BY <1>2, <1>3 DEF Zones!Answered

LEMMA TabletKeeps ==
  ASSUME ZonesTyped, EventsOnTime, Zones!TabletZonesTick
  PROVE  /\ queue' \in Seq(Item) /\ Len(queue') <= MaxZoneQueue /\ todo' \in Seq(Event)
         /\ loop' \in [at : {"free", "flush", "post"}, items : Seq(Item), lag : Nat]
         /\ EventsOnTime' /\ took' \in 0..PostTimeout /\ UNCHANGED number
<1> USE Limits, QueueTimes
<1>1. /\ queue \in Seq(Item) /\ Len(queue) <= MaxZoneQueue /\ todo \in Seq(Event)
      /\ loop \in [at : {"free", "flush", "post"}, items : Seq(Item), lag : Nat]
      /\ took \in 0..PostTimeout
  BY DEF ZonesTyped
<1>2. /\ took' = IF Zones!Posting THEN took + 1 ELSE 0
      /\ Zones!Posting => took < PostTimeout
      /\ todo' = [i \in DOMAIN todo |-> Zones!Aged(todo[i])]
      /\ loop.at # "free" => Zones!Posting
      /\ UNCHANGED number
  BY DEF Zones!TabletZonesTick, Zones!Free, Zones!At
<1>3. took' \in 0..PostTimeout
  BY <1>1, <1>2
<1>4. ASSUME NEW i \in DOMAIN todo
      PROVE  Zones!Aged(todo[i]) \in Event /\ Zones!Aged(todo[i]).age <= todo[i].age + 1
  <2>1. todo[i] \in Event
    BY <1>1
  <2>2. QED BY <2>1, AgedEvent
<1>5. todo' \in Seq(Event) /\ Len(todo') = Len(todo)
  <2>1. DOMAIN todo = 1 .. Len(todo) /\ Len(todo) \in Nat
    BY <1>1
  <2>2. todo' \in [1 .. Len(todo) -> Event]
    BY <1>2, <1>4, <2>1, Zenon
  <2>3. QED BY <2>1, <2>2
<1>6. queue' \in Seq(Item) /\ Len(queue') <= MaxZoneQueue
  <2>1. Zones!AgedAll(queue) \in Seq(Item) /\ Len(Zones!AgedAll(queue)) = Len(queue)
    BY <1>1, AgedFacts
  <2>2. queue' = [i \in DOMAIN queue |->
            [Zones!AgedAll(queue)[i] EXCEPT !.wait = IF @ > 0 THEN @ - 1 ELSE 0]]
    BY DEF Zones!TabletZonesTick
  <2>3. ASSUME NEW i \in DOMAIN queue
        PROVE  [Zones!AgedAll(queue)[i] EXCEPT !.wait = IF @ > 0 THEN @ - 1 ELSE 0] \in Item
    <3>1. Zones!AgedAll(queue)[i] \in Item
      BY <1>1, <2>1
    <3> DEFINE w == Zones!AgedAll(queue)[i].wait
    <3>2. (IF w > 0 THEN w - 1 ELSE 0) \in Nat
      BY <3>1 DEF Item
    <3>3. QED BY <3>1, <3>2 DEF Item
  <2>4. DOMAIN queue = 1 .. Len(queue)
    BY <1>1
  <2> DEFINE aged(i) == [Zones!AgedAll(queue)[i] EXCEPT !.wait = IF @ > 0 THEN @ - 1 ELSE 0]
  <2>6. queue' = [i \in DOMAIN queue |-> aged(i)] /\ \A i \in DOMAIN queue : aged(i) \in Item
    BY <2>2, <2>3
  <2> HIDE DEF aged
  <2>7. queue' \in [1 .. Len(queue) -> Item]
    BY <2>4, <2>6
  <2>8. QED BY <1>1, <2>7
<1>7. /\ Zones!AgedAll(loop.items) \in Seq(Item)
      /\ Len(Zones!AgedAll(loop.items)) = Len(loop.items)
      /\ loop.items # <<>> => Zones!AgedAll(loop.items) # <<>>
  BY <1>1, AgedFacts
<1>8. loop' = [at |-> loop.at, items |-> Zones!AgedAll(loop.items),
               lag |-> IF loop.at = "flush" THEN loop.lag + 1 ELSE 0]
  <2>1. loop' = [loop EXCEPT !.items = Zones!AgedAll(loop.items),
                             !.lag = IF loop.at = "flush" THEN loop.lag + 1 ELSE 0]
    BY DEF Zones!TabletZonesTick
  <2>2. QED BY <1>1, <2>1
<1>9. loop' \in [at : {"free", "flush", "post"}, items : Seq(Item), lag : Nat]
  BY <1>1, <1>7, <1>8
<1>10. ASSUME todo # <<>>
       PROVE  todo' # <<>> /\ todo[1].age \in Nat /\ todo'[1].age \in Nat
              /\ todo'[1].age <= todo[1].age + 1
  <2>1. 1 \in DOMAIN todo /\ todo[1] \in Event
    BY <1>1, <1>10
  <2>2. todo'[1] = Zones!Aged(todo[1])
    BY <1>2, <2>1
  <2>3. QED BY <1>4, <1>5, <1>10, <2>1, <2>2 DEF Event
<1>11. CASE loop.at = "flush"
  <2>1. /\ todo # <<>> /\ todo[1].age <= MaxEventAge + loop.lag /\ loop.items # <<>>
        /\ loop.lag + Len(loop.items) * PostTimeout <= QueueTime + took
    BY <1>11 DEF EventsOnTime
  <2>2. took' = took + 1 /\ loop'.lag = loop.lag + 1 /\ loop'.at = "flush"
        /\ loop'.items = Zones!AgedAll(loop.items) /\ loop.lag \in Nat
    BY <1>1, <1>2, <1>8, <1>11
  <2>3. todo'[1].age <= MaxEventAge + loop'.lag
    <3> DEFINE x == todo[1].age
               y == todo'[1].age
    <3>1. x \in Nat /\ y \in Nat /\ y <= x + 1 /\ x <= MaxEventAge + loop.lag
      BY <1>10, <2>1
    <3> HIDE DEF x, y
    <3>2. y <= MaxEventAge + (loop.lag + 1)
      BY <2>2, <3>1
    <3>3. QED BY <2>2, <3>2 DEF y
  <2>4. Len(loop.items) * PostTimeout \in Nat
    <3>1. Len(loop.items) \in Nat
      BY <1>1
    <3>2. QED BY <3>1
  <2>5. loop'.lag + Len(loop'.items) * PostTimeout <= QueueTime + took'
    <3>1. Len(loop'.items) = Len(loop.items)
      BY <1>7, <2>2
    <3> DEFINE x == Len(loop.items) * PostTimeout
    <3>2. x \in Nat /\ loop.lag + x <= QueueTime + took
      BY <2>1, <2>4
    <3> HIDE DEF x
    <3>3. (loop.lag + 1) + x <= QueueTime + (took + 1)
      BY <1>1, <2>2, <3>2
    <3>4. QED BY <2>2, <3>1, <3>3 DEF x
  <2>6. QED BY <1>3, <1>5, <1>6, <1>7, <1>9, <1>10, <1>2, <2>1, <2>2, <2>3, <2>5
              DEF EventsOnTime, QueueTime
<1>12. CASE loop.at = "post"
  <2>1. todo # <<>> /\ todo[1].age <= MaxEventAge + QueueTime + took
    BY <1>12 DEF EventsOnTime
  <2>2. took' = took + 1 /\ loop'.at = "post"
    BY <1>2, <1>8, <1>12
  <2>3. todo'[1].age <= MaxEventAge + QueueTime + took'
    <3> DEFINE x == todo[1].age
               y == todo'[1].age
    <3>1. x \in Nat /\ y \in Nat /\ y <= x + 1 /\ x <= MaxEventAge + QueueTime + took
      BY <1>10, <2>1
    <3> HIDE DEF x, y
    <3>2. y <= MaxEventAge + QueueTime + (took + 1)
      BY <1>1, <3>1
    <3>3. QED BY <2>2, <3>2 DEF y
  <2>4. QED BY <1>2, <1>3, <1>5, <1>6, <1>9, <1>10, <2>1, <2>2, <2>3 DEF EventsOnTime, QueueTime
<1>13. CASE loop.at = "free"
  <2>1. loop'.at = "free"
    BY <1>8, <1>13
  <2>2. QED BY <1>2, <1>3, <1>5, <1>6, <1>9, <2>1 DEF EventsOnTime
<1>14. QED BY <1>1, <1>11, <1>12, <1>13

(* The coordinator's part of ZonesTyped. *)
Arrival == [claim : Nat \cup {None}, arrived : BOOLEAN, confirmed : BOOLEAN, gap : Nat]
CoordinatorTyped ==
    /\ last \in [Robots -> [Cameras -> Nat]]
    /\ stored # None => stored \in Sighting
    /\ arrival \in Arrival

(* A sighting confirms an arrival by what passed between the two. *)
LEMMA ConfirmedFacts ==
  ASSUME NEW a \in Arrival, NEW z \in Sighting, NEW age \in Nat
  PROVE  Confirmed(a, z, age) \in Arrival /\ Confirmed(a, z, age).gap = z.delay + age
<1>1. z.delay \in Nat /\ z.delay + age \in Nat
  BY DEF Sighting
<1>2. Confirmed(a, z, age) = [a EXCEPT !.confirmed = TRUE, !.gap = z.delay + age]
  BY DEF Confirmed
<1>3. QED BY <1>1, <1>2 DEF Arrival

LEMMA TakenKeeps ==
  ASSUME CoordinatorTyped, SightingsOnTime, TakenBehindLast,
         NEW e \in Event, e.age <= MaxDelay, Taken(e)
  PROVE  CoordinatorTyped' /\ SightingsOnTime' /\ TakenBehindLast'
<1> USE Limits, QueueTimes
<1>1. CASE UNCHANGED coordinator
  BY <1>1 DEF coordinator, CoordinatorTyped, SightingsOnTime, TakenBehindLast, EventTakenOnce,
       MaxDelay, QueueTime
<1>2. CASE IsNew(e) /\ last' = [last EXCEPT ![e.robot][e.camera] = e.number]
           /\ e.robot # Me /\ UNCHANGED <<stored, arrival, taken, doubled>>
  <2>1. CoordinatorTyped'
    BY <1>2 DEF CoordinatorTyped, Event
  <2>2. last'[Me] = last[Me]
    BY <1>2, VisionAssumption DEF CoordinatorTyped
  <2>3. TakenBehindLast'
    BY <1>2, <2>2 DEF TakenBehindLast, EventTakenOnce
  <2>4. SightingsOnTime'
    BY <1>2 DEF SightingsOnTime, MaxDelay, QueueTime
  <2>5. QED BY <2>1, <2>3, <2>4
<1>3. CASE IsNew(e) /\ last' = [last EXCEPT ![e.robot][e.camera] = e.number]
           /\ e.robot = Me /\ Seen(e)
  <2> DEFINE z == [camera |-> e.camera, type |-> e.type, delay |-> e.age, age |-> 0]
             d == <<e.camera, e.number>>
  <2>1. z \in Sighting /\ z.delay = e.age /\ e.age \in Nat
    BY DEF Sighting, Event
  <2>2. stored' = z /\ arrival' \in {arrival, Confirmed(arrival, z, 0)}
    BY <1>3 DEF Seen
  <2>3. arrival \in Arrival
    BY DEF CoordinatorTyped
  <2>4. Confirmed(arrival, z, 0) \in Arrival /\ Confirmed(arrival, z, 0).gap = z.delay + 0
    BY <2>1, <2>3, ConfirmedFacts
  <2>5. last' \in [Robots -> [Cameras -> Nat]] /\ stored' \in Sighting /\ arrival' \in Arrival
    <3> HIDE DEF z
    <3>1. last' \in [Robots -> [Cameras -> Nat]]
      BY <1>3 DEF CoordinatorTyped, Event
    <3>2. QED BY <2>1, <2>2, <2>3, <2>4, <3>1
  <2>6. CoordinatorTyped'
    BY <2>5 DEF CoordinatorTyped
  <2>7. SightingsOnTime'
    <3>1. stored'.delay <= MaxDelay
      BY <2>1, <2>2
    <3>2. CASE arrival' = arrival
      BY <3>1, <3>2 DEF SightingsOnTime, MaxDelay, QueueTime
    <3>3. CASE arrival' = Confirmed(arrival, z, 0)
      <4>1. arrival'.gap = e.age
        BY <2>1, <2>4, <3>3
      <4>2. e.age <= MaxDelay + GoalTimeout
        BY <2>1
      <4>3. QED BY <3>1, <4>1, <4>2 DEF SightingsOnTime, MaxDelay, QueueTime
    <3>4. QED BY <2>2, <3>2, <3>3
  <2>8. /\ taken' = taken \cup {d} /\ doubled' = doubled \cup ({d} \cap taken)
        /\ e.camera \in Cameras /\ e.number \in Nat
        /\ last[Me][e.camera] \in Nat /\ last'[Me][e.camera] = e.number
        /\ \A c \in Cameras : c # e.camera => last'[Me][c] = last[Me][c]
        /\ e.number = 1 \/ e.number > last[Me][e.camera]
    <3>1. taken' = taken \cup {d} /\ doubled' = doubled \cup ({d} \cap taken)
      BY <1>3 DEF Seen
    <3>2. e.camera \in Cameras /\ e.number \in Nat /\ Me \in Robots
      BY VisionAssumption DEF Event
    <3>3. last[Me] \in [Cameras -> Nat] /\ last'[Me] = [last[Me] EXCEPT ![e.camera] = e.number]
      BY <1>3, <3>2 DEF CoordinatorTyped
    <3>4. e.number = 1 \/ e.number > last[Me][e.camera]
      BY <1>3 DEF IsNew
    <3>5. QED BY <3>1, <3>2, <3>3, <3>4
  <2> HIDE DEF d
  <2>9. ASSUME NEW x \in taken'
        PROVE  x \in Cameras \X Nat /\ (x[2] <= last'[Me][x[1]] \/ <<x[1], 1>> \in taken')
    <3>1. CASE x = d
      BY <2>8, <3>1 DEF d
    <3>2. CASE x \in taken /\ x[1] # e.camera
      BY <2>8, <3>2 DEF TakenBehindLast
    <3>3. CASE x \in taken /\ x[1] = e.camera
      <4>1. x \in Cameras \X Nat /\ (x[2] <= last[Me][e.camera] \/ <<e.camera, 1>> \in taken)
        BY <3>3 DEF TakenBehindLast
      <4>2. CASE e.number = 1
        BY <2>8, <3>3, <4>1, <4>2 DEF d
      <4>3. CASE e.number > last[Me][e.camera]
        <5>1. x[2] \in Nat
          BY <4>1
        <5>2. x[2] <= e.number \/ <<e.camera, 1>> \in taken
          BY <2>8, <4>1, <4>3, <5>1
        <5>3. QED BY <2>8, <3>3, <4>1, <5>2
      <4>4. QED BY <2>8, <4>2, <4>3
    <3>4. QED BY <2>8, <3>1, <3>2, <3>3
  <2>10. ASSUME NEW x \in doubled'
         PROVE  <<x[1], 1>> \in taken'
    <3>1. CASE x \in doubled
      BY <2>8, <3>1 DEF TakenBehindLast, EventTakenOnce
    <3>2. CASE x = d /\ d \in taken
      <4>1. d = <<e.camera, e.number>> /\ d[1] = e.camera /\ d[2] = e.number
        BY DEF d
      <4>2. e.number <= last[Me][e.camera] \/ <<e.camera, 1>> \in taken
        BY <3>2, <4>1 DEF TakenBehindLast
      <4>3. QED BY <2>8, <3>2, <4>1, <4>2
    <3>3. QED BY <2>8, <3>1, <3>2
  <2>11. TakenBehindLast'
    BY <2>9, <2>10 DEF TakenBehindLast, EventTakenOnce
  <2>12. QED BY <2>6, <2>7, <2>11
<1>4. QED BY <1>1, <1>2, <1>3 DEF Taken, coordinator

LEMMA ArriveKeeps ==
  ASSUME CoordinatorTyped, SightingsOnTime, Arrive
  PROVE  arrival' \in Arrival /\ (arrival'.confirmed => arrival'.gap <= MaxDelay + GoalTimeout)
<1> USE Limits, QueueTimes
<1> DEFINE landed == [arrival EXCEPT !.arrived = TRUE]
<1>1. /\ landed \in Arrival
      /\ landed.confirmed => landed.gap <= MaxDelay + GoalTimeout
  BY DEF CoordinatorTyped, Arrival, SightingsOnTime
<1>2. CASE stored # None /\ AtGoal(stored, stored.age)
  <2>1. arrival' = Confirmed(landed, stored, stored.age)
    BY <1>2 DEF Arrive
  <2>2. stored \in Sighting /\ stored.delay <= MaxDelay /\ stored.age <= GoalTimeout
    BY <1>2 DEF CoordinatorTyped, SightingsOnTime, AtGoal
  <2>3. stored.age \in Nat /\ stored.delay \in Nat
    BY <2>2 DEF Sighting
  <2> HIDE DEF landed
  <2>4. arrival' \in Arrival /\ arrival'.gap = stored.delay + stored.age
    BY <1>1, <2>1, <2>2, <2>3, ConfirmedFacts
  <2>5. QED BY <2>2, <2>3, <2>4
<1>3. CASE ~ (stored # None /\ AtGoal(stored, stored.age))
  BY <1>1, <1>3 DEF Arrive
<1>4. QED BY <1>2, <1>3

LEMMA ZoneTickKeeps ==
  ASSUME CoordinatorTyped, SightingsOnTime, ZoneTick
  PROVE  /\ stored' # None => stored' \in Sighting /\ stored'.delay <= MaxDelay
         /\ arrival' \in Arrival /\ (arrival'.confirmed => arrival'.gap <= MaxDelay + GoalTimeout)
<1> USE Limits, QueueTimes
<1>1. stored' # None => stored' \in Sighting /\ stored'.delay <= MaxDelay
  <2>1. CASE stored = None \/ Claimed
    BY <2>1 DEF ZoneTick, CoordinatorTyped, SightingsOnTime
  <2>2. CASE ~ (stored = None \/ Claimed)
    <3>1. stored' = [stored EXCEPT !.age = IF @ > GoalTimeout THEN @ ELSE @ + 1]
      BY <2>2 DEF ZoneTick
    <3>2. stored \in Sighting /\ stored.delay <= MaxDelay
      BY <2>2 DEF CoordinatorTyped, SightingsOnTime
    <3>3. QED BY <3>1, <3>2 DEF Sighting
  <2>3. QED BY <2>1, <2>2
<1>2. arrival' \in Arrival /\ (arrival'.confirmed => arrival'.gap <= MaxDelay + GoalTimeout)
  <2>1. arrival \in Arrival /\ (arrival.confirmed => arrival.gap <= MaxDelay + GoalTimeout)
    BY DEF CoordinatorTyped, SightingsOnTime
  <2>2. CASE ~ Claimed
    BY <2>1, <2>2 DEF ZoneTick
  <2>3. CASE Claimed
    <3>1. arrival' = [arrival EXCEPT !.claim = IF @ = ConfirmTime THEN @ ELSE @ + 1]
      BY <2>3 DEF ZoneTick
    <3>2. arrival.claim \in Nat
      BY <2>1, <2>3 DEF Arrival, Claimed
    <3>3. QED BY <2>1, <3>1, <3>2 DEF Arrival
  <2>4. QED BY <2>2, <2>3
<1>3. QED BY <1>1, <1>2

ZonesInv == ZonesTyped /\ EventsOnTime /\ SightingsOnTime /\ TakenBehindLast

\* The two halves of ZonesTyped.
TabletTyped ==
    /\ number \in Nat /\ took \in 0..PostTimeout
    /\ todo \in Seq(Event) /\ queue \in Seq(Item) /\ Len(queue) <= MaxZoneQueue
    /\ loop \in [at : {"free", "flush", "post"}, items : Seq(Item), lag : Nat]

LEMMA TwoHalves == ZonesTyped <=> TabletTyped /\ CoordinatorTyped
BY DEF ZonesTyped, TabletTyped, CoordinatorTyped, Arrival

LEMMA CoordinatorUnmoved ==
  CoordinatorTyped /\ SightingsOnTime /\ TakenBehindLast /\ UNCHANGED coordinator
    => CoordinatorTyped' /\ SightingsOnTime' /\ TakenBehindLast'
BY DEF coordinator, CoordinatorTyped, SightingsOnTime, TakenBehindLast, EventTakenOnce,
       MaxDelay, QueueTime

LEMMA TabletUnmoved ==
  TabletTyped /\ EventsOnTime /\ UNCHANGED <<number, todo, loop, queue, took>>
    => TabletTyped' /\ EventsOnTime'
BY DEF TabletTyped, EventsOnTime, QueueTime

LEMMA ZonesStep == ZonesInv /\ [Next]_vars => ZonesInv'
<1> SUFFICES ASSUME ZonesInv, [Next]_vars PROVE ZonesInv'
  OBVIOUS
<1> USE Limits
<1>1. ZonesTyped /\ EventsOnTime /\ SightingsOnTime /\ TakenBehindLast
  BY DEF ZonesInv
<1>2. TabletTyped /\ CoordinatorTyped
  BY <1>1, TwoHalves
<1>3. SUFFICES /\ TabletTyped' /\ EventsOnTime'
               /\ CoordinatorTyped' /\ SightingsOnTime' /\ TakenBehindLast'
  <2>1. ZonesTyped' <=> TabletTyped' /\ CoordinatorTyped'
    BY DEF ZonesTyped, TabletTyped, CoordinatorTyped, Arrival
  <2>2. QED BY <1>3, <2>1 DEF ZonesInv
<1>4. CASE UNCHANGED zoneVars
  BY <1>1, <1>2, <1>4, TabletUnmoved, CoordinatorUnmoved DEF zoneVars, coordinator
<1>5. CASE UNCHANGED vars
  BY <1>4, <1>5 DEF vars
<1>6. CASE Pose
  BY <1>4, <1>6 DEF Pose
<1>7. CASE ZoneFrame
  <2>1. PICK c \in Cameras, saw \in SUBSET Zones!Targets : Zones!ZoneFrame(c, saw)
    BY <1>7 DEF ZoneFrame
  <2>2. /\ number' \in Nat /\ todo' \in Seq(Event)
        /\ loop.at = "free" /\ UNCHANGED <<loop, queue, took>>
    BY <1>1, <2>1, ZoneFrameKeeps
  <2>3. TabletTyped' /\ EventsOnTime'
    BY <1>2, <2>2 DEF TabletTyped, EventsOnTime
  <2>4. QED BY <1>1, <1>2, <1>7, <2>3, CoordinatorUnmoved DEF ZoneFrame, ZoneTablet
<1>8. CASE Send
  <2>1. TabletTyped' /\ EventsOnTime'
    BY <1>1, <1>2, <1>8, SendKeeps DEF Send, TabletTyped
  <2>2. QED BY <1>1, <1>2, <1>8, <2>1, CoordinatorUnmoved DEF Send, ZoneTablet
<1>9. CASE Skip
  <2>1. TabletTyped' /\ EventsOnTime'
    BY <1>1, <1>2, <1>9, SkipKeeps DEF Skip, TabletTyped
  <2>2. QED BY <1>1, <1>2, <1>9, <2>1, CoordinatorUnmoved DEF Skip, ZoneTablet
<1>10. CASE ZoneRestart
  <2>1. TabletTyped' /\ EventsOnTime'
    <3>1. /\ number' = 0 /\ todo' = <<>> /\ queue' = <<>> /\ took' = 0
          /\ loop' = [at |-> "free", items |-> <<>>, lag |-> 0]
      BY <1>10 DEF ZoneRestart, Zones!TabletZonesRestart, Zones!Free, Zones!At
    <3>2. <<>> \in Seq(Event) /\ <<>> \in Seq(Item) /\ Len(<<>>) = 0
      OBVIOUS
    <3>3. loop' \in [at : {"free", "flush", "post"}, items : Seq(Item), lag : Nat]
      BY <3>1, <3>2
    <3>4. QED BY <3>1, <3>2, <3>3 DEF TabletTyped, EventsOnTime
  <2>2. UNCHANGED <<last, stored, arrival>> /\ taken' = {} /\ doubled' = {}
    BY <1>10 DEF ZoneRestart
  <2>3. CoordinatorTyped' /\ SightingsOnTime'
    BY <1>1, <1>2, <2>2 DEF CoordinatorTyped, SightingsOnTime, MaxDelay, QueueTime
  <2>4. TakenBehindLast'
    BY <2>2 DEF TakenBehindLast, EventTakenOnce
  <2>5. QED BY <2>1, <2>3, <2>4
<1>11. ASSUME NEW outcome \in Outcomes, PostZone(outcome)
       PROVE  TabletTyped' /\ EventsOnTime'
              /\ CoordinatorTyped' /\ SightingsOnTime' /\ TakenBehindLast'
  <2>1. Zones!Posted \in Event /\ Zones!Posted.age <= MaxDelay
    BY <1>1, <1>11, PostedFacts DEF PostZone
  <2>2. Zones!Answered(outcome = "answered") /\ (outcome = "answered") \in BOOLEAN
    BY <1>11 DEF PostZone
  <2>3. TabletTyped' /\ EventsOnTime'
    <3>1. /\ queue' \in Seq(Item) /\ Len(queue') <= MaxZoneQueue /\ todo' \in Seq(Event)
          /\ loop' \in [at : {"free", "flush", "post"}, items : Seq(Item), lag : Nat]
          /\ EventsOnTime' /\ took' = 0 /\ UNCHANGED number
      BY <1>1, <2>2, AnsweredKeeps
    <3>2. QED BY <1>2, <3>1 DEF TabletTyped
  <2>4. CASE Taken(Zones!Posted)
    BY <1>1, <1>2, <2>1, <2>3, <2>4, TakenKeeps
  <2>5. CASE UNCHANGED coordinator
    BY <1>1, <1>2, <2>3, <2>5, CoordinatorUnmoved
  <2>6. QED BY <1>11, <2>4, <2>5 DEF PostZone
<1>12. CASE Claim
  <2>1. UNCHANGED <<number, todo, loop, queue, took, last, stored, taken, doubled>>
        /\ arrival = Unclaimed /\ arrival' = [arrival EXCEPT !.claim = 0]
    BY <1>12 DEF Claim
  <2>2. arrival' \in Arrival /\ ~ arrival'.confirmed
    BY <2>1 DEF Unclaimed, Arrival
  <2>3. CoordinatorTyped' /\ SightingsOnTime'
    BY <1>1, <1>2, <2>1, <2>2 DEF CoordinatorTyped, SightingsOnTime, MaxDelay, QueueTime
  <2>4. TakenBehindLast'
    BY <1>1, <2>1 DEF TakenBehindLast, EventTakenOnce
  <2>5. QED BY <1>1, <1>2, <2>1, <2>3, <2>4, TabletUnmoved
<1>13. CASE Arrive
  <2>1. UNCHANGED <<number, todo, loop, queue, took, last, stored, taken, doubled>>
    BY <1>13 DEF Arrive
  <2>2. arrival' \in Arrival /\ (arrival'.confirmed => arrival'.gap <= MaxDelay + GoalTimeout)
    BY <1>1, <1>2, <1>13, ArriveKeeps
  <2>3. CoordinatorTyped' /\ SightingsOnTime'
    BY <1>1, <1>2, <2>1, <2>2 DEF CoordinatorTyped, SightingsOnTime, MaxDelay, QueueTime
  <2>4. TakenBehindLast'
    BY <1>1, <2>1 DEF TakenBehindLast, EventTakenOnce
  <2>5. QED BY <1>1, <1>2, <2>1, <2>3, <2>4, TabletUnmoved
<1>14. CASE ZoneTick
  <2>1. UNCHANGED <<last, taken, doubled>> /\ Zones!TabletZonesTick
    BY <1>14 DEF ZoneTick
  <2>2. TabletTyped' /\ EventsOnTime'
    BY <1>1, <1>2, <2>1, TabletKeeps DEF TabletTyped
  <2>3. /\ stored' # None => stored' \in Sighting /\ stored'.delay <= MaxDelay
        /\ arrival' \in Arrival /\ (arrival'.confirmed => arrival'.gap <= MaxDelay + GoalTimeout)
    BY <1>1, <1>2, <1>14, ZoneTickKeeps
  <2>4. CoordinatorTyped' /\ SightingsOnTime'
    BY <1>2, <2>1, <2>3 DEF CoordinatorTyped, SightingsOnTime, MaxDelay, QueueTime
  <2>5. TakenBehindLast'
    BY <1>1, <2>1 DEF TakenBehindLast, EventTakenOnce
  <2>6. QED BY <2>2, <2>4, <2>5
<1>15. QED BY <1>5, <1>6, <1>7, <1>8, <1>9, <1>10, <1>11, <1>12, <1>13, <1>14
         DEF Next, Frame, Take, PoseRestart, PoseTablet, PostPose, Receive, PoseRobot, Drive,
             PublishTf, InitialPose, BaseReturns, Timers, PoseTick

----------------------------------------------------------------------------
(* The profile. *)

Files == Profiles \cup {None}
\* The profile p is the one a start chooses, if its files are sound.
Chosen(p) == saved = p \/ (saved = None /\ p = Default)

ProfileTyped ==
    /\ coord \in [up : BOOLEAN, busy : BOOLEAN, note : BOOLEAN, active : Files, writing : BOOLEAN,
                  known : {coord.known}, seen : {coord.seen}]
    /\ saved \in Files /\ inbox \in Seq(Net!Profile!Commands)
    /\ coord.writing => coord.up

\* The state file knows the profile the fleet is on, or somebody was told it does not.
ProfileFiled ==
    /\ coord.up /\ ~coord.writing /\ ~coord.note /\ coord.active # None => Chosen(coord.active)
    /\ ~coord.up /\ was # None => Chosen(was)

ProfileInv == ProfileTyped /\ ProfileFiled

\* The same of a coordinator that runs.
UpTyped ==
    coord \in [up : {TRUE}, busy : BOOLEAN, note : BOOLEAN, active : Files, writing : BOOLEAN,
              known : {coord.known}, seen : {coord.seen}]
UpFiled == ~coord.writing /\ ~coord.note /\ coord.active # None => Chosen(coord.active)

LEMMA ProfileStart == Net!Profile!ProfileSwitchInit => ProfileInv
BY NetAssumption DEF Net!Profile!ProfileSwitchInit, Net!Profile!Fresh, ProfileInv, ProfileTyped,
   ProfileFiled, Chosen, Files, Net!RoadNetConstants, Net!Profile!ProfileConstants

LEMMA ProfileUnmoved ==
  ProfileInv /\ UNCHANGED <<coord, saved, was>> /\ inbox' \in Seq(Net!Profile!Commands)
    => ProfileInv' /\ Net!BackSame
BY DEF ProfileInv, ProfileTyped, ProfileFiled, Chosen, Net!BackSame, Net!ComesBack

(* A coordinator that runs, runs on. *)
LEMMA StillUp ==
  ASSUME ProfileInv, UNCHANGED was, coord.up, UpTyped', UpFiled',
         saved' \in Files, inbox' \in Seq(Net!Profile!Commands)
  PROVE  ProfileInv' /\ Net!BackSame
<1>1. ProfileTyped'
  BY DEF ProfileTyped, UpTyped
<1>2. ProfileFiled'
  BY DEF ProfileFiled, Chosen, UpTyped, UpFiled
<1>3. Net!BackSame
  BY DEF Net!BackSame, Net!ComesBack
<1>4. QED BY <1>1, <1>2, <1>3 DEF ProfileInv

LEMMA ProfileStep ==
  ASSUME ProfileInv,
         Net!Profile!FileStep \/ Net!Profile!CoordinatorStep \/ Net!Profile!RobotStep
  PROVE  ProfileInv' /\ Net!BackSame
<1>1. PICK u \in BOOLEAN, b \in BOOLEAN, n \in BOOLEAN, w \in BOOLEAN, a \in Files,
           k \in {coord.known}, s \in {coord.seen} :
        coord = [up |-> u, busy |-> b, note |-> n, active |-> a, writing |-> w,
                 known |-> k, seen |-> s]
  BY DEF ProfileInv, ProfileTyped
<1>2. /\ saved \in Files /\ inbox \in Seq(Net!Profile!Commands) /\ (w => u)
      /\ u /\ ~ w /\ ~ n /\ a # None => saved = a \/ (saved = None /\ a = Default)
  BY <1>1 DEF ProfileInv, ProfileTyped, ProfileFiled, Chosen
<1>3. inbox # <<>> => Tail(inbox) \in Seq(Net!Profile!Commands)
                      /\ Head(inbox) \in Net!Profile!Commands
  BY <1>2
<1>4. CASE Net!Profile!FileChanges
  <2>1. UNCHANGED <<coord, saved, was, inbox>>
    BY <1>4 DEF Net!Profile!FileChanges
  <2>2. QED BY <1>2, <2>1, ProfileUnmoved
<1>5. CASE Net!Profile!CoordinatorStarts
  <2>1. ~ coord.up /\ UNCHANGED <<saved, was, inbox>>
    BY <1>5 DEF Net!Profile!CoordinatorStarts
  <2> DEFINE r == Net!Profile!Resolved
  <2>2. CASE coord' = Net!Profile!Fresh(r.name, r.note)
    <3>1. coord' = [up |-> TRUE, busy |-> FALSE, note |-> r.note, active |-> r.name,
                    writing |-> FALSE, known |-> files, seen |-> None]
      BY <2>2 DEF Net!Profile!Fresh
    <3>2. /\ r.note \in BOOLEAN /\ r.name \in Files /\ (~ r.note => Chosen(r.name))
      BY <1>2, NetAssumption DEF Net!Profile!Resolved, Chosen, Files, Net!RoadNetConstants,
         Net!Profile!ProfileConstants
    <3>3. ~ r.note /\ was # None => r.name = was
      BY <2>1 DEF Net!Profile!Resolved, Chosen, ProfileInv, ProfileFiled
    <3> HIDE DEF r
    <3>4. Net!BackSame
      BY <2>1, <3>1, <3>3 DEF Net!BackSame, Net!ComesBack
    <3>5. ProfileInv'
      BY <1>2, <2>1, <3>1, <3>2 DEF ProfileInv, ProfileTyped, ProfileFiled, Chosen
    <3>6. QED BY <3>4, <3>5
  <2>3. CASE coord' = Net!Profile!Fresh(None, FALSE)
    <3>1. coord' = [up |-> TRUE, busy |-> FALSE, note |-> FALSE, active |-> None,
                    writing |-> FALSE, known |-> files, seen |-> None]
      BY <2>3 DEF Net!Profile!Fresh
    <3>2. ProfileInv'
      BY <1>2, <2>1, <3>1 DEF ProfileInv, ProfileTyped, ProfileFiled, Chosen, Files
    <3>3. QED BY <3>1, <3>2 DEF Net!BackSame, Net!ComesBack
  <2>4. QED BY <1>5, <2>2, <2>3 DEF Net!Profile!CoordinatorStarts
<1>6. CASE Net!Profile!CoordinatorEnds
  <2>1. /\ coord' = [up |-> FALSE, busy |-> b, note |-> n, active |-> a, writing |-> FALSE,
                     known |-> k, seen |-> None]
        /\ was' = (IF w \/ n THEN None ELSE a) /\ saved' = saved /\ inbox' = <<>> /\ u
    BY <1>1, <1>6 DEF Net!Profile!CoordinatorEnds
  <2>2. ProfileTyped'
    BY <1>2, <2>1 DEF ProfileTyped
  <2>3. ProfileFiled'
    BY <1>2, <2>1 DEF ProfileFiled, Chosen
  <2>4. Net!BackSame
    BY <2>1 DEF Net!BackSame, Net!ComesBack
  <2>5. QED BY <2>2, <2>3, <2>4 DEF ProfileInv
<1>7. CASE Net!Profile!Mission
  <2>1. /\ coord' = [up |-> TRUE, busy |-> ~ b, note |-> n, active |-> a, writing |-> w,
                     known |-> k, seen |-> s]
        /\ coord.up /\ UNCHANGED <<saved, was, inbox>>
    BY <1>1, <1>7 DEF Net!Profile!Mission
  <2>2. UpTyped' /\ UpFiled'
    BY <1>1, <1>2, <2>1 DEF UpTyped, UpFiled, Chosen
  <2>3. QED BY <1>1, <1>2, <2>1, <2>2, StillUp
<1>8. CASE \E c \in Net!Profile!Commands : Net!Profile!Ask(c)
  <2>1. UNCHANGED <<coord, saved, was>> /\ inbox' \in Seq(Net!Profile!Commands)
    BY <1>2, <1>8 DEF Net!Profile!Ask
  <2>2. QED BY <2>1, ProfileUnmoved
<1>9. CASE Net!Profile!SwitchProfile
  <2> DEFINE p == Head(inbox).name
  <2>1. /\ UNCHANGED <<saved, was>> /\ coord.up /\ inbox # <<>> /\ p \in Files
        /\ \/ UNCHANGED coord /\ inbox' = Tail(inbox)
           \/ coord' = [coord EXCEPT !.active = p, !.note = FALSE, !.writing = TRUE]
              /\ UNCHANGED inbox
    BY <1>1, <1>3, <1>9 DEF Net!Profile!SwitchProfile, Net!Profile!Commands, Files
  <2> HIDE DEF p
  <2>2. CASE UNCHANGED coord /\ inbox' = Tail(inbox)
    BY <1>3, <2>1, <2>2, ProfileUnmoved
  <2>3. CASE coord' = [coord EXCEPT !.active = p, !.note = FALSE, !.writing = TRUE]
             /\ UNCHANGED inbox
    <3>1. coord' = [up |-> TRUE, busy |-> b, note |-> FALSE, active |-> p, writing |-> TRUE,
                    known |-> k, seen |-> s]
      BY <1>1, <2>1, <2>3
    <3>2. UpTyped' /\ UpFiled'
      BY <1>1, <1>2, <2>1, <2>3, <3>1 DEF UpTyped, UpFiled, Chosen
    <3>3. QED BY <1>1, <1>2, <2>1, <2>3, <3>1, <3>2, StillUp
  <2>4. QED BY <2>1, <2>2, <2>3
<1>10. CASE Net!Profile!ProfileKept
  <2>1. PICK fails \in BOOLEAN : Net!Profile!WriteActive(fails)
    BY <1>10 DEF Net!Profile!ProfileKept
  <2>2. coord.up /\ w /\ UNCHANGED was /\ inbox' = Tail(inbox)
    BY <1>1, <1>2, <1>10, <2>1 DEF Net!Profile!ProfileKept, Net!Profile!WriteActive
  <2>3. inbox' \in Seq(Net!Profile!Commands)
    <3>1. CASE inbox # <<>>
      BY <1>3, <2>2, <3>1
    <3>2. CASE inbox = <<>>
      BY <1>2, <2>2, <3>2
    <3>3. QED BY <3>1, <3>2
  <2>4. CASE fails
    <3>1. coord' = [up |-> TRUE, busy |-> b, note |-> TRUE, active |-> a, writing |-> FALSE,
                    known |-> k, seen |-> s] /\ UNCHANGED saved
      BY <1>1, <1>2, <2>1, <2>4 DEF Net!Profile!WriteActive
    <3>2. UpTyped' /\ UpFiled'
      BY <1>1, <1>2, <2>2, <2>3, <3>1 DEF UpTyped, UpFiled, Chosen
    <3>3. QED BY <1>1, <1>2, <2>2, <2>3, <3>1, <3>2, StillUp
  <2>5. CASE ~ fails
    <3>1. coord' = [up |-> TRUE, busy |-> b, note |-> n, active |-> a, writing |-> FALSE,
                    known |-> k, seen |-> s] /\ saved' = a
      BY <1>1, <1>2, <2>1, <2>5 DEF Net!Profile!WriteActive
    <3>2. UpTyped' /\ UpFiled'
      BY <1>1, <1>2, <2>2, <2>3, <3>1 DEF UpTyped, UpFiled, Chosen
    <3>3. QED BY <1>1, <1>2, <2>2, <2>3, <3>1, <3>2, StillUp
  <2>6. QED BY <2>4, <2>5
<1>11. CASE Net!Profile!SendRobotMaps
  <2>1. UNCHANGED <<coord, saved, was>> /\ inbox # <<>> /\ inbox' = Tail(inbox)
    BY <1>11 DEF Net!Profile!SendRobotMaps
  <2>2. QED BY <1>3, <2>1, ProfileUnmoved
<1>12. CASE Net!Profile!Report
  <2>1. /\ coord' = [up |-> TRUE, busy |-> b, note |-> n, active |-> a, writing |-> w,
                     known |-> k, seen |-> mapped]
        /\ coord.up /\ UNCHANGED <<saved, was, inbox>>
    BY <1>1, <1>12 DEF Net!Profile!Report
  <2>2. UpTyped' /\ UpFiled'
    BY <1>1, <1>2, <2>1 DEF UpTyped, UpFiled, Chosen
  <2>3. QED BY <1>1, <1>2, <2>1, <2>2, StillUp
<1>13. CASE \/ \E f \in BOOLEAN : Net!Profile!SetMap(f) \/ Net!Profile!LoadMap(f)
            \/ Net!Profile!LoadMapResult \/ Net!Profile!MapHeard \/ Net!Profile!AgentRestarts
  <2>1. UNCHANGED <<coord, saved, was, inbox>>
    BY <1>13 DEF Net!Profile!SetMap, Net!Profile!LoadMap, Net!Profile!LoadMapResult,
       Net!Profile!MapHeard, Net!Profile!AgentRestarts
  <2>2. QED BY <1>2, <2>1, ProfileUnmoved
<1>14. QED BY <1>4, <1>5, <1>6, <1>7, <1>8, <1>9, <1>10, <1>11, <1>12, <1>13
         DEF Net!Profile!FileStep, Net!Profile!CoordinatorStep, Net!Profile!RobotStep

----------------------------------------------------------------------------
(* The editor. *)

NodeIds == Net!Editor!NodeIds
EdgeIds == Net!Editor!EdgeIds
Things == Net!Editor!Things
Line == [way : Seq(Places), oneway : BOOLEAN]

UiTyped(u) ==
    u \in [mode : {u.mode}, selected : Things \cup {None}, dragging : Things \cup {None},
           pending : [from : NodeIds, points : Seq(Places)] \cup {None},
           routeA : {u.routeA}, routeB : {u.routeB}, dirty : BOOLEAN]

\* A graph whose edges stand on nodes and end where they are.
EndsMeet(a, es, e) ==
    /\ es[e] \in Line /\ Len(es[e].way) >= 2
    /\ a[e[1]] # None /\ a[e[2]] # None
    /\ es[e].way[1] = a[e[1]] /\ es[e].way[Len(es[e].way)] = a[e[2]]
Stands(a, es) ==
    /\ a \in [NodeIds -> Places \cup {None}] /\ es \in [EdgeIds -> Line \cup {None}]
    /\ \A e \in EdgeIds : es[e] # None => EndsMeet(a, es, e)

\* What is selected is there.
There(thing, a, es) == IF thing.kind = "node" THEN a[thing.id] # None ELSE es[thing.id] # None
SelectedThere(u, a, es) == u.selected # None => There(u.selected, a, es)
PendingThere(u, a) == u.pending # None => a[u.pending.from] # None

EditorInv ==
    /\ UiTyped(ui) /\ Stands(at, edges) /\ SelectedThere(ui, at, edges)
    /\ window = "open" => PendingThere(ui, at)
    /\ disk = <<>> \/ \E a, es : Stands(a, es) /\ disk = <<a, es>>
    /\ window = "open" /\ ~ ui.dirty => disk = <<at, edges>>

LEMMA NoneIsNothing == None \notin Places /\ None \notin Line
BY NetAssumption DEF Net!RoadNetConstants, Line

LEMMA Ids ==
  /\ \A e \in EdgeIds : e[1] \in NodeIds /\ e[2] \in NodeIds /\ e[1] # e[2]
                        /\ e = <<e[1], e[2]>>
  /\ \A m, n \in NodeIds : m # n => <<m, n>> \in EdgeIds
  /\ \A thing \in Things : IF thing.kind = "node" THEN thing.id \in NodeIds
                           ELSE thing.id \in EdgeIds
  /\ \A n \in NodeIds : Net!Editor!Node(n) \in Things
  /\ \A e \in EdgeIds : Net!Editor!Edge(e) \in Things /\ Net!Editor!Middle(e) \in Things
<1>1. /\ \A e \in EdgeIds : e[1] \in NodeIds /\ e[2] \in NodeIds /\ e[1] # e[2]
                            /\ e = <<e[1], e[2]>>
      /\ \A m, n \in NodeIds : m # n => <<m, n>> \in EdgeIds
  BY DEF EdgeIds, NodeIds, Net!Editor!EdgeIds
<1>2. ASSUME NEW thing \in Things
      PROVE  IF thing.kind = "node" THEN thing.id \in NodeIds ELSE thing.id \in EdgeIds
  <2>1. \/ \E n \in NodeIds : thing = [kind |-> "node", id |-> n]
        \/ \E e \in EdgeIds : thing = [kind |-> "edge", id |-> e]
        \/ \E e \in EdgeIds : thing = [kind |-> "middle", id |-> e]
    BY DEF Things, Net!Editor!Things, Net!Editor!Node, Net!Editor!Edge, Net!Editor!Middle,
       EdgeIds, NodeIds
  <2>2. QED BY <2>1
<1>3. /\ \A n \in NodeIds : Net!Editor!Node(n) \in Things
      /\ \A e \in EdgeIds : Net!Editor!Edge(e) \in Things /\ Net!Editor!Middle(e) \in Things
  BY DEF Things, Net!Editor!Things, NodeIds, EdgeIds
<1>4. QED BY <1>1, <1>2, <1>3

LEMMA EditorStart == Net!Editor!GraphEditorInit => EditorInv
<1> SUFFICES ASSUME Net!Editor!GraphEditorInit PROVE EditorInv
  OBVIOUS
<1> USE NoneIsNothing
<1>1. PICK a, b \in Places :
        /\ at = [n \in NodeIds |-> IF n = 1 THEN a ELSE IF n = 2 THEN b ELSE None]
        /\ edges = [e \in EdgeIds |->
                IF e = <<1, 2>> THEN [way |-> <<a, b>>, oneway |-> FALSE] ELSE None]
  BY DEF Net!Editor!GraphEditorInit, NodeIds, EdgeIds
<1>2. ui = Net!Editor!Fresh /\ window = "open" /\ disk = <<at, edges>>
  BY DEF Net!Editor!GraphEditorInit, Net!Editor!graph
<1>3. Stands(at, edges)
  <2>1. <<a, b>> \in Seq(Places) /\ Len(<<a, b>>) = 2
    OBVIOUS
  <2>2. /\ at \in [NodeIds -> Places \cup {None}]
        /\ edges \in [EdgeIds -> Line \cup {None}]
    BY <1>1, <2>1 DEF Line
  <2>3. ASSUME NEW e \in EdgeIds, edges[e] # None PROVE EndsMeet(at, edges, e)
    <3>1. e = <<1, 2>> /\ 1 \in NodeIds /\ 2 \in NodeIds
      BY <1>1, <2>3, Ids
    <3>2. edges[e] = [way |-> <<a, b>>, oneway |-> FALSE] /\ at[1] = a /\ at[2] = b
      BY <1>1, <3>1
    <3>3. QED BY <2>1, <3>1, <3>2 DEF EndsMeet, Line
  <2>4. QED BY <2>2, <2>3 DEF Stands
<1>4. UiTyped(ui) /\ SelectedThere(ui, at, edges) /\ PendingThere(ui, at)
  BY <1>2 DEF Net!Editor!Fresh, UiTyped, SelectedThere, PendingThere
<1>5. QED BY <1>2, <1>3, <1>4 DEF EditorInv

(* Drawing anew. *)
LEMMA DrawnKeeps ==
  ASSUME EditorInv, window = "open", NEW u, NEW a, NEW es, Net!Editor!Drawn(u, a, es),
         UiTyped(u), Stands(a, es), SelectedThere(u, a, es),
         u.dirty \/ (a = at /\ es = edges /\ u.dirty = ui.dirty)
  PROVE  EditorInv'
<1>1. ui' = u /\ at' = a /\ edges' = es /\ disk' = disk
  BY DEF Net!Editor!Drawn
<1>2. window' = "open" => PendingThere(u, a) /\ window = "open"
  BY DEF Net!Editor!Drawn, Net!Editor!Drawable, PendingThere, Net!Editor!Nodes
<1>3. QED BY <1>1, <1>2 DEF EditorInv, UiTyped, Stands, EndsMeet, SelectedThere, There, PendingThere

\* Without a change to the graph.
LEMMA LookKeeps ==
  ASSUME EditorInv, window = "open", NEW u, Net!Editor!Look(u),
         UiTyped(u), SelectedThere(u, at, edges), u.dirty \/ u.dirty = ui.dirty
  PROVE  EditorInv'
BY DrawnKeeps DEF Net!Editor!Look, EditorInv

LEMMA EditedFacts ==
  ASSUME EditorInv
  PROVE  /\ UiTyped(Net!Editor!Edited) /\ Net!Editor!Edited.dirty
         /\ Net!Editor!Edited.selected = ui.selected
         /\ Net!Editor!Edited.dragging = ui.dragging
         /\ Net!Editor!Edited.pending = ui.pending
BY DEF EditorInv, UiTyped, Net!Editor!Edited

(* What an edit does to the graph. *)
LEMMA NodeAdded ==
  ASSUME Stands(at, edges), NEW n \in NodeIds, at[n] = None, NEW p \in Places
  PROVE  Stands([at EXCEPT ![n] = p], edges)
BY Ids, NoneIsNothing DEF Stands, EndsMeet

LEMMA MovedStands ==
  ASSUME Stands(at, edges), NEW n \in NodeIds, at[n] # None, NEW p \in Places
  PROVE  /\ Stands([at EXCEPT ![n] = p], Net!Editor!Moved(n, p))
         /\ \A e \in EdgeIds : edges[e] # None => Net!Editor!Moved(n, p)[e] # None
<1> USE NoneIsNothing
<1> DEFINE a == [at EXCEPT ![n] = p]
           es == Net!Editor!Moved(n, p)
<1>1. a \in [NodeIds -> Places \cup {None}]
  BY DEF Stands
<1>2. ASSUME NEW e \in EdgeIds
      PROVE  /\ es[e] \in Line \cup {None}
             /\ es[e] # None => EndsMeet(a, es, e)
             /\ edges[e] # None => es[e] # None
  <2>1. e[1] \in NodeIds /\ e[2] \in NodeIds /\ e[1] # e[2]
    BY Ids
  <2>2. CASE edges[e] = None
    BY <2>2 DEF Net!Editor!Moved, EdgeIds
  <2>3. CASE edges[e] # None
    <3>1. EndsMeet(at, edges, e)
      BY <2>3 DEF Stands
    <3> DEFINE w == edges[e].way
               o == edges[e].oneway
    <3>2. /\ edges[e] = [way |-> w, oneway |-> o] /\ w \in Seq(Places) /\ o \in BOOLEAN
          /\ Len(w) \in Nat /\ Len(w) >= 2
          /\ at[e[1]] # None /\ at[e[2]] # None /\ w[1] = at[e[1]] /\ w[Len(w)] = at[e[2]]
      BY <3>1 DEF EndsMeet, Line
    <3> HIDE DEF w, o
    <3>3. PICK v \in Seq(Places) :
            /\ es[e] = [way |-> v, oneway |-> o] /\ Len(v) = Len(w)
            /\ v[1] = a[e[1]] /\ v[Len(v)] = a[e[2]]
      <4>1. CASE e[1] = n
        <5> es[e] = [edges[e] EXCEPT !.way[1] = p]
          BY <2>3, <4>1 DEF Net!Editor!Moved, EdgeIds
        <5> HIDE DEF es
        <5> DEFINE x == edges[e]
        <5> es[e] = [x EXCEPT !.way[1] = p] /\ x = [way |-> w, oneway |-> o]
          BY <3>2
        <5> HIDE DEF x
        <5>1. es[e] = [way |-> [w EXCEPT ![1] = p], oneway |-> o]
          OBVIOUS
        <5>2. /\ [w EXCEPT ![1] = p] \in Seq(Places) /\ Len([w EXCEPT ![1] = p]) = Len(w)
              /\ [w EXCEPT ![1] = p][1] = p /\ [w EXCEPT ![1] = p][Len(w)] = w[Len(w)]
          BY <3>2
        <5>3. a[e[1]] = p /\ a[e[2]] = at[e[2]]
          BY <2>1, <4>1 DEF Stands
        <5>4. QED BY <3>2, <5>1, <5>2, <5>3
      <4>2. CASE e[1] # n /\ e[2] = n
        <5> es[e] = [edges[e] EXCEPT !.way[Len(edges[e].way)] = p]
          BY <2>3, <4>2 DEF Net!Editor!Moved, EdgeIds
        <5> HIDE DEF es
        <5> edges[e].way = w
          BY <3>2
        <5> DEFINE x == edges[e]
                   l == Len(w)
        <5> es[e] = [x EXCEPT !.way[l] = p] /\ x = [way |-> w, oneway |-> o]
          BY <3>2
        <5> HIDE DEF x, l
        <5> es[e] = [way |-> [w EXCEPT ![l] = p], oneway |-> o]
          OBVIOUS
        <5>1. es[e] = [way |-> [w EXCEPT ![Len(w)] = p], oneway |-> o]
          BY DEF l
        <5>2. /\ [w EXCEPT ![Len(w)] = p] \in Seq(Places)
              /\ Len([w EXCEPT ![Len(w)] = p]) = Len(w)
              /\ [w EXCEPT ![Len(w)] = p][1] = w[1] /\ [w EXCEPT ![Len(w)] = p][Len(w)] = p
          BY <3>2
        <5>3. a[e[1]] = at[e[1]] /\ a[e[2]] = p
          BY <2>1, <4>2 DEF Stands
        <5>4. QED BY <3>2, <5>1, <5>2, <5>3
      <4>3. CASE e[1] # n /\ e[2] # n
        <5>1. es[e] = edges[e]
          BY <2>3, <4>3 DEF Net!Editor!Moved, EdgeIds
        <5>2. a[e[1]] = at[e[1]] /\ a[e[2]] = at[e[2]]
          BY <2>1, <4>3 DEF Stands
        <5>3. QED BY <3>2, <5>1, <5>2
      <4>4. QED BY <4>1, <4>2, <4>3
    <3>4. a[e[1]] # None /\ a[e[2]] # None
      BY <2>1, <3>2 DEF Stands
    <3>5. es[e] \in Line
      BY <3>2, <3>3 DEF Line
    <3> HIDE DEF a, es
    <3>6. QED BY <3>2, <3>3, <3>4, <3>5 DEF EndsMeet
  <2>4. QED BY <2>2, <2>3
<1>3. es \in [EdgeIds -> Line \cup {None}]
  <2>1. es = [e \in EdgeIds |-> es[e]]
    BY DEF Net!Editor!Moved, EdgeIds
  <2> HIDE DEF es
  <2>2. QED BY <1>2, <2>1
<1> HIDE DEF a, es
<1>4. Stands(a, es)
  BY <1>1, <1>2, <1>3 DEF Stands
<1>5. QED BY <1>2, <1>4 DEF a, es

LEMMA BentStands ==
  ASSUME Stands(at, edges), NEW e \in EdgeIds, edges[e] # None, Len(edges[e].way) # 2,
         NEW p \in Places
  PROVE  /\ Stands(at, [edges EXCEPT ![e].way[2] = p])
         /\ \A f \in EdgeIds : edges[f] # None => [edges EXCEPT ![e].way[2] = p][f] # None
<1> USE NoneIsNothing
<1> DEFINE w == edges[e].way
           o == edges[e].oneway
<1>1. /\ edges[e] = [way |-> w, oneway |-> o] /\ w \in Seq(Places) /\ o \in BOOLEAN
      /\ Len(w) \in Nat /\ Len(w) > 2
      /\ at[e[1]] # None /\ at[e[2]] # None /\ w[1] = at[e[1]] /\ w[Len(w)] = at[e[2]]
  <2>1. EndsMeet(at, edges, e)
    BY DEF Stands
  <2>2. edges[e] \in Line /\ Len(w) >= 2
    BY <2>1 DEF EndsMeet
  <2>3. edges[e] = [way |-> w, oneway |-> o] /\ w \in Seq(Places) /\ o \in BOOLEAN
    BY <2>2 DEF Line
  <2>4. at[e[1]] # None /\ at[e[2]] # None /\ w[1] = at[e[1]] /\ w[Len(w)] = at[e[2]]
    BY <2>1 DEF EndsMeet
  <2> HIDE DEF o
  <2>5. Len(w) \in Nat /\ Len(w) # 2
    BY <2>3
  <2> DEFINE l == Len(w)
  <2> HIDE DEF w, l
  <2>6. l \in Nat /\ l > 2
    <3>1. l \in Nat /\ l >= 2 /\ l # 2
      BY <2>2, <2>5 DEF l
    <3>2. QED BY ONLY <3>1
  <2>7. QED BY <2>3, <2>4, <2>6 DEF l
<1>2. [edges EXCEPT ![e].way[2] = p]
      = [edges EXCEPT ![e] = [way |-> [w EXCEPT ![2] = p], oneway |-> o]]
  <2> DEFINE x == edges[e]
  <2>1. x = [way |-> w, oneway |-> o]
    BY <1>1
  <2> HIDE DEF w, o
  <2>2. [x EXCEPT !.way[2] = p] = [way |-> [w EXCEPT ![2] = p], oneway |-> o]
    <3> HIDE DEF x
    <3>1. QED BY <2>1
  <2>3. QED BY <2>2, Zenon
<1> HIDE DEF w, o
<1>3. /\ [w EXCEPT ![2] = p] \in Seq(Places) /\ Len([w EXCEPT ![2] = p]) = Len(w)
      /\ [w EXCEPT ![2] = p][1] = w[1] /\ [w EXCEPT ![2] = p][Len(w)] = w[Len(w)]
  BY <1>1
<1> DEFINE v == [w EXCEPT ![2] = p]
<1> HIDE DEF v
<1>4. v \in Seq(Places) /\ Len(v) = Len(w) /\ v[1] = w[1] /\ v[Len(v)] = w[Len(w)]
  BY <1>3 DEF v
<1>5. [way |-> v, oneway |-> o] \in Line
  BY <1>1, <1>4 DEF Line
<1>6. /\ Stands(at, [edges EXCEPT ![e] = [way |-> v, oneway |-> o]])
      /\ \A f \in EdgeIds : edges[f] # None
            => [edges EXCEPT ![e] = [way |-> v, oneway |-> o]][f] # None
  BY <1>1, <1>4, <1>5 DEF Stands, EndsMeet
<1>7. QED BY <1>2, <1>6 DEF v

LEMMA ToggledStands ==
  ASSUME Stands(at, edges), NEW e \in EdgeIds, edges[e] # None
  PROVE  /\ Stands(at, Net!Editor!Toggled(e))
         /\ \A f \in EdgeIds : edges[f] # None => Net!Editor!Toggled(e)[f] # None
<1> USE NoneIsNothing
<1> DEFINE w == edges[e].way
           o == edges[e].oneway
<1>1. /\ edges[e] = [way |-> w, oneway |-> o] /\ w \in Seq(Places) /\ o \in BOOLEAN
      /\ Len(w) >= 2
      /\ at[e[1]] # None /\ at[e[2]] # None /\ w[1] = at[e[1]] /\ w[Len(w)] = at[e[2]]
  BY DEF Stands, EndsMeet, Line
<1>2. Net!Editor!Toggled(e) = [edges EXCEPT ![e] = [way |-> w, oneway |-> ~ o]]
  <2> DEFINE x == edges[e]
  <2>1. x = [way |-> w, oneway |-> o]
    BY <1>1
  <2> HIDE DEF w, o
  <2>2. [x EXCEPT !.oneway = ~ @] = [way |-> w, oneway |-> ~ o]
    <3> HIDE DEF x
    <3>1. QED BY <2>1
  <2>3. QED BY <2>2, Zenon DEF Net!Editor!Toggled
<1> HIDE DEF w, o
<1>3. [way |-> w, oneway |-> ~ o] \in Line
  BY <1>1 DEF Line
<1>4. QED BY <1>1, <1>2, <1>3 DEF Stands, EndsMeet

LEMMA WithoutStands ==
  ASSUME Stands(at, edges), NEW thing \in Things
  PROVE  Stands(IF thing.kind = "node" THEN [at EXCEPT ![thing.id] = None] ELSE at,
                Net!Editor!Without(thing))
<1> DEFINE a == IF thing.kind = "node" THEN [at EXCEPT ![thing.id] = None] ELSE at
           es == Net!Editor!Without(thing)
<1>1. a \in [NodeIds -> Places \cup {None}]
  BY Ids DEF Stands
<1>2. ASSUME NEW e \in EdgeIds
      PROVE  es[e] \in {edges[e], None} /\ (es[e] # None => EndsMeet(a, es, e))
  <2>1. e[1] \in NodeIds /\ e[2] \in NodeIds
    BY Ids
  <2>2. es[e] = IF (thing.kind = "node" /\ thing.id \in {e[1], e[2]})
                    \/ (thing.kind # "node" /\ thing.id = e)
                THEN None ELSE edges[e]
    BY DEF Net!Editor!Without, EdgeIds
  <2>3. ASSUME es[e] # None PROVE a[e[1]] = at[e[1]] /\ a[e[2]] = at[e[2]] /\ es[e] = edges[e]
    <3>1. thing.kind = "node" => thing.id # e[1] /\ thing.id # e[2]
      BY <2>2, <2>3
    <3>2. es[e] = edges[e]
      BY <2>2, <2>3
    <3>3. a[e[1]] = at[e[1]] /\ a[e[2]] = at[e[2]]
      BY <2>1, <3>1 DEF Stands
    <3>4. QED BY <3>2, <3>3
  <2>4. es[e] \in {edges[e], None}
    BY <2>2
  <2> HIDE DEF a, es
  <2>5. QED BY <2>3, <2>4 DEF Stands, EndsMeet
<1>3. es \in [EdgeIds -> Line \cup {None}]
  <2>1. es = [e \in EdgeIds |-> es[e]]
    BY DEF Net!Editor!Without, EdgeIds
  <2> HIDE DEF es, a
  <2>2. QED BY <1>2, <2>1 DEF Stands
<1> HIDE DEF a, es
<1>4. Stands(a, es)
  BY <1>1, <1>2, <1>3 DEF Stands
<1>5. QED BY <1>4 DEF a, es

LEMMA EndedStands ==
  ASSUME Stands(at, edges), NEW m \in NodeIds, NEW n \in NodeIds, m # n,
         at[m] # None, at[n] # None, NEW points \in Seq(Places)
  PROVE  Stands(at, [edges EXCEPT ![<<m, n>>] =
                        [way |-> <<at[m]>> \o points \o <<at[n]>>, oneway |-> FALSE]])
<1> DEFINE way == <<at[m]>> \o points \o <<at[n]>>
<1>1. at[m] \in Places /\ at[n] \in Places /\ <<m, n>> \in EdgeIds
  BY Ids DEF Stands
<1>2. /\ way \in Seq(Places) /\ Len(way) = Len(points) + 2 /\ way[1] = at[m]
      /\ way[Len(way)] = at[n]
  BY <1>1
<1>3. Len(points) \in Nat
  OBVIOUS
<1> HIDE DEF way
<1>4. [way |-> way, oneway |-> FALSE] \in Line /\ Len(way) >= 2
  BY <1>2, <1>3 DEF Line
<1>5. Stands(at, [edges EXCEPT ![<<m, n>>] = [way |-> way, oneway |-> FALSE]])
  <2> DEFINE es == [edges EXCEPT ![<<m, n>>] = [way |-> way, oneway |-> FALSE]]
  <2>1. es \in [EdgeIds -> Line \cup {None}]
    BY <1>1, <1>4 DEF Stands
  <2>2. /\ es[<<m, n>>] = [way |-> way, oneway |-> FALSE]
        /\ \A e \in EdgeIds : e # <<m, n>> => es[e] = edges[e]
    BY <1>1 DEF Stands
  <2> HIDE DEF es
  <2>3. EndsMeet(at, es, <<m, n>>)
    BY <1>2, <1>4, <2>2 DEF EndsMeet
  <2>4. ASSUME NEW e \in EdgeIds, e # <<m, n>>, es[e] # None PROVE EndsMeet(at, es, e)
    BY <2>2, <2>4 DEF Stands, EndsMeet
  <2>5. Stands(at, es)
    BY <2>1, <2>3, <2>4 DEF Stands
  <2>6. QED BY <2>5 DEF es
<1>6. QED BY <1>5 DEF way

(* One lemma for each kind of step. *)
LEMMA SelectKeeps ==
  ASSUME EditorInv, window = "open", NEW thing \in Things \cup {None}, NEW drag \in BOOLEAN,
         thing # None => There(thing, at, edges),
         Net!Editor!Look(Net!Editor!Pick(ui, thing, drag))
  PROVE  EditorInv'
<1> DEFINE u == Net!Editor!Pick(ui, thing, drag)
<1>1. UiTyped(u) /\ u.selected = thing /\ u.dirty = ui.dirty
  BY DEF EditorInv, UiTyped, Net!Editor!Pick
<1> HIDE DEF u
<1>2. SelectedThere(u, at, edges)
  BY <1>1 DEF SelectedThere
<1>3. QED BY <1>1, <1>2, LookKeeps DEF u

LEMMA AddKeeps ==
  ASSUME EditorInv, NEW p \in Places, Net!Editor!AddNode(p)
  PROVE  EditorInv'
<1>1. PICK n \in NodeIds : at[n] = None
        /\ Net!Editor!Drawn([Net!Editor!Edited EXCEPT !.selected = Net!Editor!Node(n)],
                            [at EXCEPT ![n] = p], edges)
  BY DEF Net!Editor!AddNode, NodeIds, Net!Editor!Nodes
<1>2. window = "open"
  BY DEF Net!Editor!AddNode, Net!Editor!ButtonUp, Net!Editor!Open
<1> DEFINE u == [Net!Editor!Edited EXCEPT !.selected = Net!Editor!Node(n)]
           a == [at EXCEPT ![n] = p]
<1>3. UiTyped(u) /\ u.dirty /\ u.selected = Net!Editor!Node(n)
  BY EditedFacts, Ids DEF UiTyped
<1>4. Stands(a, edges)
  BY <1>1, NodeAdded DEF EditorInv
<1>5. There(Net!Editor!Node(n), a, edges)
  BY NoneIsNothing DEF There, Net!Editor!Node, EditorInv, Stands
<1> HIDE DEF u, a
<1>6. SelectedThere(u, a, edges)
  BY <1>3, <1>5 DEF SelectedThere
<1>7. QED BY <1>1, <1>2, <1>3, <1>4, <1>6, DrawnKeeps DEF u, a

LEMMA GrabKeeps ==
  ASSUME EditorInv, NEW p \in Places, Net!Editor!Grab(p) \/ Net!Editor!GrabElsewhere(p)
  PROVE  EditorInv'
<1>1. window = "open"
  BY DEF Net!Editor!Grab, Net!Editor!GrabElsewhere, Net!Editor!ButtonUp, Net!Editor!Open
<1>2. PICK thing \in Things \cup {None}, drag \in BOOLEAN :
        /\ thing # None => There(thing, at, edges)
        /\ Net!Editor!Look(Net!Editor!Pick(ui, thing, drag))
  <2>1. CASE Net!Editor!Grab(p)
    <3>1. PICK n \in NodeIds : at[n] # None
            /\ Net!Editor!Look(Net!Editor!Pick(ui, Net!Editor!Node(n), TRUE))
      BY <2>1 DEF Net!Editor!Grab, Net!Editor!NodesAt, Net!Editor!Nodes, NodeIds
    <3>2. There(Net!Editor!Node(n), at, edges)
      BY <3>1 DEF There, Net!Editor!Node
    <3>3. QED BY <3>1, <3>2, Ids
  <2>2. CASE Net!Editor!GrabElsewhere(p)
    <3>1. \/ Net!Editor!Look(Net!Editor!Pick(ui, None, FALSE))
          \/ \E e \in EdgeIds : edges[e] # None
                /\ \/ Net!Editor!Look(Net!Editor!Pick(ui, Net!Editor!Middle(e), TRUE))
                   \/ Net!Editor!Look(Net!Editor!Pick(ui, Net!Editor!Edge(e), FALSE))
      BY <2>2 DEF Net!Editor!GrabElsewhere, Net!Editor!MiddlesAt, Net!Editor!Edges, EdgeIds
    <3>2. CASE Net!Editor!Look(Net!Editor!Pick(ui, None, FALSE))
      BY <3>2
    <3>3. ASSUME NEW e \in EdgeIds, edges[e] # None
          PROVE  There(Net!Editor!Middle(e), at, edges) /\ There(Net!Editor!Edge(e), at, edges)
      BY <3>3 DEF There, Net!Editor!Middle, Net!Editor!Edge
    <3>4. QED BY <3>1, <3>2, <3>3, Ids
  <2>3. QED BY <2>1, <2>2
<1>3. QED BY <1>1, <1>2, SelectKeeps

\* What a step changes of the tool's own state, with the selection kept or dropped.
LEMMA ToolKeeps ==
  ASSUME EditorInv, window = "open", NEW u, Net!Editor!Look(u), UiTyped(u),
         u.selected \in {ui.selected, None}, u.dirty \/ u.dirty = ui.dirty
  PROVE  EditorInv'
<1>1. SelectedThere(u, at, edges)
  BY DEF EditorInv, SelectedThere
<1>2. QED BY <1>1, LookKeeps

LEMMA PendingKeeps ==
  ASSUME EditorInv,
         \/ \E n \in NodeIds : Net!Editor!BeginEdge(n)
         \/ \E p \in Places : Net!Editor!Point(p)
  PROVE  EditorInv'
<1>1. window = "open"
  BY DEF Net!Editor!BeginEdge, Net!Editor!Point, Net!Editor!ButtonUp, Net!Editor!Open
<1>2. CASE \E n \in NodeIds : Net!Editor!BeginEdge(n)
  <2>1. PICK n \in NodeIds : Net!Editor!Look([ui EXCEPT !.pending = [from |-> n, points |-> <<>>]])
    BY <1>2 DEF Net!Editor!BeginEdge
  <2> DEFINE u == [ui EXCEPT !.pending = [from |-> n, points |-> <<>>]]
  <2> [from |-> n, points |-> <<>>] \in [from : NodeIds, points : Seq(Places)]
    OBVIOUS
  <2>2. UiTyped(u) /\ u.selected = ui.selected /\ u.dirty = ui.dirty
    BY DEF EditorInv, UiTyped
  <2> HIDE DEF u
  <2>3. QED BY <1>1, <2>1, <2>2, ToolKeeps DEF u
<1>3. CASE \E p \in Places : Net!Editor!Point(p)
  <2>1. PICK p \in Places : ui.pending # None
          /\ Net!Editor!Look([ui EXCEPT !.pending.points = Append(@, p)])
    BY <1>3 DEF Net!Editor!Point
  <2> DEFINE u == [ui EXCEPT !.pending.points = Append(@, p)]
             q == ui.pending
  <2>2. q = [from |-> q.from, points |-> q.points] /\ q.from \in NodeIds /\ q.points \in Seq(Places)
    BY <2>1 DEF EditorInv, UiTyped
  <2>3. u = [ui EXCEPT !.pending = [from |-> q.from, points |-> Append(q.points, p)]]
    <3>1. [q EXCEPT !.points = Append(@, p)] = [from |-> q.from, points |-> Append(q.points, p)]
      <4> HIDE DEF q
      <4>1. QED BY <2>2
    <3>2. QED BY <3>1, Zenon
  <2> HIDE DEF q
  <2>4. [from |-> q.from, points |-> Append(q.points, p)] \in [from : NodeIds, points : Seq(Places)]
    BY <2>2
  <2>5. UiTyped(u) /\ u.selected = ui.selected /\ u.dirty = ui.dirty
    BY <2>3, <2>4 DEF EditorInv, UiTyped
  <2> HIDE DEF u
  <2>6. QED BY <1>1, <2>1, <2>5, ToolKeeps DEF u
<1>4. QED BY <1>2, <1>3

LEMMA EndKeeps ==
  ASSUME EditorInv, NEW n \in NodeIds, at[n] # None, Net!Editor!EndEdge(n)
  PROVE  EditorInv'
<1>1. window = "open"
  BY DEF Net!Editor!EndEdge, Net!Editor!ButtonUp, Net!Editor!Open
<1> DEFINE q == ui.pending
           m == q.from
           e == <<m, n>>
           way == <<at[m]>> \o q.points \o <<at[n]>>
           es == [edges EXCEPT ![e] = [way |-> way, oneway |-> FALSE]]
           u == [Net!Editor!Edited EXCEPT !.pending = None, !.selected = Net!Editor!Edge(e)]
<1>2. q # None /\ n # m /\ Net!Editor!Drawn(u, at, es)
  BY DEF Net!Editor!EndEdge
<1>3. m \in NodeIds /\ q.points \in Seq(Places) /\ at[m] # None
  BY <1>1, <1>2 DEF EditorInv, UiTyped, PendingThere
<1>4. e \in EdgeIds
  BY <1>2, <1>3, Ids
<1>5. UiTyped(u) /\ u.dirty /\ u.selected = Net!Editor!Edge(e)
  BY <1>4, EditedFacts, Ids DEF UiTyped
<1>6. Stands(at, es)
  BY <1>2, <1>3, EndedStands DEF EditorInv
<1>7. [way |-> way, oneway |-> FALSE] # None
  <2>1. at[m] \in Places /\ at[n] \in Places
    BY <1>3 DEF EditorInv, Stands
  <2>2. way \in Seq(Places)
    BY <1>3, <2>1
  <2> HIDE DEF way
  <2>3. [way |-> way, oneway |-> FALSE] \in Line
    BY <2>2 DEF Line
  <2>4. QED BY <2>3, NoneIsNothing
<1> HIDE DEF way
<1>8. There(Net!Editor!Edge(e), at, es)
  BY <1>4, <1>7 DEF There, Net!Editor!Edge, EditorInv, Stands
<1> HIDE DEF u, es, e
<1>9. SelectedThere(u, at, es)
  BY <1>5, <1>8 DEF SelectedThere
<1>10. QED BY <1>1, <1>2, <1>5, <1>6, <1>9, DrawnKeeps

LEMMA DragKeeps ==
  ASSUME EditorInv, NEW p \in Places, Net!Editor!Drag(p)
  PROVE  EditorInv'
<1> DEFINE thing == ui.dragging
           u == Net!Editor!Edited
<1>1. window = "open" /\ thing \in Things
  BY DEF Net!Editor!Drag, Net!Editor!Open, EditorInv, UiTyped
<1>2. CASE Net!Editor!Gone(thing)
  <2>1. UNCHANGED <<at, edges, ui, disk>> /\ window' = "crashed"
    BY <1>2 DEF Net!Editor!Drag
  <2>2. QED BY <2>1 DEF EditorInv, UiTyped, Stands, EndsMeet, SelectedThere, There, PendingThere
<1>3. CASE ~ Net!Editor!Gone(thing) /\ thing.kind = "node"
  <2> DEFINE n == thing.id
             a == [at EXCEPT ![n] = p]
             es == Net!Editor!Moved(n, p)
  <2>1. n \in NodeIds /\ at[n] # None /\ Net!Editor!Drawn(u, a, es)
    BY <1>1, <1>3, Ids DEF Net!Editor!Drag, Net!Editor!Gone, Net!Editor!Nodes
  <2>2. UiTyped(u) /\ u.dirty /\ u.selected = ui.selected
    BY EditedFacts
  <2>3. Stands(a, es) /\ \A e \in EdgeIds : edges[e] # None => es[e] # None
    BY <2>1, MovedStands DEF EditorInv
  <2>4. \A m \in NodeIds : at[m] # None => a[m] # None
    BY <2>1, NoneIsNothing DEF EditorInv, Stands
  <2> HIDE DEF n, a, es, u
  <2>5. SelectedThere(u, a, es)
    <3>1. ui.selected # None => ui.selected \in Things /\ There(ui.selected, at, edges)
      BY DEF EditorInv, UiTyped, SelectedThere
    <3>2. ui.selected # None => There(ui.selected, a, es)
      BY <2>3, <2>4, <3>1, Ids DEF There
    <3>3. QED BY <2>2, <3>2 DEF SelectedThere
  <2>6. QED BY <1>1, <2>1, <2>2, <2>3, <2>5, DrawnKeeps
<1>4. CASE ~ Net!Editor!Gone(thing) /\ thing.kind # "node"
  <2> DEFINE e == thing.id
  <2>1. e \in EdgeIds /\ edges[e] # None
    BY <1>1, <1>4, Ids DEF Net!Editor!Gone, Net!Editor!Edges
  <2>2. CASE Len(edges[e].way) = 2
    <3>1. Net!Editor!Look(ui)
      BY <1>4, <2>2 DEF Net!Editor!Drag
    <3>2. QED BY <1>1, <3>1, LookKeeps DEF EditorInv
  <2>3. CASE Len(edges[e].way) # 2
    <3> DEFINE es == [edges EXCEPT ![e].way[2] = p]
    <3>1. Net!Editor!Drawn(u, at, es)
      BY <1>4, <2>3 DEF Net!Editor!Drag
    <3>2. Stands(at, es) /\ \A f \in EdgeIds : edges[f] # None => es[f] # None
      BY <2>1, <2>3, BentStands DEF EditorInv
    <3>3. UiTyped(u) /\ u.dirty /\ u.selected = ui.selected
      BY EditedFacts
    <3> HIDE DEF e, es, u
    <3>4. SelectedThere(u, at, es)
      <4>1. ui.selected # None => ui.selected \in Things /\ There(ui.selected, at, edges)
        BY DEF EditorInv, UiTyped, SelectedThere
      <4>2. ui.selected # None => There(ui.selected, at, es)
        BY <3>2, <4>1, Ids DEF There
      <4>3. QED BY <3>3, <4>2 DEF SelectedThere
    <3>5. QED BY <1>1, <3>1, <3>2, <3>3, <3>4, DrawnKeeps
  <2>4. QED BY <2>2, <2>3
<1>5. QED BY <1>2, <1>3, <1>4

LEMMA DeleteKeeps ==
  ASSUME EditorInv, Net!Editor!Delete
  PROVE  EditorInv'
<1> DEFINE thing == ui.selected
           u == [Net!Editor!Edited EXCEPT !.selected = None]
           a == IF thing.kind = "node" THEN [at EXCEPT ![thing.id] = None] ELSE at
           es == Net!Editor!Without(thing)
<1>1. window = "open" /\ thing \in Things /\ Net!Editor!Drawn(u, a, es)
  BY DEF Net!Editor!Delete, Net!Editor!Open, EditorInv, UiTyped
<1>2. UiTyped(u) /\ u.dirty /\ u.selected = None
  BY EditedFacts DEF UiTyped
<1>3. Stands(a, es)
  BY <1>1, WithoutStands DEF EditorInv
<1> HIDE DEF u, a, es
<1>4. QED BY <1>1, <1>2, <1>3, DrawnKeeps DEF SelectedThere

LEMMA ToggleKeeps ==
  ASSUME EditorInv, Net!Editor!ToggleOneway
  PROVE  EditorInv'
<1> DEFINE thing == ui.selected
           e == thing.id
           u == Net!Editor!Edited
           es == Net!Editor!Toggled(e)
<1>1. /\ window = "open" /\ thing \in Things /\ thing # None /\ thing.kind # "node"
      /\ Net!Editor!Drawn(u, at, es)
  BY DEF Net!Editor!ToggleOneway, Net!Editor!Open, EditorInv, UiTyped
<1>2. UiTyped(u) /\ u.dirty /\ u.selected = thing
  BY EditedFacts
<1>3. e \in EdgeIds /\ edges[e] # None
  BY <1>1, Ids DEF EditorInv, SelectedThere, There
<1>4. Stands(at, es) /\ es[e] # None
  BY <1>3, ToggledStands DEF EditorInv
<1>5. There(thing, at, es)
  BY <1>1, <1>4 DEF There
<1> HIDE DEF u, es, e, thing
<1>6. SelectedThere(u, at, es)
  BY <1>2, <1>5 DEF SelectedThere
<1>7. QED BY <1>1, <1>2, <1>4, <1>6, DrawnKeeps

LEMMA ToolStepKeeps ==
  ASSUME EditorInv,
         \/ \E e \in EdgeIds, second \in BOOLEAN : Net!Editor!Preview(e[1], e[2], second)
         \/ \E m \in {"select", "node", "edge"} :
                Net!Editor!ModeKey(m) \/ Net!Editor!ModeButton(m)
         \/ Net!Editor!Drop \/ Net!Editor!Annotate \/ Net!Editor!Escape
  PROVE  EditorInv'
<1>1. window = "open"
  BY DEF Net!Editor!Preview, Net!Editor!ModeKey, Net!Editor!ModeButton, Net!Editor!Drop,
     Net!Editor!Annotate, Net!Editor!Escape, Net!Editor!ButtonUp, Net!Editor!Open
<1>2. PICK u : /\ Net!Editor!Look(u) /\ UiTyped(u)
               /\ u.selected \in {ui.selected, None} /\ (u.dirty \/ u.dirty = ui.dirty)
  <2> USE DEF EditorInv, UiTyped
  <2>1. CASE \E e \in EdgeIds, second \in BOOLEAN : Net!Editor!Preview(e[1], e[2], second)
    <3>1. PICK e \in EdgeIds :
            \/ Net!Editor!Look([ui EXCEPT !.routeB = <<e[1], e[2]>>])
            \/ Net!Editor!Look([ui EXCEPT !.routeA = <<e[1], e[2]>>, !.routeB = None])
      BY <2>1, Zenon DEF Net!Editor!Preview
    <3> DEFINE v == [ui EXCEPT !.routeB = <<e[1], e[2]>>]
               w == [ui EXCEPT !.routeA = <<e[1], e[2]>>, !.routeB = None]
    <3>2. UiTyped(v) /\ v.selected = ui.selected /\ v.dirty = ui.dirty
      OBVIOUS
    <3>3. UiTyped(w) /\ w.selected = ui.selected /\ w.dirty = ui.dirty
      OBVIOUS
    <3>4. Net!Editor!Look(v) \/ Net!Editor!Look(w)
      BY <3>1
    <3> HIDE DEF v, w, EditorInv, UiTyped
    <3>5. QED BY <3>2, <3>3, <3>4
  <2>2. CASE \E m \in {"select", "node", "edge"} : Net!Editor!ModeKey(m)
    BY <2>2 DEF Net!Editor!ModeKey
  <2>3. CASE \E m \in {"select", "node", "edge"} : Net!Editor!ModeButton(m)
    <3>1. PICK m \in {"select", "node", "edge"} :
            Net!Editor!Look([ui EXCEPT !.mode = m, !.pending = None])
      BY <2>3, Zenon DEF Net!Editor!ModeButton
    <3> DEFINE v == [ui EXCEPT !.mode = m, !.pending = None]
    <3>2. UiTyped(v) /\ v.selected = ui.selected /\ v.dirty = ui.dirty
      OBVIOUS
    <3>3. Net!Editor!Look(v)
      BY <3>1
    <3> HIDE DEF v, EditorInv, UiTyped
    <3>4. QED BY <3>2, <3>3
  <2>4. CASE Net!Editor!Drop
    BY <2>4 DEF Net!Editor!Drop
  <2>5. CASE Net!Editor!Annotate
    BY <2>5, EditedFacts DEF Net!Editor!Annotate
  <2>6. CASE Net!Editor!Escape
    <3> DEFINE v == [ui EXCEPT !.pending = None, !.selected = None]
    <3>1. UiTyped(v) /\ v.selected = None /\ v.dirty = ui.dirty
      OBVIOUS
    <3>2. Net!Editor!Look(v)
      BY <2>6 DEF Net!Editor!Escape
    <3> HIDE DEF v, EditorInv, UiTyped
    <3>3. QED BY <3>1, <3>2
  <2>7. QED BY <2>1, <2>2, <2>3, <2>4, <2>5, <2>6
<1>3. QED BY <1>1, <1>2, ToolKeeps

LEMMA FileKeeps ==
  ASSUME EditorInv,
         \/ Net!Editor!Save \/ Net!Editor!SaveTorn
         \/ \E answer \in {"yes", "no"} : Net!Editor!Close(answer)
         \/ Net!Editor!Start
  PROVE  EditorInv'
<1> USE DEF EditorInv, UiTyped, Stands, EndsMeet, SelectedThere, There, PendingThere
<1>1. CASE Net!Editor!Save
  <2>1. /\ UNCHANGED <<at, edges, window>> /\ disk' = <<at, edges>>
        /\ ui' = [ui EXCEPT !.dirty = FALSE]
    BY <1>1 DEF Net!Editor!Save, Net!Editor!Written, Net!Editor!graph
  <2>2. UiTyped(ui)' /\ UNCHANGED <<ui.selected, ui.pending>>
    BY <2>1
  <2>3. disk' = <<>> \/ \E a, es : Stands(a, es) /\ disk' = <<a, es>>
    BY <2>1
  <2>4. QED BY <2>1, <2>2, <2>3
<1>2. CASE Net!Editor!SaveTorn
  BY <1>2 DEF Net!Editor!SaveTorn, Net!Editor!Torn
<1>3. CASE \E answer \in {"yes", "no"} : Net!Editor!Close(answer)
  <2>1. /\ UNCHANGED <<at, edges>> /\ window' = "closed"
        /\ \/ UNCHANGED <<disk, ui>>
           \/ disk' = <<at, edges>> /\ ui' = [ui EXCEPT !.dirty = FALSE]
    BY <1>3 DEF Net!Editor!Close, Net!Editor!Written, Net!Editor!graph
  <2>2. UiTyped(ui)' /\ UNCHANGED <<ui.selected, ui.pending>>
    BY <2>1
  <2>3. disk' = <<>> \/ \E a, es : Stands(a, es) /\ disk' = <<a, es>>
    BY <2>1
  <2>4. QED BY <2>1, <2>2, <2>3
<1>4. CASE Net!Editor!Start
  <2>1. /\ disk # <<>> /\ at' = disk[1] /\ edges' = disk[2] /\ disk' = disk
        /\ ui' = Net!Editor!Fresh
    BY <1>4 DEF Net!Editor!Start, Net!Editor!Torn
  <2>2. PICK a, es : Stands(a, es) /\ disk = <<a, es>>
    BY <2>1
  <2>3. at' = a /\ edges' = es
    BY <2>1, <2>2
  <2>4. UiTyped(ui)' /\ ui'.selected = None /\ ui'.pending = None
    BY <2>1 DEF Net!Editor!Fresh
  <2>5. QED BY <2>1, <2>2, <2>3, <2>4
<1>5. QED BY <1>1, <1>2, <1>3, <1>4

LEMMA EditorKeeps ==
  ASSUME EditorInv, Net!Editor!EditorStep
  PROVE  EditorInv'
<1>1. CASE \E p \in Places : Net!Editor!AddNode(p)
  BY <1>1, AddKeeps
<1>2. CASE \E p \in Places : Net!Editor!Grab(p) \/ Net!Editor!GrabElsewhere(p)
  BY <1>2, GrabKeeps
<1>3. CASE \E p \in Places : Net!Editor!Point(p)
  BY <1>3, PendingKeeps
<1>4. CASE \E p \in Places : Net!Editor!Drag(p)
  BY <1>4, DragKeeps
<1>5. CASE \E n \in Net!Editor!Nodes(at) : Net!Editor!BeginEdge(n) \/ Net!Editor!EndEdge(n)
  <2>1. PICK n \in NodeIds : at[n] # None /\ (Net!Editor!BeginEdge(n) \/ Net!Editor!EndEdge(n))
    BY <1>5 DEF Net!Editor!Nodes, NodeIds
  <2>2. QED BY <2>1, PendingKeeps, EndKeeps
<1>6. CASE \/ \E e \in Net!Editor!EdgeIds, second \in BOOLEAN :
                Net!Editor!Preview(e[1], e[2], second)
           \/ \E m \in {"select", "node", "edge"} :
                Net!Editor!ModeKey(m) \/ Net!Editor!ModeButton(m)
           \/ Net!Editor!Drop \/ Net!Editor!Annotate \/ Net!Editor!Escape
  BY <1>6, ToolStepKeeps DEF EdgeIds
<1>7. CASE Net!Editor!Delete
  BY <1>7, DeleteKeeps
<1>8. CASE Net!Editor!ToggleOneway
  BY <1>8, ToggleKeeps
<1>9. CASE \/ Net!Editor!Save \/ Net!Editor!SaveTorn
           \/ \E answer \in {"yes", "no"} : Net!Editor!Close(answer)
           \/ Net!Editor!Start
  BY <1>9, FileKeeps
<1>10. QED BY <1>1, <1>2, <1>3, <1>4, <1>5, <1>6, <1>7, <1>8, <1>9 DEF Net!Editor!EditorStep

----------------------------------------------------------------------------
(* The whole. *)

CoordinatesInv == PoseInv /\ ZonesInv /\ EditorInv /\ ProfileInv

LEMMA CoordinatesStart == CoordinatesInit => CoordinatesInv
<1>1. CoordinatesInit => Net!Editor!GraphEditorInit /\ Net!Profile!ProfileSwitchInit
  BY DEF CoordinatesInit, Net!Init
<1>2. CoordinatesInit => Robot!PoseFuserInit
  BY DEF CoordinatesInit, Init
<1>3. CoordinatesInit => ZonesInv
  BY ZonesStart DEF CoordinatesInit, ZonesInv
<1>4. QED BY <1>1, <1>2, <1>3, PoseStart, EditorStart, ProfileStart DEF CoordinatesInv

\* What half of the system does not move keeps what is said of it.
LEMMA NetUnmoved ==
  EditorInv /\ ProfileInv /\ UNCHANGED netVars => EditorInv' /\ ProfileInv' /\ Net!BackSame
<1> SUFFICES ASSUME EditorInv, ProfileInv, UNCHANGED netVars
             PROVE  EditorInv' /\ ProfileInv' /\ Net!BackSame
  OBVIOUS
<1>1. UNCHANGED <<at, edges, ui, window, disk>> /\ UNCHANGED <<coord, saved, was, inbox>>
  BY DEF netVars
<1>2. EditorInv'
  BY <1>1 DEF EditorInv, UiTyped, Stands, EndsMeet, SelectedThere, There, PendingThere
<1>3. ProfileInv' /\ Net!BackSame
  BY <1>1, ProfileUnmoved DEF ProfileInv, ProfileTyped
<1>4. QED BY <1>2, <1>3

LEMMA NetStep ==
  EditorInv /\ ProfileInv /\ Net!Next => EditorInv' /\ ProfileInv' /\ Net!BackSame
<1> SUFFICES ASSUME EditorInv, ProfileInv, Net!Next
             PROVE  EditorInv' /\ ProfileInv' /\ Net!BackSame
  OBVIOUS
<1>1. CASE Net!Editor!EditorStep /\ UNCHANGED Net!profileVars
  <2>1. UNCHANGED <<coord, saved, was, inbox>>
    BY <1>1 DEF Net!profileVars
  <2>2. ProfileInv' /\ Net!BackSame
    BY <2>1, ProfileUnmoved DEF ProfileInv, ProfileTyped
  <2>3. QED BY <1>1, <2>2, EditorKeeps
<1>2. CASE /\ UNCHANGED Net!editorVars
           /\ Net!Profile!FileStep \/ Net!Profile!CoordinatorStep \/ Net!Profile!RobotStep
  <2>1. UNCHANGED <<at, edges, ui, window, disk>>
    BY <1>2 DEF Net!editorVars
  <2>2. EditorInv'
    BY <2>1 DEF EditorInv, UiTyped, Stands, EndsMeet, SelectedThere, There, PendingThere
  <2>3. QED BY <1>2, <2>2, ProfileStep
<1>3. QED BY <1>1, <1>2 DEF Net!Next

LEMMA CoordinatesStep ==
  CoordinatesInv /\ [CoordinatesNext]_coordinatesVars => CoordinatesInv' /\ Net!BackSame
<1> SUFFICES ASSUME CoordinatesInv, [CoordinatesNext]_coordinatesVars
             PROVE  CoordinatesInv' /\ Net!BackSame
  OBVIOUS
<1> USE DEF CoordinatesInv
<1>1. CASE Next /\ UNCHANGED netVars
  BY <1>1, PoseStep, ZonesStep, NetUnmoved
<1>2. CASE Net!Next /\ UNCHANGED vars
  BY <1>2, PoseStep, ZonesStep, NetStep
<1>3. CASE UNCHANGED coordinatesVars
  BY <1>3, PoseStep, ZonesStep, NetUnmoved DEF coordinatesVars
<1>4. QED BY <1>1, <1>2, <1>3 DEF CoordinatesNext

(***************************************************************************)
(* The inductive invariant holds in every state: what the clocks of the    *)
(* pose say of the last fix, what the zone queue's positions say of an     *)
(* event's age, where the edges of the graph stand, and what the state     *)
(* file says of the profile.                                               *)
(***************************************************************************)
THEOREM CoordinatesHold == CoordinatesSpec => []CoordinatesInv
<1>1. CoordinatesInit => CoordinatesInv
  BY CoordinatesStart
<1>2. CoordinatesInv /\ [CoordinatesNext]_coordinatesVars => CoordinatesInv'
  BY CoordinatesStep
<1>3. QED BY <1>1, <1>2, PTL DEF CoordinatesSpec

(***************************************************************************)
(* On a route the wheels do not turn on a pose nobody has confirmed, for   *)
(* any of the four limits and any outage of the odometry.                  *)
(***************************************************************************)
THEOREM RecentFixAlways == CoordinatesSpec => []MovesOnRecentFix
<1>1. CoordinatesInv => MovesOnRecentFix
  BY Limits DEF CoordinatesInv, PoseInv, PoseTyped, FixBehindPose, MovesOnRecentFix
<1>2. QED BY <1>1, CoordinatesHold, PTL

(***************************************************************************)
(* A confirmed arrival rests on a sighting at the goal that is no older    *)
(* than the queue, its retries and GOAL_EVENT_TIMEOUT allow, for any depth *)
(* of the queue and any number of retries.                                 *)
(***************************************************************************)
THEOREM ArrivalAlwaysWitnessed == CoordinatesSpec => []ArrivalWitnessed
<1>1. CoordinatesInv => ArrivalWitnessed
  BY Limits DEF CoordinatesInv, ZonesInv, SightingsOnTime, ArrivalWitnessed, MaxDelay, QueueTime
<1>2. QED BY <1>1, CoordinatesHold, PTL

(***************************************************************************)
(* However often an event is sent, and whatever is lost of the answers,    *)
(* the coordinator takes it once.                                          *)
(***************************************************************************)
THEOREM EventAlwaysTakenOnce == CoordinatesSpec => []EventTakenOnce
<1>1. CoordinatesInv => EventTakenOnce
  BY DEF CoordinatesInv, ZonesInv, TakenBehindLast
<1>2. QED BY <1>1, CoordinatesHold, PTL

(***************************************************************************)
(* An editor that closes without a question has nothing to lose, for any   *)
(* number of nodes, edges and edits.                                       *)
(***************************************************************************)
THEOREM CleanAlwaysSaved == CoordinatesSpec => []CleanIsSaved
<1>1. CoordinatesInv => CleanIsSaved
  BY DEF CoordinatesInv, EditorInv, CleanIsSaved, Net!CleanIsSaved, Net!Editor!CleanIsSaved,
     Net!Editor!Open, Net!Editor!graph
<1>2. QED BY <1>1, CoordinatesHold, PTL

(***************************************************************************)
(* Every edge stands on nodes that exist and ends where they are, whatever *)
(* is clicked, dragged or deleted and in whichever order.                  *)
(***************************************************************************)
THEOREM EdgesAlwaysStand == CoordinatesSpec => []EdgesStand
<1>1. CoordinatesInv => EdgesStand
  <2> SUFFICES ASSUME CoordinatesInv PROVE EdgesStand
    OBVIOUS
  <2>1. ASSUME NEW e \in EdgeIds, edges[e] # None
        PROVE  /\ {e[1], e[2]} \subseteq Net!Editor!Nodes(at)
               /\ edges[e].way[1] = at[e[1]] /\ edges[e].way[Len(edges[e].way)] = at[e[2]]
    BY <2>1, Ids DEF CoordinatesInv, EditorInv, Stands, EndsMeet, Net!Editor!Nodes, NodeIds
  <2>2. QED BY <2>1 DEF EdgesStand, Net!EdgesStand, Net!Editor!EdgesStand, Net!Editor!Edges,
                        EdgeIds
<1>2. QED BY <1>1, CoordinatesHold, PTL

(***************************************************************************)
(* A fleet does not come back on other coordinates in silence, whatever is *)
(* switched, written, broken and started again.                            *)
(***************************************************************************)
THEOREM ComesBackOnTheSame == CoordinatesSpec => ComesBackSame
<1>1. CoordinatesInv /\ [CoordinatesNext]_coordinatesVars => [Net!BackSame]_netVars
  BY CoordinatesStep
<1>2. QED BY <1>1, CoordinatesHold, PTL DEF CoordinatesSpec, ComesBackSame
=============================================================================
