------------------------- MODULE ReservationProofs -------------------------
(***************************************************************************)
(* What TLAPS proves of Reservation, for every road graph, any number of   *)
(* robots and every value of the parameters: the types, then mutual        *)
(* exclusion of the edges and the junctions of the road, what an arrival   *)
(* promises (it is accepted near the goal only, and nobody waits for a     *)
(* robot that has parked), and that the tables and the robots' places are  *)
(* an Interlocking.                                                        *)
(***************************************************************************)
EXTENDS Reservation, FiniteSetTheorems, FunctionTheorems, WellFoundedInduction, TLAPS

USE DEF MinOf, MaxOf

----------------------------------------------------------------------------
(* Routes. *)

LEMMA RouteNumbers ==
  ASSUME NEW rt \in Routes
  PROVE  /\ rt.n \in Nat \ {0} /\ rt.n <= MaxEdges /\ rt.goalIdx \in Nat
         /\ Length(rt) \in Nat
         /\ rt.cum[0] = 0
         /\ \A i \in 0 .. rt.goalIdx : rt.cum[i] \in Nat /\ rt.cum[i] <= Length(rt)
         /\ \A i, j \in 0 .. rt.goalIdx : i <= j => rt.cum[i] <= rt.cum[j]
         /\ \A s \in Nat : s <= Length(rt) =>
              /\ rt.idxAt[s] \in 0 .. rt.goalIdx
              /\ rt.cum[rt.idxAt[s]] <= s
<1>1. IsRoute(rt)
  BY RouteAssumption
<1>2. /\ rt.n \in Nat \ {0} /\ rt.n <= MaxEdges /\ rt.goalIdx \in Nat
      /\ rt.cum[0] = 0
  BY <1>1, ParameterAssumption DEF IsRoute
<1>3. \A i \in 0 .. rt.goalIdx : rt.cum[i] \in Nat
  BY <1>1 DEF IsRoute
<1>4. \A i, j \in 0 .. rt.goalIdx : i <= j => rt.cum[i] <= rt.cum[j]
  <2>1. \A i, j \in 0 .. rt.goalIdx : i < j => rt.cum[i] < rt.cum[j]
    BY <1>1 DEF IsRoute
  <2>2. QED BY <1>2, <1>3, <2>1
<1>5. Length(rt) \in Nat /\ \A i \in 0 .. rt.goalIdx : rt.cum[i] <= Length(rt)
  BY <1>2, <1>3, <1>4 DEF Length
<1>6. ASSUME NEW s \in Nat, s <= Length(rt)
      PROVE  rt.idxAt[s] \in 0 .. rt.goalIdx /\ rt.cum[rt.idxAt[s]] <= s
  BY <1>1, <1>5, <1>6 DEF IsRoute
<1>7. QED BY <1>2, <1>3, <1>4, <1>5, <1>6

LEMMA RouteEdges ==
  ASSUME NEW rt \in Routes
  PROVE  /\ \A k \in 0 .. rt.n - 1 :
              /\ EdgeStart(rt, k) \in Nat /\ EdgeEnd(rt, k) \in Nat
              /\ EdgeStart(rt, k) + Overshoot < EdgeEnd(rt, k)
              /\ EdgeEnd(rt, k) <= Length(rt)
         /\ \A j, k \in 0 .. rt.n - 1 : j < k =>
              /\ EdgeEnd(rt, j) <= EdgeStart(rt, k)
              /\ EdgeEnd(rt, j) < EdgeEnd(rt, k)
         /\ EdgeEnd(rt, rt.n - 1) = Length(rt)
<1>1. IsRoute(rt)
  BY RouteAssumption
<1>2. rt.n \in Nat /\ rt.n > 0
  BY RouteNumbers
<1>3. \A k \in 0 .. rt.n - 1 : rt.endIdx[k] \in 0 .. rt.goalIdx /\ rt.cum[rt.endIdx[k]] \in Nat
                               /\ rt.cum[rt.endIdx[k]] <= Length(rt)
  BY <1>1, RouteNumbers DEF IsRoute
<1>4. \A j, k \in 0 .. rt.n - 1 : j < k => rt.cum[rt.endIdx[j]] < rt.cum[rt.endIdx[k]]
  BY <1>1, <1>3 DEF IsRoute
<1>5. \A k \in 0 .. rt.n - 1 :
        /\ EdgeStart(rt, k) \in Nat /\ EdgeEnd(rt, k) \in Nat
        /\ EdgeEnd(rt, k) <= Length(rt)
  <2>1. TAKE k \in 0 .. rt.n - 1
  <2>2. k # 0 => k - 1 \in 0 .. rt.n - 1
    BY <1>2
  <2>3. QED BY <1>3, <2>2 DEF EdgeStart, EdgeEnd
<1>6. \A k \in 0 .. rt.n - 1 : EdgeStart(rt, k) + Overshoot < EdgeEnd(rt, k)
  BY <1>1 DEF IsRoute
<1>7. ASSUME NEW j \in 0 .. rt.n - 1, NEW k \in 0 .. rt.n - 1, j < k
      PROVE  EdgeEnd(rt, j) <= EdgeStart(rt, k) /\ EdgeEnd(rt, j) < EdgeEnd(rt, k)
  <2>1. k - 1 \in 0 .. rt.n - 1 /\ k # 0
    BY <1>2, <1>7
  <2>2. j = k - 1 \/ j < k - 1
    BY <1>7
  <2>3. QED BY <2>1, <2>2, <1>3, <1>4, <1>7 DEF EdgeStart, EdgeEnd
<1>8. EdgeEnd(rt, rt.n - 1) = Length(rt)
  BY <1>1 DEF IsRoute, EdgeEnd, Length
<1>9. QED BY <1>5, <1>6, <1>7, <1>8

(* The permission that edge k gives stays on edge k, far enough from its   *)
(* end that a robot which overshoots is still on it, unless it is the last. *)
LEMMA ClearAtFacts ==
  ASSUME NEW rt \in Routes, NEW k \in 0 .. rt.n - 1
  PROVE  /\ ClearAt(rt, k) \in 0 .. rt.goalIdx
         /\ rt.cum[ClearAt(rt, k)] <= EdgeEnd(rt, k)
         /\ k # rt.n - 1 => rt.cum[ClearAt(rt, k)] + Overshoot <= EdgeEnd(rt, k)
<1>1. CASE k = rt.n - 1
  BY <1>1, RouteNumbers, RouteEdges DEF ClearAt, Length
<1>2. CASE k # rt.n - 1
  <2> DEFINE s == MaxOf(EdgeStart(rt, k), EdgeEnd(rt, k) - NodeStopMargin)
  <2>1. s \in Nat /\ s <= Length(rt) /\ s + Overshoot <= EdgeEnd(rt, k)
    BY RouteEdges, RouteNumbers, ParameterAssumption
  <2>2. rt.idxAt[s] \in 0 .. rt.goalIdx /\ rt.cum[rt.idxAt[s]] <= s
    BY <2>1, RouteNumbers
  <2>3. ClearAt(rt, k) = rt.idxAt[s]
    BY <1>2 DEF ClearAt
  <2> HIDE DEF s
  <2>4. rt.cum[rt.idxAt[s]] \in Nat /\ EdgeEnd(rt, k) \in Nat
    BY <2>2, RouteNumbers, RouteEdges
  <2>5. QED BY <2>1, <2>2, <2>3, <2>4, ParameterAssumption
<1>3. QED BY <1>1, <1>2

(* The bounded window of poses. *)
LEMMA PushFacts ==
  ASSUME NEW S, NEW w \in Seq(S), NEW x \in S, Len(w) <= ConfirmUpdates
  PROVE  /\ Push(w, x) \in Seq(S)
         /\ Len(Push(w, x)) = IF Len(w) < ConfirmUpdates THEN Len(w) + 1 ELSE Len(w)
         /\ Len(Push(w, x)) <= ConfirmUpdates
         /\ Len(w) < ConfirmUpdates =>
              \A i \in 1 .. Len(w) + 1 : Push(w, x)[i] = IF i <= Len(w) THEN w[i] ELSE x
         /\ Len(w) = ConfirmUpdates =>
              \A i \in 1 .. Len(w) : Push(w, x)[i] = IF i < Len(w) THEN w[i + 1] ELSE x
<1>1. CASE Len(w) < ConfirmUpdates
  BY <1>1, ParameterAssumption DEF Push
<1>2. CASE Len(w) = ConfirmUpdates
  <2>1. w # <<>> /\ Len(w) \in Nat \ {0}
    BY <1>2, ParameterAssumption
  <2>2. Tail(w) \in Seq(S) /\ Len(Tail(w)) = Len(w) - 1
    BY <2>1
  <2>3. \A i \in 1 .. Len(w) - 1 : Tail(w)[i] = w[i + 1]
    BY <2>1
  <2>4. Push(w, x) = Append(Tail(w), x)
    BY <1>2, ParameterAssumption DEF Push
  <2>5. QED BY <1>2, <2>1, <2>2, <2>3, <2>4
<1>3. QED BY <1>1, <1>2, ParameterAssumption

(* The renumbered ticks are numbers. *)
LEMMA RankIsNat ==
  ASSUME request \in [Robots -> Nat], NEW t \in Nat
  PROVE  Rank(t) \in Nat
<1> DEFINE asking == {p \in Robots : request[p] # 0}
           value == [p \in asking |-> request[p]]
<1>1. IsFiniteSet(asking)
  BY NullAssumption, FS_Subset
<1>2. value \in Surjection(asking, Pending)
  BY DEF Surjection, Pending
<1>3. IsFiniteSet(Pending)
  BY <1>1, <1>2, FS_Surjection
<1>4. IsFiniteSet({u \in Pending : u < t})
  BY <1>3, FS_Subset
<1>5. QED BY <1>4, FS_CardinalityType DEF Rank

----------------------------------------------------------------------------
(* Type correctness. *)

(* Every number kept for a robot lies on its route; a robot that has        *)
(* arrived holds nothing; a tick only visits registered robots.             *)
SlotOK ==
  /\ todo \subseteq Registered /\ live \subseteq Registered
  /\ \A r \in Registered :
       /\ first[r] <= next[r] /\ next[r] <= route[r].n
       /\ finished[r] => next[r] = 0
       /\ clear[r] <= route[r].goalIdx /\ granted[r] <= route[r].goalIdx
       /\ progress[r] <= Length(route[r])
       /\ belief[r] <= Length(route[r]) /\ at[r] <= Length(route[r])
       /\ \A i \in 1 .. Len(recent[r]) : recent[r][i] <= Length(route[r])

Typed == TypeOK /\ SlotOK

LEMMA InitTyped == Init => Typed
<1> SUFFICES ASSUME Init PROVE Typed
  OBVIOUS
<1> USE DEF Init
<1>1. Registered = {}
  BY DEF Registered
<1>2. TypeOK
  BY ParameterAssumption DEF TypeOK, NothingBehind
<1>3. SlotOK
  BY <1>1 DEF SlotOK
<1>4. QED BY <1>2, <1>3 DEF Typed

LEMMA RegisteredRoute ==
  ASSUME TypeOK, NEW r \in Registered
  PROVE  r \in Robots /\ route[r] \in Routes
  BY DEF TypeOK, Registered

LEMMA AssignMoves ==
  ASSUME NEW r \in Robots, NEW rt, Assign(r, rt)
  PROVE  at' = at \/ at' = [at EXCEPT ![r] = 0]
BY DEF Assign, StandsAtStart

LEMMA AssignTyped ==
  ASSUME Typed, NEW r \in Robots, NEW rt \in RoutesOf[r], Assign(r, rt)
  PROVE  Typed'
<1> USE DEF Typed
<1>1. rt \in Routes /\ rt # NoRoute
  BY RouteAssumption
<1>2. Registered' = Registered \cup {r}
  BY <1>1 DEF Assign, Register, Registered, TypeOK
<1>3. at' \in [Robots -> Nat] /\ at'[r] <= Length(rt)
  <2>1. CASE at' = [at EXCEPT ![r] = 0]
    BY <1>1, <2>1, RouteNumbers DEF TypeOK
  <2>2. CASE route[r] = rt /\ at' = at
    BY <1>1, <2>2 DEF TypeOK, SlotOK, Registered
  <2>3. QED BY <2>1, <2>2 DEF Assign, StandsAtStart
<1>4. TypeOK'
  <2>1. nodeHolder' \in [Nodes -> Robots \cup {NoRobot}]
    <3>1. Without(nodeHolder, r) \in [Nodes -> Robots \cup {NoRobot}]
      BY DEF TypeOK, Without
    <3>2. QED BY <3>1 DEF Assign, Register
  <2>2. edgeHolder' \in [Edges -> Robots \cup {NoRobot}]
    BY DEF TypeOK, Without, Assign, Register
  <2>3. behind' \in [Robots -> [count : Nat, top : Nat]]
    BY DEF TypeOK, Assign, Register, NothingBehind
  <2>4. /\ recent' \in [Robots -> Seq(Nat)] /\ honest' \in [Robots -> Seq(BOOLEAN)]
        /\ \A q \in Robots : Len(recent'[q]) <= ConfirmUpdates /\ Len(honest'[q]) = Len(recent'[q])
    <3>1. recent' = [recent EXCEPT ![r] = <<>>] /\ honest' = [honest EXCEPT ![r] = <<>>]
      BY DEF Assign, Register
    <3>2. <<>> \in Seq(Nat) /\ <<>> \in Seq(BOOLEAN) /\ Len(<<>>) = 0
      OBVIOUS
    <3>3. recent \in [Robots -> Seq(Nat)] /\ honest \in [Robots -> Seq(BOOLEAN)]
      BY DEF TypeOK
    <3>4. recent' \in [Robots -> Seq(Nat)] /\ honest' \in [Robots -> Seq(BOOLEAN)]
      BY <3>1, <3>2, <3>3
    <3>5. ASSUME NEW q \in Robots
          PROVE  Len(recent'[q]) <= ConfirmUpdates /\ Len(honest'[q]) = Len(recent'[q])
      <4>1. CASE q = r
        BY <3>1, <3>2, <3>3, <4>1, ParameterAssumption
      <4>2. CASE q # r
        BY <3>1, <3>3, <4>2 DEF TypeOK
      <4>3. QED BY <4>1, <4>2
    <3>6. QED BY <3>4, <3>5
  <2>5. QED BY <1>1, <1>3, <2>1, <2>2, <2>3, <2>4 DEF TypeOK, Assign, Register, tickVars
<1>5. SlotOK'
  <2>1. todo' \subseteq Registered' /\ live' \subseteq Registered'
    BY <1>2 DEF SlotOK, Assign, tickVars
  <2>2. ASSUME NEW q \in Registered', q # r
        PROVE  /\ first'[q] <= next'[q] /\ next'[q] <= route'[q].n
               /\ finished'[q] => next'[q] = 0
               /\ clear'[q] <= route'[q].goalIdx /\ granted'[q] <= route'[q].goalIdx
               /\ progress'[q] <= Length(route'[q])
               /\ belief'[q] <= Length(route'[q]) /\ at'[q] <= Length(route'[q])
               /\ \A i \in 1 .. Len(recent'[q]) : recent'[q][i] <= Length(route'[q])
    <3>1. q \in Registered /\ at'[q] = at[q]
      <4>1. q \in Registered
        BY <1>2, <2>2 DEF Assign, Register, TypeOK, Registered
      <4>2. QED BY <2>2, <4>1, AssignMoves DEF TypeOK, Registered
    <3>2. QED BY <2>2, <3>1 DEF SlotOK, TypeOK, Assign, Register, Registered
  <2>3. /\ first'[r] = 0 /\ next'[r] = 0 /\ clear'[r] = 0 /\ granted'[r] = 0
        /\ progress'[r] = 0 /\ belief'[r] = 0 /\ recent'[r] = <<>> /\ route'[r] = rt
        /\ finished'[r] = FALSE
    BY DEF TypeOK, Assign, Register
  <2>4. QED BY <1>1, <1>3, <2>1, <2>2, <2>3, RouteNumbers DEF SlotOK
<1>6. QED BY <1>4, <1>5

LEMMA StatusTyped ==
  ASSUME Typed, NEW r \in Robots, Status(r) \/ StatusJunctionStop(r)
  PROVE  Typed'
<1> USE DEF Typed
<1>1. r \in Registered /\ route[r] \in Routes
  BY RegisteredRoute DEF Status, StatusDriving, StatusJunctionStop, StatusArrived,
                         StatusArrivedAccepted
<1>2. Registered' = Registered
  BY DEF Status, StatusDriving, StatusJunctionStop, StatusArrived, StatusArrivedAccepted,
         Registered, slotVars
<1>3. reported' \in [Robots -> Nat]
  <2>1. belief[r] \in Nat /\ belief[r] <= Length(route[r])
    BY <1>1 DEF TypeOK, SlotOK
  <2>2. route[r].cum[route[r].idxAt[belief[r]]] \in Nat
    BY <1>1, <2>1, RouteNumbers
  <2>3. reported' = [reported EXCEPT ![r] = route[r].cum[route[r].idxAt[belief[r]]]]
    BY DEF Status, StatusDriving, StatusJunctionStop, StatusArrived, StatusArrivedAccepted,
           NoteReported
  <2>4. QED BY <2>2, <2>3 DEF TypeOK
<1>4. CASE StatusDriving(r)
  BY <1>2, <1>3, <1>4 DEF StatusDriving, TypeOK, SlotOK, slotVars, poseVars, tableVars,
                          requestVars, tickVars, robotVars
<1>5. CASE StatusJunctionStop(r)
  BY <1>2, <1>3, <1>5 DEF StatusJunctionStop, TypeOK, SlotOK, slotVars, poseVars, tableVars,
                          tickVars, robotVars
<1>6. CASE StatusArrived(r)
  BY <1>2, <1>3, <1>6 DEF StatusArrived, TypeOK, SlotOK, slotVars, poseVars, tableVars,
                          requestVars, tickVars, robotVars
<1>7. CASE StatusArrivedAccepted(r)
  <2>1. nodeHolder' \in [Nodes -> Robots \cup {NoRobot}]
    <3>1. Without(nodeHolder, r) \in [Nodes -> Robots \cup {NoRobot}]
      BY DEF TypeOK, Without
    <3>2. QED BY <1>7, <3>1 DEF StatusArrivedAccepted
  <2>2. edgeHolder' \in [Edges -> Robots \cup {NoRobot}]
    BY <1>7 DEF TypeOK, Without, StatusArrivedAccepted
  <2>3. TypeOK'
    BY <1>3, <1>7, <2>1, <2>2 DEF StatusArrivedAccepted, TypeOK, poseVars, requestVars,
                                  tickVars, robotVars
  <2>4. SlotOK'
    <3>1. /\ first' = [first EXCEPT ![r] = 0] /\ next' = [next EXCEPT ![r] = 0]
          /\ finished' = [finished EXCEPT ![r] = TRUE]
          /\ UNCHANGED <<route, clear, poseVars, tickVars, robotVars>>
      BY <1>7 DEF StatusArrivedAccepted
    <3>2. route[r].n \in Nat
      BY <1>1, RouteNumbers
    <3>3. first \in [Robots -> Nat] /\ next \in [Robots -> Nat] /\ finished \in [Robots -> BOOLEAN]
      BY DEF TypeOK
    <3>4. \A q \in Registered : /\ first'[q] <= next'[q] /\ next'[q] <= route[q].n
                                /\ finished'[q] => next'[q] = 0
      BY <3>1, <3>2, <3>3 DEF SlotOK, Registered
    <3>5. QED BY <1>2, <3>1, <3>4 DEF SlotOK, poseVars, tickVars, robotVars
  <2>5. QED BY <2>3, <2>4
<1>8. QED BY <1>4, <1>5, <1>6, <1>7 DEF Status

LEMMA PoseFreshTyped ==
  ASSUME Typed, NEW r \in Robots, PoseFresh(r)
  PROVE  Typed'
<1> USE DEF Typed
<1>1. r \in Registered /\ route[r] \in Routes
  BY RegisteredRoute DEF PoseFresh, IsNextIn, SlotOK
<1>2. Registered' = Registered
  BY DEF PoseFresh, Registered, slotVars
<1>3. Length(route[r]) \in Nat
  BY <1>1, RouteNumbers
<1>4. PICK s \in 0 .. Length(route[r]) :
        /\ UpdatePose(r, s, IsHonest(r, s))
        /\ belief' = [belief EXCEPT ![r] = MaxOf(@, s)]
  BY DEF PoseFresh
<1>5. s \in Nat /\ s <= Length(route[r]) /\ IsHonest(r, s) \in BOOLEAN
  BY <1>3 DEF IsHonest
<1>6. /\ recent[r] \in Seq(Nat) /\ honest[r] \in Seq(BOOLEAN)
      /\ Len(recent[r]) <= ConfirmUpdates /\ Len(honest[r]) = Len(recent[r])
  BY DEF TypeOK
<1>7. /\ recent' = [recent EXCEPT ![r] = Push(@, s)]
      /\ honest' = [honest EXCEPT ![r] = Push(@, IsHonest(r, s))]
  BY <1>4 DEF UpdatePose
<1>8. /\ Push(recent[r], s) \in Seq(Nat) /\ Len(Push(recent[r], s)) <= ConfirmUpdates
      /\ \A i \in 1 .. Len(Push(recent[r], s)) : Push(recent[r], s)[i] <= Length(route[r])
  <2>1. \A i \in 1 .. Len(recent[r]) : recent[r][i] <= Length(route[r])
    BY <1>1 DEF SlotOK
  <2>2. Len(recent[r]) \in Nat
    BY <1>6
  <2> DEFINE w == recent[r]
             p == Push(w, s)
  <2>3. /\ p \in Seq(Nat)
        /\ Len(p) = IF Len(w) < ConfirmUpdates THEN Len(w) + 1 ELSE Len(w)
        /\ Len(p) <= ConfirmUpdates
        /\ Len(w) < ConfirmUpdates =>
             \A i \in 1 .. Len(w) + 1 : p[i] = IF i <= Len(w) THEN w[i] ELSE s
        /\ Len(w) = ConfirmUpdates =>
             \A i \in 1 .. Len(w) : p[i] = IF i < Len(w) THEN w[i + 1] ELSE s
    <3>1. w \in Seq(Nat) /\ s \in Nat /\ Len(w) <= ConfirmUpdates
      BY <1>5, <1>6
    <3> HIDE DEF w
    <3>2. p \in Seq(Nat)
      BY <3>1, PushFacts, Zenon
    <3>3. Len(p) = IF Len(w) < ConfirmUpdates THEN Len(w) + 1 ELSE Len(w)
      BY <3>1, PushFacts, Zenon
    <3>4. Len(w) < ConfirmUpdates =>
            \A i \in 1 .. Len(w) + 1 : p[i] = IF i <= Len(w) THEN w[i] ELSE s
      BY <3>1, PushFacts, Zenon
    <3>5. Len(w) = ConfirmUpdates =>
            \A i \in 1 .. Len(w) : p[i] = IF i < Len(w) THEN w[i + 1] ELSE s
      <4>1. ASSUME Len(w) = ConfirmUpdates, NEW i \in 1 .. Len(w)
            PROVE  Push(w, s)[i] = IF i < Len(w) THEN w[i + 1] ELSE s
        BY <3>1, <4>1, PushFacts
      <4>2. QED BY <4>1
    <3>6. Len(p) <= ConfirmUpdates
      BY <3>1, PushFacts, Zenon
    <3>7. QED BY <3>2, <3>3, <3>4, <3>5, <3>6
  <2> HIDE DEF w, p
  <2>4. \A i \in 1 .. Len(p) : p[i] <= Length(route[r])
    <3>1. \A i \in 1 .. Len(w) : w[i] <= Length(route[r])
      BY <2>1 DEF w
    <3>2. Len(w) \in Nat /\ Len(w) <= ConfirmUpdates
      BY <1>6, <2>2 DEF w
    <3>3. QED BY <1>5, <2>3, <3>1, <3>2, ParameterAssumption
  <2>5. QED BY <2>3, <2>4 DEF p, w
<1>9. /\ Push(honest[r], IsHonest(r, s)) \in Seq(BOOLEAN)
      /\ Len(Push(honest[r], IsHonest(r, s))) = Len(Push(recent[r], s))
  <2> DEFINE w == recent[r]
             h == honest[r]
             ok == IsHonest(r, s)
  <2>1. /\ w \in Seq(Nat) /\ s \in Nat /\ h \in Seq(BOOLEAN) /\ ok \in BOOLEAN
        /\ Len(w) <= ConfirmUpdates /\ Len(h) = Len(w)
    BY <1>5, <1>6
  <2> HIDE DEF w, h, ok
  <2>2. Len(Push(w, s)) = IF Len(w) < ConfirmUpdates THEN Len(w) + 1 ELSE Len(w)
    BY <2>1, PushFacts, Zenon
  <2>3. h \in Seq(BOOLEAN) /\ ok \in BOOLEAN /\ Len(h) <= ConfirmUpdates
    BY <2>1
  <2>4. Push(h, ok) \in Seq(BOOLEAN)
    BY <2>3, PushFacts, Zenon
  <2>5. Len(Push(h, ok)) = IF Len(h) < ConfirmUpdates THEN Len(h) + 1 ELSE Len(h)
    BY <2>3, ParameterAssumption DEF Push
  <2>6. QED BY <2>1, <2>2, <2>4, <2>5 DEF w, h, ok
<1>10. progress' \in [Robots -> Nat] /\ \A q \in Registered : progress'[q] <= Length(route[q])
  <2>1. CASE progress' = progress
    BY <2>1 DEF TypeOK, SlotOK
  <2>2. CASE progress' # progress
    <3>1. Len(recent'[r]) >= ConfirmUpdates /\ recent'[r] = Push(recent[r], s)
      BY <1>4, <1>7, <1>8, <2>2, ParameterAssumption DEF UpdatePose, TypeOK
    <3>2. PICK i \in 1 .. ConfirmUpdates :
            progress' = [progress EXCEPT ![r] = MinOf(recent'[r][i], @ + MaxStep)]
      BY <1>4, <2>2 DEF UpdatePose
    <3>3. i \in 1 .. Len(recent'[r])
      BY <1>8, <3>1, ParameterAssumption
    <3>4. recent'[r][i] \in Nat /\ recent'[r][i] <= Length(route[r])
      BY <1>8, <3>1, <3>3
    <3>5. progress \in [Robots -> Nat] /\ \A q \in Registered : progress[q] <= Length(route[q])
      BY DEF TypeOK, SlotOK
    <3>6. MinOf(recent'[r][i], progress[r] + MaxStep) \in Nat
          /\ MinOf(recent'[r][i], progress[r] + MaxStep) <= Length(route[r])
      BY <1>3, <3>4, <3>5, ParameterAssumption
    <3>7. QED BY <1>1, <3>2, <3>5, <3>6 DEF Registered
  <2>3. QED BY <2>1, <2>2
<1>11. lead' \in [Robots -> Nat] /\ behind' \in [Robots -> [count : Nat, top : Nat]]
  <2> DEFINE count == behind[r].count + 1
             top == IF count = 1 THEN s ELSE MaxOf(behind[r].top, s)
  <2>1. behind[r].count \in Nat /\ behind[r].top \in Nat /\ lead[r] \in Nat
    BY DEF TypeOK
  <2>2. count \in Nat /\ top \in Nat
    BY <1>5, <2>1
  <2> HIDE DEF count, top
  <2>3. /\ lead' = [lead EXCEPT ![r] = IF ~ (s < lead[r] - RegressTol) THEN MaxOf(@, s)
                                       ELSE IF count >= ConfirmUpdates THEN top ELSE @]
        /\ behind' = [behind EXCEPT ![r] = IF s < lead[r] - RegressTol /\ count < ConfirmUpdates
                                           THEN [count |-> count, top |-> top]
                                           ELSE NothingBehind]
    BY <1>4 DEF UpdatePose, count, top
  <2>4. [count |-> count, top |-> top] \in [count : Nat, top : Nat]
        /\ NothingBehind \in [count : Nat, top : Nat]
    BY <2>2 DEF NothingBehind
  <2>5. QED BY <1>5, <2>1, <2>2, <2>3, <2>4 DEF TypeOK
<1>12. belief' \in [Robots -> Nat] /\ \A q \in Registered : belief'[q] <= Length(route[q])
  <2>1. belief \in [Robots -> Nat] /\ \A q \in Registered : belief[q] <= Length(route[q])
    BY DEF TypeOK, SlotOK
  <2>2. MaxOf(belief[r], s) \in Nat /\ MaxOf(belief[r], s) <= Length(route[r])
    BY <1>1, <1>3, <1>5, <2>1
  <2>3. QED BY <1>1, <1>4, <2>1, <2>2 DEF Registered
<1>13. claim' \in [Robots -> Nat]
  <2>1. claim \in [Robots -> Nat]
    BY DEF TypeOK
  <2>2. claim' = [claim EXCEPT ![r] = IF claim[r] = 0 THEN 0
                                      ELSE MinOf(claim[r] + 1, ConfirmUpdates + 1)]
    BY DEF PoseFresh, CountClaim
  <2>3. QED BY <2>1, <2>2, ParameterAssumption
<1>14. TypeOK'
  <2>1. recent' \in [Robots -> Seq(Nat)] /\ honest' \in [Robots -> Seq(BOOLEAN)]
    BY <1>7, <1>8, <1>9 DEF TypeOK
  <2>2. \A q \in Robots : Len(recent'[q]) <= ConfirmUpdates /\ Len(honest'[q]) = Len(recent'[q])
    BY <1>7, <1>8, <1>9 DEF TypeOK
  <2>3. QED BY <1>10, <1>11, <1>12, <1>13, <2>1, <2>2
            DEF TypeOK, PoseFresh, slotVars, tableVars, requestVars
<1>15. SlotOK'
  <2>1. ASSUME NEW q \in Registered, NEW i \in 1 .. Len(recent'[q])
        PROVE  recent'[q][i] <= Length(route[q])
    <3>1. recent \in [Robots -> Seq(Nat)]
      BY DEF TypeOK
    <3>2. CASE q = r
      BY <1>1, <1>7, <1>8, <3>1, <3>2 DEF Registered
    <3>3. CASE q # r
      BY <1>7, <3>1, <3>3 DEF SlotOK
    <3>4. QED BY <3>2, <3>3
  <2>2. todo' \subseteq Registered /\ live' \subseteq Registered
    BY <1>1 DEF PoseFresh, SlotOK
  <2>3. QED BY <1>2, <1>10, <1>12, <2>1, <2>2 DEF SlotOK, PoseFresh, slotVars
<1>16. QED BY <1>14, <1>15

LEMMA StepBeginTyped ==
  ASSUME Typed, NEW f \in [Robots -> 0 .. MaxEdges], StepBegin(f)
  PROVE  Typed'
<1> USE DEF Typed
<1>1. Registered' = Registered
  BY DEF StepBegin, Registered
<1>2. f \in [Robots -> Nat]
  BY ParameterAssumption
<1>3. \A r \in Registered : f[r] <= next[r]
  <2>1. TAKE r \in Registered
  <2>2. f[r] <= MaxOf(first[r], next[r] - 1)
    BY DEF StepBegin, ReleasesTo, Registered
  <2>3. first[r] \in Nat /\ next[r] \in Nat /\ f[r] \in Nat /\ first[r] <= next[r]
    BY <1>2 DEF SlotOK, TypeOK, Registered
  <2>4. QED BY <2>2, <2>3
<1>4. TypeOK'
  <2>1. nodeHolder' \in [Nodes -> Robots \cup {NoRobot}] /\ edgeHolder' \in [Edges -> Robots \cup {NoRobot}]
    BY DEF StepBegin, TypeOK
  <2>2. now' \in Nat /\ request' \in [Robots -> Nat]
    BY DEF StepBegin, TypeOK
  <2>3. waitingFor' \in [Robots -> Edges \cup {NoEdge}] /\ first' \in [Robots -> Nat]
    BY <1>2 DEF StepBegin
  <2>4. phase' \in {"idle", "pose", "acquire"} /\ todo' \in SUBSET Robots
    BY DEF StepBegin, Registered
  <2>5. UNCHANGED <<route, next, finished, poseVars, reported, clear, claim, live, robotVars>>
    BY DEF StepBegin
  <2>6. QED BY <2>1, <2>2, <2>3, <2>4, <2>5 DEF TypeOK, poseVars, robotVars
<1>5. SlotOK'
  <2>1. /\ first' = f /\ todo' = Registered
        /\ UNCHANGED <<route, next, finished, poseVars, reported, clear, claim, live, robotVars>>
    BY DEF StepBegin
  <2>2. QED BY <1>1, <1>3, <2>1 DEF SlotOK, poseVars, robotVars
<1>6. QED BY <1>4, <1>5

LEMMA TryAcquireTyped ==
  ASSUME Typed, NEW r \in Robots, NEW m \in 0 .. MaxEdges, TryAcquire(r, m)
  PROVE  Typed'
<1> USE DEF Typed
<1>1. r \in Registered /\ route[r] \in Routes
  BY RegisteredRoute DEF TryAcquire, SlotOK
<1>2. m \in Nat /\ m <= route[r].n /\ next[r] <= m /\ route[r].n \in Nat
  BY <1>1, ParameterAssumption, RouteNumbers DEF TryAcquire, Acquires
<1>3. Registered' = Registered
  BY DEF TryAcquire, Registered
<1>4. waitingFor' \in [Robots -> Edges \cup {NoEdge}]
  <2>1. m < route[r].n => route[r].edges[m] \in Edges
    BY <1>1, <1>2, RouteAssumption DEF IsRoute
  <2>2. QED BY <1>2, <2>1 DEF TryAcquire, TypeOK
<1>5. request' \in [Robots -> Nat] /\ next' = [next EXCEPT ![r] = m]
  BY DEF TryAcquire, TypeOK
<1>6. edgeHolder' \in [Edges -> Robots \cup {NoRobot}] /\ nodeHolder' \in [Nodes -> Robots \cup {NoRobot}]
  BY DEF TryAcquire, TypeOK
<1>7. TypeOK'
  <2>1. /\ todo' = todo \ {r}
        /\ UNCHANGED <<route, first, finished, poseVars, reported, now, clear, claim, phase, live,
                       robotVars>>
    BY DEF TryAcquire
  <2>2. next' \in [Robots -> Nat] /\ todo' \in SUBSET Robots
    BY <1>2, <1>5, <2>1 DEF TypeOK
  <2>3. QED BY <1>4, <1>5, <1>6, <2>1, <2>2 DEF TypeOK, poseVars, robotVars
<1>8. SlotOK'
  <2>1. ~ finished[r]
    BY DEF TryAcquire, Asks, HasNext
  <2>2. \A q \in Registered : /\ first[q] <= next'[q] /\ next'[q] <= route[q].n
                              /\ finished[q] => next'[q] = 0
    <3>1. next \in [Robots -> Nat] /\ first \in [Robots -> Nat] /\ first[r] <= next[r]
      BY <1>1 DEF SlotOK, TypeOK
    <3>2. TAKE q \in Registered
    <3>3. CASE q = r
      BY <1>1, <1>2, <1>5, <2>1, <3>1, <3>3 DEF Registered
    <3>4. CASE q # r
      BY <1>5, <3>1, <3>4 DEF SlotOK, Registered
    <3>5. QED BY <3>3, <3>4
  <2>3. /\ todo' = todo \ {r}
        /\ UNCHANGED <<route, first, finished, poseVars, reported, now, clear, claim, phase, live,
                       robotVars>>
    BY DEF TryAcquire
  <2>4. QED BY <1>3, <2>2, <2>3 DEF SlotOK, poseVars, robotVars
<1>9. QED BY <1>7, <1>8

LEMMA ClearUntilFacts ==
  ASSUME Typed, NEW r \in Registered
  PROVE  /\ ClearUntil(r) \in 0 .. route[r].goalIdx
         /\ ClearUntil(r) # 0 =>
              /\ Held(r) # {} /\ next[r] - 1 \in 0 .. route[r].n - 1
              /\ ClearUntil(r) = ClearAt(route[r], next[r] - 1)
<1>1. route[r] \in Routes /\ r \in Robots
  BY RegisteredRoute DEF Typed
<1>2. first[r] \in Nat /\ next[r] \in Nat /\ next[r] <= route[r].n /\ route[r].n \in Nat
      /\ route[r].goalIdx \in Nat
  BY <1>1, RouteNumbers DEF Typed, TypeOK, SlotOK
<1>3. CASE Held(r) = {}
  BY <1>2, <1>3 DEF ClearUntil
<1>4. CASE Held(r) # {}
  <2>1. next[r] - 1 \in 0 .. route[r].n - 1
    BY <1>2, <1>4 DEF Held
  <2>2. QED BY <1>1, <1>4, <2>1, ClearAtFacts DEF ClearUntil
<1>5. QED BY <1>3, <1>4

LEMMA TickEndTyped ==
  ASSUME Typed, TickEnd
  PROVE  Typed'
<1> USE DEF Typed
<1>1. Registered' = Registered
  BY DEF TickEnd, Registered, slotVars
<1>2. ASSUME NEW r \in Registered
      PROVE  clear'[r] \in Nat /\ clear'[r] <= route[r].goalIdx
  <2>1. route[r] \in Routes /\ r \in Robots
    BY RegisteredRoute
  <2>2. ClearUntil(r) \in 0 .. route[r].goalIdx
    BY ClearUntilFacts
  <2>3. progress[r] \in Nat /\ progress[r] <= Length(route[r]) /\ clear[r] \in Nat
    BY <2>1 DEF TypeOK, SlotOK
  <2>4. route[r].idxAt[progress[r]] \in 0 .. route[r].goalIdx /\ route[r].goalIdx \in Nat
    BY <2>1, <2>3, RouteNumbers
  <2>5. QED BY <2>1, <2>2, <2>3, <2>4 DEF TickEnd
<1>3. clear' \in [Robots -> Nat]
  BY <1>2 DEF TickEnd
<1>4. request' \in [Robots -> Nat] /\ now' \in Nat
  BY RankIsNat DEF TickEnd, TypeOK
<1>5. TypeOK'
  BY <1>3, <1>4 DEF TypeOK, SlotOK, TickEnd, slotVars, poseVars, tableVars, robotVars
<1>6. SlotOK'
  BY <1>1, <1>2 DEF SlotOK, TickEnd, slotVars, poseVars, robotVars
<1>7. QED BY <1>5, <1>6

LEMMA OtherTyped ==
  ASSUME Typed,
         \/ TickBegin \/ TickPaused
         \/ \E r \in Robots : PoseStale(r) \/ NothingToAcquire(r) \/ Clearance(r) \/ Move(r)
  PROVE  Typed'
<1> USE DEF Typed
<1>1. Registered' = Registered
  BY DEF TickBegin, TickPaused, PoseStale, NothingToAcquire, Clearance, Move, Registered, slotVars
<1>2. CASE TickBegin
  BY <1>1, <1>2 DEF TickBegin, TypeOK, SlotOK, slotVars, poseVars, tableVars, requestVars,
                    robotVars, Registered
<1>3. CASE TickPaused
  <2>1. TypeOK'
    <3>1. clear' \in [Robots -> Nat] /\ phase' = "idle" /\ live' = {}
      <4>1. clear \in [Robots -> Nat] /\ [r \in Robots |-> 0] \in [Robots -> Nat]
        BY DEF TypeOK
      <4>2. clear' = clear \/ clear' = [r \in Robots |-> 0]
        BY <1>3 DEF TickPaused
      <4>3. QED BY <1>3, <4>1, <4>2 DEF TickPaused
    <3>2. UNCHANGED <<slotVars, poseVars, reported, tableVars, requestVars, claim, todo, robotVars>>
      BY <1>3 DEF TickPaused
    <3>3. QED BY <3>1, <3>2 DEF TypeOK, slotVars, poseVars, tableVars, requestVars, robotVars
  <2>2. \A r \in Registered : clear'[r] <= route[r].goalIdx
    BY <1>3, RegisteredRoute, RouteNumbers DEF TickPaused, SlotOK
  <2>3. QED BY <1>1, <1>3, <2>1, <2>2 DEF TickPaused, SlotOK, slotVars, poseVars, robotVars
<1>4. ASSUME NEW r \in Robots, PoseStale(r)
      PROVE  Typed'
  <2>1. claim' \in [Robots -> Nat]
    <3>1. CountClaim(r)
      BY <1>4 DEF PoseStale
    <3>2. claim \in [Robots -> Nat]
      BY DEF TypeOK
    <3>3. (IF claim[r] = 0 THEN 0 ELSE MinOf(claim[r] + 1, ConfirmUpdates + 1)) \in Nat
      BY <3>2, ParameterAssumption
    <3>4. QED BY <3>1, <3>2, <3>3 DEF CountClaim
  <2>2. QED BY <1>1, <1>4, <2>1 DEF PoseStale, TypeOK, SlotOK, slotVars, poseVars, tableVars,
                                    requestVars, robotVars
<1>5. ASSUME NEW r \in Robots, NothingToAcquire(r)
      PROVE  Typed'
  BY <1>1, <1>5 DEF NothingToAcquire, TypeOK, SlotOK, slotVars, poseVars, tableVars,
                    requestVars, robotVars
<1>6. ASSUME NEW r \in Robots, Clearance(r)
      PROVE  Typed'
  <2>1. granted' = [granted EXCEPT ![r] = clear[r]]
    BY <1>6 DEF Clearance
  <2>2. UNCHANGED <<slotVars, poseVars, reported, tableVars, requestVars, clear, claim, tickVars,
                    belief, at>>
    BY <1>6 DEF Clearance
  <2>3. TypeOK'
    BY <1>6, <2>1, <2>2 DEF TypeOK, slotVars, poseVars, tableVars, requestVars, tickVars
  <2>4. ASSUME NEW q \in Registered
        PROVE  granted'[q] <= route[q].goalIdx
    <3>1. granted[q] <= route[q].goalIdx /\ clear[q] <= route[q].goalIdx
      BY DEF SlotOK
    <3>2. granted'[q] = IF q = r THEN clear[r] ELSE granted[q]
      BY <2>1, <2>4 DEF TypeOK, Registered
    <3>3. QED BY <3>1, <3>2
  <2>5. SlotOK'
    BY <1>1, <2>2, <2>4 DEF SlotOK, slotVars, poseVars, tickVars
  <2>6. QED BY <2>3, <2>5
<1>7. ASSUME NEW r \in Robots, Move(r)
      PROVE  Typed'
  <2>1. at' = [at EXCEPT ![r] = at[r] + 1] /\ r \in Registered
    BY <1>7 DEF Move
  <2>2. route[r] \in Routes /\ at[r] \in Nat
    BY <2>1, RegisteredRoute DEF TypeOK
  <2>3. at[r] + 1 <= Length(route[r])
    <3>1. /\ Length(route[r]) \in Nat /\ route[r].cum[granted[r]] + Overshoot \in Int
      <4>1. granted[r] \in 0 .. route[r].goalIdx
        BY <2>1, <2>2, RouteNumbers DEF TypeOK, SlotOK
      <4>2. QED BY <2>2, <4>1, RouteNumbers, ParameterAssumption
    <3>2. QED BY <1>7, <2>2, <3>1 DEF Move
  <2>4. UNCHANGED <<slotVars, poseVars, reported, tableVars, requestVars, clear, claim, tickVars,
                    granted, belief>>
    BY <1>7 DEF Move
  <2>5. at' \in [Robots -> Nat]
    <3>1. at \in [Robots -> Nat]
      BY DEF TypeOK
    <3>2. at[r] + 1 \in Nat
      BY <2>2
    <3>3. QED BY <2>1, <3>1, <3>2
  <2>6. \A q \in Registered : at'[q] <= Length(route[q])
    BY <2>1, <2>3 DEF SlotOK, TypeOK, Registered
  <2>7. TypeOK'
    BY <2>4, <2>5 DEF TypeOK, slotVars, poseVars, tableVars, requestVars, tickVars
  <2>8. SlotOK'
    BY <1>1, <2>4, <2>6 DEF SlotOK, slotVars, poseVars, tickVars
  <2>9. QED BY <2>7, <2>8
<1>8. QED BY <1>2, <1>3, <1>4, <1>5, <1>6, <1>7

LEMMA NextTyped == Typed /\ [Next]_vars => Typed'
<1> SUFFICES ASSUME Typed, [Next]_vars PROVE Typed'
  OBVIOUS
<1>1. CASE UNCHANGED vars
  BY <1>1 DEF Typed, TypeOK, SlotOK, Registered, vars, slotVars, poseVars, tableVars,
              requestVars, tickVars, robotVars
<1>2. CASE Tick
  BY <1>2, PoseFreshTyped, StepBeginTyped, TryAcquireTyped, TickEndTyped, OtherTyped DEF Tick
<1>3. ASSUME NEW r \in Robots, Handler(r)
      PROVE  Typed'
  BY <1>3, AssignTyped, StatusTyped DEF Handler, Status
<1>4. ASSUME NEW r \in Robots, Clearance(r) \/ Move(r)
      PROVE  Typed'
  BY <1>4, OtherTyped
<1>5. QED BY <1>1, <1>2, <1>3, <1>4 DEF Next

LEMMA AlwaysTyped == Spec => []Typed
  BY InitTyped, NextTyped, PTL DEF Spec

(* Every variable keeps its type: what the coordinator stores of a robot   *)
(* are numbers on its route, and the tables only name robots.              *)
THEOREM TypeCorrect == Spec => []TypeOK
<1>1. Typed => TypeOK
  BY DEF Typed
<1>2. QED BY <1>1, AlwaysTyped, PTL

----------------------------------------------------------------------------
(* The inductive invariant of the safety theorems.                         *)

(* A permission stops short of the end of the last edge held, by as much   *)
(* as a robot may overshoot; on the last edge of the route it need not.    *)
Permitted ==
  \A r \in Registered : UnderWay(r) =>
    \A g \in {clear[r], granted[r]} : g > 0 =>
      /\ first[r] < next[r]
      /\ \/ next[r] = route[r].n
         \/ route[r].cum[g] + Overshoot <= EdgeEnd(route[r], next[r] - 1)

(* An honest pose in the window is no further than the robot may be, and   *)
(* neither is the progress confirmed by a full window.                     *)
Confirmed ==
  \A r \in Registered :
    /\ progress[r] <= at[r] + PoseError
    /\ \A i \in 1 .. Len(recent[r]) : honest[r][i] => recent[r][i] <= at[r] + PoseError

(* A robot is on an edge it holds, and beyond every edge it let go.        *)
OnHeldEdges ==
  \A r \in Registered : UnderWay(r) =>
    /\ at[r] > 0 => first[r] < next[r] /\ at[r] <= EdgeEnd(route[r], next[r] - 1)
    /\ first[r] > 0 => EdgeEnd(route[r], first[r] - 1) + ReleaseBehind - PoseError <= at[r]

(* A robot holds the start node of an edge it holds until it is well past  *)
(* it, and its goal from when it holds the last edge.                      *)
NodesKept ==
  \A r \in Registered : UnderWay(r) =>
    /\ \A k \in Held(r) :
         \/ nodeHolder[route[r].nodes[k]] = r
         \/ EdgeStart(route[r], k) + ReleaseBehind - PoseError <= at[r]
    /\ first[r] < next[r] /\ next[r] = route[r].n => nodeHolder[Goal(route[r])] = r

----------------------------------------------------------------------------
(* Confirmed. *)

(* How many numbers 1 .. n holds. *)
LEMMA CountTo ==
  ASSUME NEW n \in Nat
  PROVE  IsFiniteSet(1 .. n) /\ Cardinality(1 .. n) = n
<1>1. 1 \in Int /\ n \in Int
  OBVIOUS
<1>2. IsFiniteSet(1 .. n) /\ Cardinality(1 .. n) = IF 1 > n THEN 0 ELSE n - 1 + 1
  BY ONLY <1>1, FS_Interval, Zenon
<1>3. (IF 1 > n THEN 0 ELSE n - 1 + 1) = n
  OBVIOUS
<1>4. QED BY <1>2, <1>3

(* Of a full window that passes FewWrong one pose is honest. *)
LEMMA OneHonest ==
  ASSUME NEW w \in Seq(BOOLEAN), Len(w) = ConfirmUpdates, FewWrong(w)
  PROVE  \E i \in 1 .. ConfirmUpdates : w[i]
<1> SUFFICES ASSUME \A i \in 1 .. ConfirmUpdates : ~ w[i]
             PROVE  FALSE
  OBVIOUS
<1>1. {i \in 1 .. Len(w) : ~ w[i]} = 1 .. ConfirmUpdates
  OBVIOUS
<1>2. Cardinality(1 .. ConfirmUpdates) = ConfirmUpdates
  BY CountTo, ParameterAssumption
<1>3. Cardinality({i \in 1 .. Len(w) : ~ w[i]}) <= MaxWrong
  BY DEF FewWrong
<1>4. ConfirmUpdates <= MaxWrong
  BY <1>1, <1>2, <1>3
<1>5. QED BY <1>4, ParameterAssumption

LEMMA ConfirmedPoseFresh ==
  ASSUME Typed, Confirmed, NEW r \in Robots, PoseFresh(r)
  PROVE  Confirmed'
<1>1. r \in Registered /\ route[r] \in Routes /\ Length(route[r]) \in Nat
  BY RegisteredRoute, RouteNumbers DEF PoseFresh, IsNextIn, SlotOK, Typed
<1>2. Registered' = Registered /\ at' = at
  BY DEF PoseFresh, Registered, slotVars
<1>3. PICK s \in 0 .. Length(route[r]) : UpdatePose(r, s, IsHonest(r, s))
  BY DEF PoseFresh
<1> DEFINE w == recent[r]
           h == honest[r]
           ok == IsHonest(r, s)
<1>4. /\ w \in Seq(Nat) /\ h \in Seq(BOOLEAN) /\ Len(w) <= ConfirmUpdates /\ Len(h) = Len(w)
      /\ at[r] \in Nat /\ progress[r] \in Nat
  BY DEF Typed, TypeOK
<1>5. s \in Nat /\ ok \in BOOLEAN /\ (ok => s <= at[r] + PoseError)
  BY <1>1 DEF IsHonest
<1>6. /\ recent' = [recent EXCEPT ![r] = Push(w, s)] /\ recent'[r] = Push(w, s)
      /\ honest' = [honest EXCEPT ![r] = Push(h, ok)] /\ honest'[r] = Push(h, ok)
  BY <1>3 DEF UpdatePose, Typed, TypeOK
<1>7. /\ \A i \in 1 .. Len(w) : h[i] => w[i] <= at[r] + PoseError
      /\ progress[r] <= at[r] + PoseError
  BY <1>1 DEF Confirmed
<1> HIDE DEF w, h, ok
<1>8. /\ Push(w, s) \in Seq(Nat) /\ Push(h, ok) \in Seq(BOOLEAN)
      /\ Len(Push(w, s)) <= ConfirmUpdates /\ Len(Push(h, ok)) = Len(Push(w, s))
  <2>1. Push(w, s) \in Seq(Nat) /\ Len(Push(w, s)) <= ConfirmUpdates
    BY <1>4, <1>5, ParameterAssumption DEF Push
  <2>2. Push(h, ok) \in Seq(BOOLEAN)
    <3>1. h \in Seq(BOOLEAN) /\ ok \in BOOLEAN /\ Len(h) <= ConfirmUpdates
      BY <1>4, <1>5
    <3>2. QED BY <3>1, PushFacts, Zenon
  <2>3. Len(Push(w, s)) = IF Len(w) < ConfirmUpdates THEN Len(w) + 1 ELSE Len(w)
    BY <1>4, <1>5, ParameterAssumption DEF Push
  <2>4. Len(Push(h, ok)) = IF Len(h) < ConfirmUpdates THEN Len(h) + 1 ELSE Len(h)
    BY <1>4, <1>5, ParameterAssumption DEF Push
  <2>5. QED BY <1>4, <2>1, <2>2, <2>3, <2>4
<1>9. \A i \in 1 .. Len(Push(w, s)) : Push(h, ok)[i] => Push(w, s)[i] <= at[r] + PoseError
  <2>1. CASE Len(w) < ConfirmUpdates
    <3>1. Push(w, s) = Append(w, s) /\ Push(h, ok) = Append(h, ok)
      BY <1>4, <2>1 DEF Push
    <3>2. TAKE i \in 1 .. Len(Push(w, s))
    <3>3. Len(Push(w, s)) = Len(w) + 1
      BY <1>4, <1>5, <3>1
    <3>4. CASE i \in 1 .. Len(w)
      <4>1. Push(w, s)[i] = w[i] /\ Push(h, ok)[i] = h[i]
        BY <1>4, <1>5, <3>1, <3>4
      <4>2. QED BY <1>7, <3>4, <4>1
    <3>5. CASE i = Len(w) + 1
      <4>1. Push(w, s)[i] = s /\ Push(h, ok)[i] = ok
        BY <1>4, <1>5, <3>1, <3>5
      <4>2. QED BY <1>5, <4>1
    <3>6. QED BY <1>4, <3>3, <3>4, <3>5
  <2>2. CASE Len(w) = ConfirmUpdates
    <3>1. Push(w, s) = Append(Tail(w), s) /\ Push(h, ok) = Append(Tail(h), ok)
      BY <1>4, <2>2, ParameterAssumption DEF Push
    <3>2. Len(w) \in Nat \ {0} /\ w # <<>> /\ h # <<>>
      BY <1>4, <2>2, ParameterAssumption
    <3>3. /\ Tail(w) \in Seq(Nat) /\ Tail(h) \in Seq(BOOLEAN)
          /\ Len(Tail(w)) = Len(w) - 1 /\ Len(Tail(h)) = Len(w) - 1
          /\ \A i \in 1 .. Len(w) - 1 : Tail(w)[i] = w[i + 1] /\ Tail(h)[i] = h[i + 1]
      BY <1>4, <3>2
    <3>4. \A i \in 1 .. Len(w) - 1 : Tail(h)[i] => Tail(w)[i] <= at[r] + PoseError
      BY <1>7, <3>2, <3>3
    <3>5. TAKE i \in 1 .. Len(Push(w, s))
    <3>6. Len(Push(w, s)) = Len(w)
      BY <1>5, <3>1, <3>2, <3>3
    <3>7. CASE i \in 1 .. Len(w) - 1
      <4>1. Push(w, s)[i] = Tail(w)[i] /\ Push(h, ok)[i] = Tail(h)[i]
        BY <1>5, <3>1, <3>2, <3>3, <3>7
      <4>2. QED BY <3>4, <3>7, <4>1
    <3>8. CASE i = Len(w)
      <4>1. Push(w, s)[i] = s /\ Push(h, ok)[i] = ok
        BY <1>5, <3>1, <3>2, <3>3, <3>8
      <4>2. QED BY <1>5, <4>1
    <3>9. QED BY <3>2, <3>6, <3>7, <3>8
  <2>3. QED BY <1>4, <2>1, <2>2, ParameterAssumption
<1>10. progress'[r] <= at[r] + PoseError
  <2>1. CASE progress' = progress
    BY <1>7, <2>1
  <2>2. CASE progress' # progress
    <3>1. Len(Push(w, s)) = ConfirmUpdates
      BY <1>3, <1>6, <1>8, <2>2, ParameterAssumption DEF UpdatePose
    <3>2. PICK i \in 1 .. ConfirmUpdates :
            /\ IsRearmost(Push(w, s), i)
            /\ progress' = [progress EXCEPT ![r] = MinOf(Push(w, s)[i], @ + MaxStep)]
      BY <1>3, <1>6, <2>2 DEF UpdatePose
    <3>3. FewWrong(Push(h, ok))
      BY <1>6 DEF PoseFresh
    <3>4. PICK j \in 1 .. ConfirmUpdates : Push(h, ok)[j]
      BY <1>8, <3>1, <3>3, OneHonest
    <3> DEFINE x == Push(w, s)[i]
               y == Push(w, s)[j]
    <3>5. x <= y /\ y <= at[r] + PoseError
      BY <1>9, <3>1, <3>2, <3>4 DEF IsRearmost
    <3>6. x \in Nat /\ y \in Nat /\ at[r] \in Nat /\ progress[r] \in Nat
      BY <1>4, <1>8, <3>1
    <3>7. progress'[r] = MinOf(x, progress[r] + MaxStep)
      BY <3>2 DEF Typed, TypeOK
    <3> HIDE DEF x, y
    <3>8. progress'[r] <= x /\ progress'[r] \in Nat
      BY <3>6, <3>7, ParameterAssumption
    <3>9. QED BY <3>5, <3>6, <3>8, ParameterAssumption
  <2>3. QED BY <2>1, <2>2
<1>11. ASSUME NEW q \in Registered, q # r
       PROVE  progress'[q] = progress[q] /\ recent'[q] = recent[q] /\ honest'[q] = honest[q]
  <2>1. /\ progress \in [Robots -> Nat] /\ recent \in [Robots -> Seq(Nat)]
        /\ honest \in [Robots -> Seq(BOOLEAN)] /\ q \in Robots
    BY <1>11 DEF Typed, TypeOK, Registered
  <2>2. progress'[q] = progress[q]
    BY <1>3, <1>6, <1>11, <2>1 DEF UpdatePose
  <2>3. recent'[q] = recent[q]
    BY <1>3, <1>6, <1>11, <2>1 DEF UpdatePose
  <2>4. honest'[q] = honest[q]
    BY <1>3, <1>6, <1>11, <2>1 DEF UpdatePose
  <2>5. QED BY <2>2, <2>3, <2>4
<1>12. QED BY <1>2, <1>6, <1>8, <1>9, <1>10, <1>11 DEF Confirmed

LEMMA ConfirmedStep == Typed /\ Confirmed /\ [Next]_vars => Confirmed'
<1> SUFFICES ASSUME Typed, Confirmed, [Next]_vars PROVE Confirmed'
  OBVIOUS
<1>1. CASE UNCHANGED <<route, at, poseVars>>
  BY <1>1 DEF Confirmed, Registered, poseVars
<1>2. ASSUME NEW r \in Robots, NEW rt \in RoutesOf[r], Assign(r, rt)
      PROVE  Confirmed'
  <2>1. ASSUME NEW q \in Registered', q # r
        PROVE  /\ q \in Registered /\ progress'[q] = progress[q] /\ recent'[q] = recent[q]
               /\ honest'[q] = honest[q] /\ at'[q] = at[q]
    <3>1. /\ q \in Registered /\ progress'[q] = progress[q] /\ recent'[q] = recent[q]
          /\ honest'[q] = honest[q]
      BY <1>2, <2>1 DEF Assign, Register, Registered, Typed, TypeOK
    <3>2. at'[q] = at[q]
      BY <1>2, <2>1, <3>1, AssignMoves DEF Registered, Typed, TypeOK
    <3>3. QED BY <3>1, <3>2
  <2>2. progress'[r] = 0 /\ recent'[r] = <<>>
    BY <1>2 DEF Assign, Register, Typed, TypeOK
  <2>3. at'[r] \in Nat
    BY <1>2, AssignTyped DEF Typed, TypeOK
  <2>4. ASSUME NEW q \in Registered'
        PROVE  /\ progress'[q] <= at'[q] + PoseError
               /\ \A i \in 1 .. Len(recent'[q]) : honest'[q][i] => recent'[q][i] <= at'[q] + PoseError
    <3>1. CASE q = r
      BY <2>2, <2>3, <3>1, ParameterAssumption
    <3>2. CASE q # r
      BY <2>1, <3>2 DEF Confirmed
    <3>3. QED BY <3>1, <3>2
  <2>5. QED BY <2>4 DEF Confirmed
<1>3. ASSUME NEW r \in Robots, PoseFresh(r)
      PROVE  Confirmed'
  BY <1>3, ConfirmedPoseFresh
<1>4. ASSUME NEW r \in Robots, Move(r)
      PROVE  Confirmed'
  <2>1. /\ at' = [at EXCEPT ![r] = at[r] + 1] /\ at \in [Robots -> Nat]
        /\ progress' = progress /\ recent' = recent /\ honest' = honest /\ Registered' = Registered
    BY <1>4 DEF Move, poseVars, slotVars, Registered, Typed, TypeOK
  <2>2. ASSUME NEW q \in Registered
        PROVE  /\ at[q] \in Nat /\ at'[q] \in Nat /\ at[q] <= at'[q] /\ progress[q] \in Nat
               /\ recent[q] \in Seq(Nat)
    <3>1. q \in Robots /\ progress[q] \in Nat /\ recent[q] \in Seq(Nat)
      BY DEF Registered, Typed, TypeOK
    <3>2. QED BY <2>1, <3>1
  <2>3. ASSUME NEW q \in Registered
        PROVE  /\ progress[q] <= at'[q] + PoseError
               /\ \A i \in 1 .. Len(recent[q]) : honest[q][i] => recent[q][i] <= at'[q] + PoseError
    <3>1. at[q] + PoseError <= at'[q] + PoseError
      BY <2>2, ParameterAssumption
    <3>2. \A i \in 1 .. Len(recent[q]) : recent[q][i] \in Nat
      BY <2>2
    <3>3. /\ progress[q] <= at[q] + PoseError
          /\ \A i \in 1 .. Len(recent[q]) : honest[q][i] => recent[q][i] <= at[q] + PoseError
      BY DEF Confirmed
    <3>4. at[q] + PoseError \in Nat /\ at'[q] + PoseError \in Nat
      BY <2>2, ParameterAssumption
    <3> HIDE DEF Registered
    <3>5. QED BY <2>2, <3>1, <3>2, <3>3, <3>4
  <2>4. QED BY <2>1, <2>3 DEF Confirmed
<1>5. CASE Tick
  BY <1>1, <1>3, <1>5 DEF Tick, TickBegin, PoseStale, TickPaused, StepBegin, TryAcquire,
       NothingToAcquire, TickEnd, slotVars, robotVars, poseVars
<1>6. ASSUME NEW r \in Robots, Handler(r) \/ Clearance(r)
      PROVE  Confirmed'
  BY <1>1, <1>2, <1>6 DEF Handler, StatusDriving, StatusJunctionStop, StatusArrived,
       StatusArrivedAccepted, Clearance, slotVars, robotVars
<1>7. CASE UNCHANGED vars
  BY <1>1, <1>7 DEF vars, slotVars, robotVars
<1>8. QED BY <1>4, <1>5, <1>6, <1>7 DEF Next

----------------------------------------------------------------------------
(* TablesAgree. *)

LEMMA TablesAgreeStep == Typed /\ TablesAgree /\ [Next]_vars => TablesAgree'
<1> SUFFICES ASSUME Typed, TablesAgree, [Next]_vars,
                    NEW e \in Edges, NEW r \in Robots
             PROVE  edgeHolder'[e] = r
                      <=> (UnderWay(r) /\ \E k \in Held(r) : route[r].edges[k] = e)'
  BY DEF TablesAgree
<1>1. edgeHolder[e] = r <=> UnderWay(r) /\ \E k \in Held(r) : route[r].edges[k] = e
  BY DEF TablesAgree
<1>2. CASE UNCHANGED <<slotVars, edgeHolder>>
  BY <1>1, <1>2 DEF UnderWay, Held, slotVars
<1>3. ASSUME NEW q \in Robots, NEW rt \in RoutesOf[q], Assign(q, rt)
      PROVE  edgeHolder'[e] = r
               <=> (UnderWay(r) /\ \E k \in Held(r) : route[r].edges[k] = e)'
  <2>1. edgeHolder'[e] = IF edgeHolder[e] = q THEN NoRobot ELSE edgeHolder[e]
    BY <1>3 DEF Assign, Register, Without, Typed, TypeOK
  <2>2. CASE r = q
    <3>1. first'[r] = 0 /\ next'[r] = 0
      BY <1>3, <2>2 DEF Assign, Register, Typed, TypeOK
    <3>2. Held(r)' = {}
      BY <3>1 DEF Held
    <3>3. QED BY <2>1, <2>2, <3>2, NullAssumption
  <2>3. CASE r # q
    <3>1. /\ route'[r] = route[r] /\ first'[r] = first[r] /\ next'[r] = next[r]
          /\ finished'[r] = finished[r]
      BY <1>3, <2>3 DEF Assign, Register, Typed, TypeOK
    <3>2. QED BY <1>1, <2>1, <2>3, <3>1, NullAssumption DEF UnderWay, Held
  <2>4. QED BY <2>2, <2>3
<1>4. ASSUME NEW q \in Robots, StatusArrivedAccepted(q)
      PROVE  edgeHolder'[e] = r
               <=> (UnderWay(r) /\ \E k \in Held(r) : route[r].edges[k] = e)'
  <2>1. edgeHolder'[e] = IF edgeHolder[e] = q THEN NoRobot ELSE edgeHolder[e]
    BY <1>4 DEF StatusArrivedAccepted, Without, Typed, TypeOK
  <2>2. CASE r = q
    BY <1>4, <2>1, <2>2, NullAssumption DEF StatusArrivedAccepted, UnderWay, Typed, TypeOK
  <2>3. CASE r # q
    <3>1. /\ route'[r] = route[r] /\ first'[r] = first[r] /\ next'[r] = next[r]
          /\ finished'[r] = finished[r]
      BY <1>4, <2>3 DEF StatusArrivedAccepted, Typed, TypeOK
    <3>2. QED BY <1>1, <2>1, <2>3, <3>1, NullAssumption DEF UnderWay, Held
  <2>4. QED BY <2>2, <2>3
<1>5. ASSUME NEW f \in [Robots -> 0 .. MaxEdges], StepBegin(f)
      PROVE  edgeHolder'[e] = r
               <=> (UnderWay(r) /\ \E k \in Held(r) : route[r].edges[k] = e)'
  <2> DEFINE Released(q) == \E k \in first[q] .. f[q] - 1 : route[q].edges[k] = e
  <2>1. edgeHolder'[e] = IF \E q \in Registered : edgeHolder[e] = q /\ Released(q)
                         THEN NoRobot ELSE edgeHolder[e]
    BY <1>5 DEF StepBegin
  <2>2. first'[r] = f[r] /\ next' = next /\ route' = route /\ finished' = finished
    BY <1>5 DEF StepBegin
  <2>3. edgeHolder'[e] = r <=> edgeHolder[e] = r /\ ~ (r \in Registered /\ Released(r))
    <3> HIDE DEF Released
    <3>1. NoRobot # r
      BY NullAssumption
    <3>2. QED BY <2>1, <3>1
  <2>4. CASE ~ UnderWay(r)
    <3>1. ~ UnderWay(r)'
      BY <2>2, <2>4 DEF UnderWay
    <3>2. QED BY <1>1, <2>3, <2>4, <3>1
  <2>5. CASE UnderWay(r)
    <3>1. r \in Registered /\ route[r] \in Routes /\ UnderWay(r)'
      BY <2>2, <2>5 DEF UnderWay, Registered, Typed, TypeOK
    <3>2. /\ first[r] \in Nat /\ next[r] \in Nat /\ route[r].n \in Nat /\ f[r] \in Nat
          /\ first[r] <= next[r] /\ next[r] <= route[r].n
      <4>1. f[r] \in Nat
        BY ParameterAssumption
      <4>2. route[r].n \in Nat
        BY <3>1, RouteNumbers
      <4>3. QED BY <3>1, <4>1, <4>2 DEF Typed, TypeOK, SlotOK
    <3>3. first[r] <= f[r] /\ (f[r] = first[r] \/ f[r] < next[r])
      BY <1>5, <3>1, <3>2 DEF StepBegin, ReleasesTo
    <3>4. \A j, k \in 0 .. route[r].n - 1 : j # k => route[r].edges[j] # route[r].edges[k]
      BY <3>1, RouteAssumption DEF IsRoute
    <3>5. (\E k \in Held(r) : route[r].edges[k] = e) /\ ~ Released(r)
            <=> \E k \in f[r] .. next[r] - 1 : route[r].edges[k] = e
      BY <3>2, <3>3, <3>4 DEF Held
    <3> HIDE DEF Released
    <3>6. Held(r)' = f[r] .. next[r] - 1
      BY <2>2 DEF Held
    <3>7. QED BY <1>1, <2>2, <2>3, <2>5, <3>1, <3>5, <3>6
  <2>6. QED BY <2>4, <2>5
<1>6. ASSUME NEW q \in Robots, NEW m \in 0 .. MaxEdges, TryAcquire(q, m)
      PROVE  edgeHolder'[e] = r
               <=> (UnderWay(r) /\ \E k \in Held(r) : route[r].edges[k] = e)'
  <2>1. edgeHolder'[e] = IF \E k \in next[q] .. m - 1 : route[q].edges[k] = e
                         THEN q ELSE edgeHolder[e]
    BY <1>6 DEF TryAcquire
  <2>2. /\ route' = route /\ first' = first /\ finished' = finished
        /\ next' = [next EXCEPT ![q] = m] /\ next \in [Robots -> Nat] /\ first \in [Robots -> Nat]
    BY <1>6 DEF TryAcquire, Typed, TypeOK
  <2>3. q \in Registered /\ UnderWay(q) /\ next[q] <= m /\ m \in Nat /\ first[q] <= next[q]
    BY <1>6, ParameterAssumption
    DEF TryAcquire, Asks, HasNext, UnderWay, Registered, Typed, TypeOK, SlotOK
  <2>4. (\E k \in next[q] .. m - 1 : route[q].edges[k] = e) => edgeHolder[e] \in {NoRobot, q}
    BY <1>6 DEF TryAcquire, Acquires, Takeable, FreeFor
  <2>5. CASE r = q
    <3>1. Held(r)' = first[r] .. m - 1
      BY <2>2, <2>5 DEF Held
    <3>2. (\E k \in Held(r)' : route[r].edges[k] = e)
            <=> \/ \E k \in Held(r) : route[r].edges[k] = e
                \/ \E k \in next[r] .. m - 1 : route[r].edges[k] = e
      BY <2>2, <2>3, <2>5, <3>1 DEF Held
    <3>3. UnderWay(r)'
      BY <2>2, <2>3, <2>5 DEF UnderWay
    <3>4. QED BY <1>1, <2>1, <2>2, <2>3, <2>5, <3>2, <3>3
  <2>6. CASE r # q
    <3>1. Held(r)' = Held(r) /\ (UnderWay(r)' <=> UnderWay(r))
      BY <2>2, <2>6 DEF Held, UnderWay
    <3>2. edgeHolder'[e] = r <=> edgeHolder[e] = r
      BY <2>1, <2>4, <2>6, NullAssumption
    <3>3. QED BY <1>1, <2>2, <3>1, <3>2
  <2>7. QED BY <2>5, <2>6
<1>7. CASE Tick
  BY <1>2, <1>5, <1>6, <1>7 DEF Tick, TickBegin, PoseStale, PoseFresh, TickPaused,
       NothingToAcquire, TickEnd, tableVars
<1>8. ASSUME NEW q \in Robots, Handler(q) \/ Clearance(q) \/ Move(q)
      PROVE  edgeHolder'[e] = r
               <=> (UnderWay(r) /\ \E k \in Held(r) : route[r].edges[k] = e)'
  BY <1>2, <1>3, <1>4, <1>8 DEF Handler, StatusDriving, StatusJunctionStop, StatusArrived,
       Clearance, Move, tableVars
<1>9. CASE UNCHANGED vars
  BY <1>2, <1>9 DEF vars, tableVars
<1>10. QED BY <1>7, <1>8, <1>9 DEF Next

----------------------------------------------------------------------------
(* Permitted. *)

LEMMA SlotNumbers ==
  ASSUME Typed, NEW r \in Registered
  PROVE  /\ r \in Robots /\ route[r] \in Routes
         /\ first[r] \in Nat /\ next[r] \in Nat /\ route[r].n \in Nat /\ route[r].n > 0
         /\ first[r] <= next[r] /\ next[r] <= route[r].n
         /\ at[r] \in Nat /\ at[r] <= Length(route[r]) /\ Length(route[r]) \in Nat
         /\ progress[r] \in Nat /\ progress[r] <= Length(route[r])
         /\ route[r].goalIdx \in Nat
         /\ clear[r] \in 0 .. route[r].goalIdx /\ granted[r] \in 0 .. route[r].goalIdx
<1>1. r \in Robots /\ route[r] \in Routes
  BY RegisteredRoute DEF Typed
<1>2. route[r].n \in Nat /\ route[r].n > 0 /\ Length(route[r]) \in Nat /\ route[r].goalIdx \in Nat
  BY <1>1, RouteNumbers
<1>3. QED BY <1>1, <1>2 DEF Typed, TypeOK, SlotOK

(* A permission of g is covered by the edges up to the n-th. *)
Covered(rt, n, g) ==
  n = rt.n \/ rt.cum[g] + Overshoot <= EdgeEnd(rt, n - 1)

LEMMA CoveredFurther ==
  ASSUME NEW rt \in Routes, NEW n \in 1 .. rt.n, NEW m \in 1 .. rt.n, n <= m,
         NEW g \in 0 .. rt.goalIdx, Covered(rt, n, g)
  PROVE  Covered(rt, m, g)
<1>1. rt.n \in Nat /\ rt.cum[g] \in Nat /\ Overshoot \in Nat
  BY RouteNumbers, ParameterAssumption
<1>2. n - 1 \in 0 .. rt.n - 1 /\ m - 1 \in 0 .. rt.n - 1
  BY <1>1
<1>3. EdgeEnd(rt, n - 1) \in Nat /\ EdgeEnd(rt, m - 1) \in Nat
      /\ EdgeEnd(rt, n - 1) <= EdgeEnd(rt, m - 1)
  <2>1. n = m \/ n - 1 < m - 1
    BY <1>1
  <2>2. QED BY <1>2, <2>1, RouteEdges
<1>4. CASE n = rt.n
  BY <1>1, <1>4 DEF Covered
<1>5. CASE rt.cum[g] + Overshoot <= EdgeEnd(rt, n - 1)
  BY <1>1, <1>3, <1>5 DEF Covered
<1>6. QED BY <1>4, <1>5 DEF Covered

LEMMA PermittedTickEnd ==
  ASSUME Typed, Permitted, TickEnd
  PROVE  Permitted'
<1>1. /\ UNCHANGED <<route, first, next, finished, granted>> /\ Registered' = Registered
      /\ \A r \in Registered : UnderWay(r)' <=> UnderWay(r)
  BY DEF TickEnd, slotVars, robotVars, Registered, UnderWay
<1>2. ASSUME NEW r \in Registered, UnderWay(r), clear'[r] > 0
      PROVE  first[r] < next[r] /\ Covered(route[r], next[r], clear'[r])
  <2>1. CASE r \in live
    <3>1. clear'[r] = ClearUntil(r)
      BY <2>1, SlotNumbers DEF TickEnd
    <3>2. /\ Held(r) # {} /\ next[r] - 1 \in 0 .. route[r].n - 1
          /\ clear'[r] = ClearAt(route[r], next[r] - 1)
      BY <1>2, <3>1, ClearUntilFacts
    <3>3. next[r] - 1 # route[r].n - 1 =>
            route[r].cum[clear'[r]] + Overshoot <= EdgeEnd(route[r], next[r] - 1)
      BY <3>2, SlotNumbers, ClearAtFacts
    <3>4. QED BY <3>2, <3>3, SlotNumbers DEF Covered, Held
  <2>2. CASE r \notin live
    <3> DEFINE i == route[r].idxAt[progress[r]]
    <3>1. clear'[r] = MinOf(clear[r], i)
      BY <2>2, SlotNumbers DEF TickEnd
    <3>2. i \in 0 .. route[r].goalIdx /\ clear[r] \in 0 .. route[r].goalIdx /\ route[r].goalIdx \in Nat
      BY SlotNumbers, RouteNumbers
    <3> HIDE DEF i
    <3>3. clear[r] > 0 /\ clear'[r] \in 0 .. route[r].goalIdx /\ clear'[r] <= clear[r]
      BY <1>2, <3>1, <3>2
    <3>4. first[r] < next[r] /\ Covered(route[r], next[r], clear[r])
      BY <1>2, <3>3 DEF Permitted, Covered
    <3>5. /\ route[r].cum[clear'[r]] \in Nat /\ route[r].cum[clear[r]] \in Nat
          /\ route[r].cum[clear'[r]] <= route[r].cum[clear[r]]
      BY <3>2, <3>3, SlotNumbers, RouteNumbers
    <3>6. next[r] - 1 \in 0 .. route[r].n - 1
      BY <3>4, SlotNumbers
    <3>7. EdgeEnd(route[r], next[r] - 1) \in Nat
      BY <3>6, SlotNumbers, RouteEdges
    <3>8. QED BY <3>4, <3>5, <3>7, ParameterAssumption DEF Covered
  <2>3. QED BY <2>1, <2>2
<1>3. QED BY <1>1, <1>2 DEF Permitted, Covered

LEMMA PermittedTryAcquire ==
  ASSUME Typed, Permitted, NEW q \in Robots, NEW m \in 0 .. MaxEdges, TryAcquire(q, m)
  PROVE  Permitted'
<1>1. /\ UNCHANGED <<route, first, finished, granted, clear>> /\ Registered' = Registered
      /\ next' = [next EXCEPT ![q] = m] /\ next \in [Robots -> Nat]
      /\ \A r \in Registered : UnderWay(r)' <=> UnderWay(r)
  BY DEF TryAcquire, robotVars, Registered, UnderWay, Typed, TypeOK
<1>2. q \in Registered /\ next[q] <= m /\ m <= route[q].n /\ m \in Nat
  BY ParameterAssumption DEF TryAcquire, Acquires, Typed, SlotOK
<1>3. ASSUME NEW r \in Registered, UnderWay(r), NEW g \in {clear[r], granted[r]}, g > 0
      PROVE  first[r] < next'[r] /\ Covered(route[r], next'[r], g)
  <2>1. first[r] < next[r] /\ Covered(route[r], next[r], g)
    BY <1>3 DEF Permitted, Covered
  <2>2. CASE r = q
    <3>1. next'[r] = m /\ next[r] \in 1 .. route[r].n /\ m \in 1 .. route[r].n /\ next[r] <= m
      BY <1>1, <1>2, <2>1, <2>2, SlotNumbers
    <3>2. g \in 0 .. route[r].goalIdx
      BY SlotNumbers
    <3>3. Covered(route[r], m, g)
      BY <2>1, <3>1, <3>2, SlotNumbers, CoveredFurther
    <3>4. QED BY <2>1, <3>1, <3>3, SlotNumbers
  <2>3. CASE r # q
    BY <1>1, <2>1, <2>3, SlotNumbers
  <2>4. QED BY <2>2, <2>3
<1>4. QED BY <1>1, <1>3 DEF Permitted, Covered

LEMMA PermittedStep == Typed /\ Permitted /\ [Next]_vars => Permitted'
<1> SUFFICES ASSUME Typed, Permitted, [Next]_vars PROVE Permitted'
  OBVIOUS
<1>1. CASE UNCHANGED <<slotVars, clear, granted>>
  BY <1>1 DEF Permitted, Registered, UnderWay, slotVars
<1>2. ASSUME NEW q \in Robots, NEW rt \in RoutesOf[q], Assign(q, rt)
      PROVE  Permitted'
  <2>1. clear'[q] = 0 /\ granted'[q] = 0
    BY <1>2 DEF Assign, Typed, TypeOK
  <2>2. ASSUME NEW r \in Registered', r # q
        PROVE  /\ r \in Registered /\ (UnderWay(r)' <=> UnderWay(r))
               /\ route'[r] = route[r] /\ first'[r] = first[r] /\ next'[r] = next[r]
               /\ clear'[r] = clear[r] /\ granted'[r] = granted[r]
    BY <1>2, <2>2 DEF Assign, Register, Registered, UnderWay, Typed, TypeOK
  <2>3. QED BY <2>1, <2>2 DEF Permitted
<1>3. ASSUME NEW q \in Robots, StatusArrivedAccepted(q)
      PROVE  Permitted'
  <2>1. ~ UnderWay(q)' /\ Registered' = Registered
    BY <1>3 DEF StatusArrivedAccepted, UnderWay, Registered, Typed, TypeOK
  <2>2. ASSUME NEW r \in Registered, r # q
        PROVE  /\ UnderWay(r)' <=> UnderWay(r)
               /\ route'[r] = route[r] /\ first'[r] = first[r] /\ next'[r] = next[r]
               /\ clear'[r] = clear[r] /\ granted'[r] = granted[r]
    BY <1>3, <2>2 DEF StatusArrivedAccepted, robotVars, Registered, UnderWay, Typed, TypeOK
  <2>3. QED BY <2>1, <2>2 DEF Permitted
<1>4. CASE TickPaused
  <2>1. /\ UNCHANGED <<slotVars, granted>> /\ Registered' = Registered
        /\ \A r \in Registered : UnderWay(r)' <=> UnderWay(r)
    BY <1>4 DEF TickPaused, robotVars, slotVars, Registered, UnderWay
  <2>2. \A r \in Registered : clear'[r] = clear[r] \/ clear'[r] = 0
    BY <1>4, SlotNumbers DEF TickPaused
  <2>3. QED BY <2>1, <2>2 DEF Permitted, slotVars
<1>5. ASSUME NEW f \in [Robots -> 0 .. MaxEdges], StepBegin(f)
      PROVE  Permitted'
  <2>1. /\ UNCHANGED <<route, next, finished, clear, granted>> /\ first' = f
        /\ Registered' = Registered /\ \A r \in Registered : UnderWay(r)' <=> UnderWay(r)
    BY <1>5 DEF StepBegin, robotVars, Registered, UnderWay
  <2>2. ASSUME NEW r \in Registered, first[r] < next[r]
        PROVE  f[r] < next[r]
    <3>1. first[r] <= f[r] /\ f[r] <= MaxOf(first[r], next[r] - 1)
      BY <1>5, SlotNumbers DEF StepBegin, ReleasesTo
    <3>2. f[r] \in Nat
      BY SlotNumbers, ParameterAssumption
    <3>3. QED BY <2>2, <3>1, <3>2, SlotNumbers
  <2>3. QED BY <2>1, <2>2 DEF Permitted
<1>6. ASSUME NEW q \in Robots, Clearance(q)
      PROVE  Permitted'
  <2>1. /\ UNCHANGED <<slotVars, clear>> /\ granted' = [granted EXCEPT ![q] = clear[q]]
        /\ Registered' = Registered /\ granted \in [Robots -> Nat]
        /\ \A r \in Registered : UnderWay(r)' <=> UnderWay(r)
    BY <1>6 DEF Clearance, slotVars, Registered, UnderWay, Typed, TypeOK
  <2>2. \A r \in Registered : granted'[r] \in {clear[r], granted[r]}
    BY <2>1, SlotNumbers
  <2>3. QED BY <2>1, <2>2 DEF Permitted, slotVars
<1>7. CASE Tick
  BY <1>1, <1>4, <1>5, <1>7, PermittedTryAcquire, PermittedTickEnd
  DEF Tick, TickBegin, PoseStale, PoseFresh, NothingToAcquire, robotVars
<1>8. ASSUME NEW q \in Robots, Handler(q) \/ Move(q)
      PROVE  Permitted'
  BY <1>1, <1>2, <1>3, <1>8 DEF Handler, StatusDriving, StatusJunctionStop, StatusArrived,
       Move, robotVars
<1>9. CASE UNCHANGED vars
  BY <1>1, <1>9 DEF vars, robotVars
<1>10. QED BY <1>6, <1>7, <1>8, <1>9 DEF Next

----------------------------------------------------------------------------
(* OnHeldEdges. *)

LEMMA OnHeldMove ==
  ASSUME Typed, Permitted, OnHeldEdges, NEW q \in Robots, Move(q)
  PROVE  OnHeldEdges'
<1>1. /\ UNCHANGED slotVars /\ at' = [at EXCEPT ![q] = at[q] + 1] /\ at \in [Robots -> Nat]
      /\ q \in Registered /\ UnderWay(q)
  BY DEF Move, UnderWay, Registered, Typed, TypeOK
<1>2. Registered' = Registered /\ \A r \in Registered : UnderWay(r)' <=> UnderWay(r)
  BY <1>1 DEF Registered, UnderWay, slotVars
<1>3. /\ belief[q] \in Nat /\ belief[q] < route[q].cum[granted[q]]
      /\ at[q] < MinOf(Length(route[q]), route[q].cum[granted[q]] + Overshoot)
  BY DEF Move, Typed, TypeOK
<1>4. /\ granted[q] > 0 /\ granted[q] \in 0 .. route[q].goalIdx
      /\ route[q].cum[granted[q]] \in Nat
  BY <1>1, <1>3, SlotNumbers, RouteNumbers
<1>5. first[q] < next[q] /\ Covered(route[q], next[q], granted[q])
  BY <1>1, <1>4 DEF Permitted, Covered
<1>6. next[q] - 1 \in 0 .. route[q].n - 1
  BY <1>1, <1>5, SlotNumbers
<1>7. EdgeEnd(route[q], next[q] - 1) \in Nat
  BY <1>1, <1>6, SlotNumbers, RouteEdges
<1>8. at[q] + 1 <= EdgeEnd(route[q], next[q] - 1)
  <2>1. CASE next[q] = route[q].n
    <3>1. EdgeEnd(route[q], next[q] - 1) = Length(route[q])
      BY <1>1, <2>1, SlotNumbers, RouteEdges
    <3>2. QED BY <1>1, <1>3, <1>4, <3>1, SlotNumbers, ParameterAssumption
  <2>2. CASE route[q].cum[granted[q]] + Overshoot <= EdgeEnd(route[q], next[q] - 1)
    BY <1>1, <1>3, <1>4, <1>7, <2>2, SlotNumbers, ParameterAssumption
  <2>3. QED BY <1>5, <2>1, <2>2 DEF Covered
<1>9. first[q] > 0 => EdgeEnd(route[q], first[q] - 1) + ReleaseBehind - PoseError <= at[q] + 1
  <2>1. SUFFICES ASSUME first[q] > 0
                 PROVE  EdgeEnd(route[q], first[q] - 1) + ReleaseBehind - PoseError <= at[q] + 1
    OBVIOUS
  <2>2. first[q] - 1 \in 0 .. route[q].n - 1
    BY <1>1, <2>1, SlotNumbers
  <2>3. EdgeEnd(route[q], first[q] - 1) \in Nat
    BY <1>1, <2>2, SlotNumbers, RouteEdges
  <2>4. EdgeEnd(route[q], first[q] - 1) + ReleaseBehind - PoseError <= at[q]
    BY <1>1, <2>1 DEF OnHeldEdges
  <2>5. QED BY <1>1, <2>3, <2>4, SlotNumbers, ParameterAssumption
<1>10. ASSUME NEW r \in Registered, UnderWay(r)
       PROVE  /\ at'[r] > 0 => first[r] < next[r] /\ at'[r] <= EdgeEnd(route[r], next[r] - 1)
              /\ first[r] > 0 => EdgeEnd(route[r], first[r] - 1) + ReleaseBehind - PoseError <= at'[r]
  <2>1. CASE r = q
    <3>1. at'[r] = at[q] + 1
      BY <1>1, <2>1
    <3>2. QED BY <1>5, <1>8, <1>9, <2>1, <3>1
  <2>2. CASE r # q
    <3>1. at'[r] = at[r]
      BY <1>1, <2>2, SlotNumbers
    <3>2. QED BY <1>10, <3>1 DEF OnHeldEdges
  <2>3. QED BY <2>1, <2>2
<1>11. QED BY <1>1, <1>2, <1>10 DEF OnHeldEdges, slotVars

LEMMA OnHeldStepBegin ==
  ASSUME Typed, Confirmed, OnHeldEdges, NEW f \in [Robots -> 0 .. MaxEdges], StepBegin(f)
  PROVE  OnHeldEdges'
<1>1. /\ UNCHANGED <<route, next, finished, at>> /\ first' = f
      /\ Registered' = Registered /\ \A r \in Registered : UnderWay(r)' <=> UnderWay(r)
  BY DEF StepBegin, robotVars, Registered, UnderWay
<1>2. ASSUME NEW r \in Registered, UnderWay(r)
      PROVE  /\ at[r] > 0 => f[r] < next[r] /\ at[r] <= EdgeEnd(route[r], next[r] - 1)
             /\ f[r] > 0 => EdgeEnd(route[r], f[r] - 1) + ReleaseBehind - PoseError <= at[r]
  <2>1. f[r] \in Nat
    BY SlotNumbers, ParameterAssumption
  <2>2. /\ first[r] <= f[r] /\ f[r] <= MaxOf(first[r], next[r] - 1)
        /\ \A k \in first[r] .. f[r] - 1 : PassedEdge(r, k)
    BY SlotNumbers DEF StepBegin, ReleasesTo
  <2>3. at[r] > 0 => f[r] < next[r] /\ at[r] <= EdgeEnd(route[r], next[r] - 1)
    BY <1>2, <2>1, <2>2, SlotNumbers DEF OnHeldEdges
  <2>4. CASE f[r] = first[r]
    BY <1>2, <2>3, <2>4 DEF OnHeldEdges
  <2>5. CASE f[r] # first[r]
    <3>1. PassedEdge(r, f[r] - 1) /\ f[r] - 1 \in 0 .. route[r].n - 1
      BY <2>1, <2>2, <2>5, SlotNumbers
    <3>2. EdgeEnd(route[r], f[r] - 1) \in Nat
      BY <3>1, SlotNumbers, RouteEdges
    <3>3. progress[r] <= at[r] + PoseError
      BY DEF Confirmed
    <3>4. progress[r] - EdgeEnd(route[r], f[r] - 1) >= ReleaseBehind
      BY <3>1 DEF PassedEdge
    <3>5. EdgeEnd(route[r], f[r] - 1) + ReleaseBehind - PoseError <= at[r]
      BY <3>2, <3>3, <3>4, SlotNumbers, ParameterAssumption
    <3>6. QED BY <2>3, <3>5
  <2>6. QED BY <2>4, <2>5
<1>3. QED BY <1>1, <1>2 DEF OnHeldEdges

LEMMA OnHeldTryAcquire ==
  ASSUME Typed, OnHeldEdges, NEW q \in Robots, NEW m \in 0 .. MaxEdges, TryAcquire(q, m)
  PROVE  OnHeldEdges'
<1>1. /\ UNCHANGED <<route, first, finished, at>> /\ Registered' = Registered
      /\ next' = [next EXCEPT ![q] = m] /\ next \in [Robots -> Nat]
      /\ \A r \in Registered : UnderWay(r)' <=> UnderWay(r)
  BY DEF TryAcquire, robotVars, Registered, UnderWay, Typed, TypeOK
<1>2. q \in Registered /\ next[q] <= m /\ m <= route[q].n /\ m \in Nat
  BY ParameterAssumption DEF TryAcquire, Acquires, Typed, SlotOK
<1>3. ASSUME NEW r \in Registered, UnderWay(r), at[r] > 0
      PROVE  first[r] < next'[r] /\ at[r] <= EdgeEnd(route[r], next'[r] - 1)
  <2>1. first[r] < next[r] /\ at[r] <= EdgeEnd(route[r], next[r] - 1)
    BY <1>3 DEF OnHeldEdges
  <2>2. next'[r] = next[r] \/ (r = q /\ next'[r] = m)
    BY <1>1, SlotNumbers
  <2>3. next'[r] \in Nat /\ next[r] <= next'[r] /\ next'[r] <= route[r].n
    BY <1>2, <2>2, SlotNumbers
  <2>4. next[r] - 1 \in 0 .. route[r].n - 1 /\ next'[r] - 1 \in 0 .. route[r].n - 1
    BY <2>1, <2>3, SlotNumbers
  <2>5. next'[r] = next[r] \/ next[r] - 1 < next'[r] - 1
    BY <2>3, SlotNumbers
  <2>6. /\ EdgeEnd(route[r], next[r] - 1) \in Nat /\ EdgeEnd(route[r], next'[r] - 1) \in Nat
        /\ EdgeEnd(route[r], next[r] - 1) <= EdgeEnd(route[r], next'[r] - 1)
    BY <2>4, <2>5, SlotNumbers, RouteEdges
  <2>7. QED BY <2>1, <2>3, <2>6, SlotNumbers
<1>4. QED BY <1>1, <1>3 DEF OnHeldEdges

LEMMA OnHeldStep ==
  ASSUME "reassign" \notin Allowed
  PROVE  Typed /\ Permitted /\ Confirmed /\ OnHeldEdges /\ [Next]_vars => OnHeldEdges'
<1> SUFFICES ASSUME Typed, Permitted, Confirmed, OnHeldEdges, [Next]_vars PROVE OnHeldEdges'
  OBVIOUS
<1>1. CASE UNCHANGED <<slotVars, at>>
  BY <1>1 DEF OnHeldEdges, Registered, UnderWay, slotVars
<1>2. ASSUME NEW q \in Robots, NEW rt \in RoutesOf[q], Assign(q, rt)
      PROVE  OnHeldEdges'
  <2>1. at'[q] = 0 /\ first'[q] = 0
    BY <1>2 DEF Assign, Register, StandsAtStart, Typed, TypeOK
  <2>2. ASSUME NEW r \in Registered', r # q
        PROVE  /\ r \in Registered /\ (UnderWay(r)' <=> UnderWay(r))
               /\ route'[r] = route[r] /\ first'[r] = first[r] /\ next'[r] = next[r]
               /\ at'[r] = at[r]
    BY <1>2, <2>2 DEF Assign, Register, StandsAtStart, Registered, UnderWay, Typed, TypeOK
  <2>3. QED BY <2>1, <2>2 DEF OnHeldEdges
<1>3. ASSUME NEW q \in Robots, StatusArrivedAccepted(q)
      PROVE  OnHeldEdges'
  <2>1. ~ UnderWay(q)' /\ Registered' = Registered
    BY <1>3 DEF StatusArrivedAccepted, UnderWay, Registered, Typed, TypeOK
  <2>2. ASSUME NEW r \in Registered, r # q
        PROVE  /\ UnderWay(r)' <=> UnderWay(r)
               /\ route'[r] = route[r] /\ first'[r] = first[r] /\ next'[r] = next[r]
               /\ at'[r] = at[r]
    BY <1>3, <2>2 DEF StatusArrivedAccepted, robotVars, Registered, UnderWay, Typed, TypeOK
  <2>3. QED BY <2>1, <2>2 DEF OnHeldEdges
<1>4. CASE Tick
  BY <1>1, <1>4, OnHeldStepBegin, OnHeldTryAcquire
  DEF Tick, TickBegin, PoseStale, PoseFresh, TickPaused, NothingToAcquire, TickEnd, robotVars
<1>5. ASSUME NEW q \in Robots, Handler(q) \/ Clearance(q)
      PROVE  OnHeldEdges'
  BY <1>1, <1>2, <1>3, <1>5 DEF Handler, StatusDriving, StatusJunctionStop, StatusArrived,
       Clearance, robotVars
<1>6. CASE UNCHANGED vars
  BY <1>1, <1>6 DEF vars, robotVars
<1>7. QED BY <1>4, <1>5, <1>6, OnHeldMove DEF Next

----------------------------------------------------------------------------
(* NodesKept. *)

KeepsNodes(r) ==
  /\ \A k \in Held(r) :
       \/ nodeHolder[route[r].nodes[k]] = r
       \/ EdgeStart(route[r], k) + ReleaseBehind - PoseError <= at[r]
  /\ first[r] < next[r] /\ next[r] = route[r].n => nodeHolder[Goal(route[r])] = r

LEMMA RouteNodes ==
  ASSUME NEW rt \in Routes
  PROVE  /\ \A k \in 0 .. rt.n : rt.nodes[k] \in Nodes
         /\ \A j, k \in 0 .. rt.n : j # k => rt.nodes[j] # rt.nodes[k]
         /\ Goal(rt) = rt.nodes[rt.n] /\ Goal(rt) \in Nodes
<1>1. IsRoute(rt)
  BY RouteAssumption
<1>2. /\ rt.nodes \in [0 .. rt.n -> Nodes]
      /\ \A j, k \in 0 .. rt.n : j # k => rt.nodes[j] # rt.nodes[k]
  BY <1>1 DEF IsRoute
<1>3. rt.n \in Nat
  BY RouteNumbers
<1>4. QED BY <1>2, <1>3 DEF Goal

(* Who believes to have arrived holds its last edge, and so its goal.      *)
LEMMA ArrivedHoldsGoal ==
  ASSUME Typed, Permitted, NodesKept, NEW r \in Registered, UnderWay(r), BelievesArrived(r)
  PROVE  nodeHolder[Goal(route[r])] = r
<1>1. granted[r] = route[r].goalIdx /\ route[r].goalIdx > 0
  BY SlotNumbers, RouteAssumption DEF BelievesArrived, IsRoute
<1>2. first[r] < next[r] /\ Covered(route[r], next[r], granted[r])
  BY <1>1 DEF Permitted, Covered
<1>3. next[r] = route[r].n
  <2>1. SUFFICES ASSUME next[r] # route[r].n, Length(route[r]) + Overshoot <= EdgeEnd(route[r], next[r] - 1)
                 PROVE  FALSE
    BY <1>1, <1>2 DEF Covered, Length
  <2>2. /\ next[r] - 1 \in 0 .. route[r].n - 1 /\ route[r].n - 1 \in 0 .. route[r].n - 1
        /\ next[r] - 1 < route[r].n - 1
    BY <1>2, <2>1, SlotNumbers
  <2>3. EdgeEnd(route[r], next[r] - 1) < Length(route[r]) /\ EdgeEnd(route[r], next[r] - 1) \in Nat
    BY <2>2, SlotNumbers, RouteEdges
  <2>4. QED BY <2>1, <2>3, SlotNumbers, ParameterAssumption
<1>4. QED BY <1>2, <1>3 DEF NodesKept

LEMMA NodesKeptStepBegin ==
  ASSUME Typed, Confirmed, NodesKept, NEW f \in [Robots -> 0 .. MaxEdges], StepBegin(f)
  PROVE  NodesKept'
<1>1. /\ UNCHANGED <<route, next, finished, at>> /\ first' = f
      /\ Registered' = Registered /\ \A r \in Registered : UnderWay(r)' <=> UnderWay(r)
  BY DEF StepBegin, robotVars, Registered, UnderWay
<1>2. ASSUME NEW r \in Registered, UnderWay(r)
      PROVE  KeepsNodes(r)'
  <2>1. /\ f[r] \in Nat /\ first[r] <= f[r] /\ Held(r)' = f[r] .. next[r] - 1
        /\ Held(r)' \subseteq Held(r) /\ Held(r) \subseteq 0 .. route[r].n - 1
        /\ f[r] < next[r] => first[r] < next[r]
    <3>1. f[r] \in Nat
      BY SlotNumbers, ParameterAssumption
    <3>2. first[r] <= f[r]
      BY SlotNumbers DEF StepBegin, ReleasesTo
    <3>3. QED BY <1>1, <3>1, <3>2, SlotNumbers DEF Held
  <2>2. KeepsNodes(r)
    BY <1>2 DEF NodesKept, KeepsNodes
  <2>3. ASSUME NEW v \in Nodes, nodeHolder[v] = r,
               ~ \E k \in Held(r) : route[r].nodes[k] = v /\ PassedNode(r, k)
        PROVE  nodeHolder'[v] = r
    BY <2>3 DEF StepBegin
  <2>4. ASSUME NEW k \in Held(r)', nodeHolder[route[r].nodes[k]] = r, ~ PassedNode(r, k)
        PROVE  nodeHolder'[route[r].nodes[k]] = r
    <3>1. k \in 0 .. route[r].n - 1
      BY <2>1
    <3>2. route[r].nodes[k] \in Nodes /\ \A j \in Held(r) : j # k => route[r].nodes[j] # route[r].nodes[k]
      BY <2>1, <3>1, SlotNumbers, RouteNodes
    <3>3. QED BY <2>3, <2>4, <3>2
  <2>5. ASSUME NEW k \in Held(r)', PassedNode(r, k)
        PROVE  EdgeStart(route[r], k) + ReleaseBehind - PoseError <= at[r]
    <3>1. EdgeStart(route[r], k) \in Nat
      BY <2>1, SlotNumbers, RouteEdges
    <3>2. progress[r] <= at[r] + PoseError
      BY DEF Confirmed
    <3>3. progress[r] - EdgeStart(route[r], k) >= ReleaseBehind
      BY <2>5 DEF PassedNode
    <3>4. QED BY <3>1, <3>2, <3>3, SlotNumbers, ParameterAssumption
  <2>6. ASSUME NEW k \in Held(r)'
        PROVE  \/ nodeHolder'[route[r].nodes[k]] = r
               \/ EdgeStart(route[r], k) + ReleaseBehind - PoseError <= at[r]
    BY <2>1, <2>2, <2>4, <2>5 DEF KeepsNodes
  <2>7. ASSUME f[r] < next[r], next[r] = route[r].n
        PROVE  nodeHolder'[Goal(route[r])] = r
    <3>1. nodeHolder[Goal(route[r])] = r
      BY <2>1, <2>2, <2>7 DEF KeepsNodes
    <3>2. ASSUME NEW j \in Held(r)
          PROVE  route[r].nodes[j] # Goal(route[r])
      <4>1. j \in 0 .. route[r].n /\ route[r].n \in 0 .. route[r].n /\ j # route[r].n
        BY <2>1, SlotNumbers
      <4>2. QED BY <4>1, SlotNumbers, RouteNodes
    <3>3. QED BY <2>3, <3>1, <3>2, SlotNumbers, RouteNodes
  <2>8. QED BY <1>1, <2>6, <2>7 DEF KeepsNodes
<1>3. QED BY <1>1, <1>2 DEF NodesKept, KeepsNodes

LEMMA NodesKeptTryAcquire ==
  ASSUME Typed, NodesKept, NEW q \in Robots, NEW m \in 0 .. MaxEdges, TryAcquire(q, m)
  PROVE  NodesKept'
<1>1. /\ UNCHANGED <<route, first, finished, at>> /\ Registered' = Registered
      /\ next' = [next EXCEPT ![q] = m] /\ next \in [Robots -> Nat]
      /\ \A r \in Registered : UnderWay(r)' <=> UnderWay(r)
  BY DEF TryAcquire, robotVars, Registered, UnderWay, Typed, TypeOK
<1>2. q \in Registered /\ next[q] <= m /\ m <= route[q].n /\ m \in Nat
  BY ParameterAssumption DEF TryAcquire, Acquires, Typed, SlotOK
<1> DEFINE Taken(v) == \E k \in next[q] .. m - 1 :
                         \/ route[q].nodes[k] = v
                         \/ k = route[q].n - 1 /\ Goal(route[q]) = v
<1>3. ASSUME NEW v \in Nodes
      PROVE  nodeHolder'[v] = IF Taken(v) THEN q ELSE nodeHolder[v]
  BY DEF TryAcquire
<1>4. ASSUME NEW v \in Nodes, Taken(v)
      PROVE  nodeHolder[v] \in {NoRobot, q}
  BY <1>4 DEF TryAcquire, Acquires, Takeable, FreeFor
<1>5. ASSUME NEW r \in Robots, NEW v \in Nodes, nodeHolder[v] = r
      PROVE  nodeHolder'[v] = r
  <2> HIDE DEF Taken
  <2>1. QED BY <1>3, <1>4, <1>5, NullAssumption
<1>6. ASSUME NEW r \in Registered, UnderWay(r)
      PROVE  KeepsNodes(r)'
  <2>1. KeepsNodes(r)
    BY <1>6 DEF NodesKept, KeepsNodes
  <2>2. CASE r # q
    <3>1. Held(r)' = Held(r) /\ next'[r] = next[r] /\ Held(r) \subseteq 0 .. route[r].n - 1
      BY <1>1, <2>2, SlotNumbers DEF Held
    <3>2. \A k \in Held(r) : route[r].nodes[k] \in Nodes
      BY <3>1, SlotNumbers, RouteNodes
    <3>3. QED BY <1>1, <1>5, <2>1, <3>1, <3>2, SlotNumbers, RouteNodes DEF KeepsNodes
  <2>3. CASE r = q
    <3>1. next'[r] = m /\ Held(r)' = Held(r) \cup (next[r] .. m - 1) /\ Held(r)' \subseteq 0 .. route[r].n - 1
      BY <1>1, <1>2, <2>3, SlotNumbers DEF Held
    <3>2. \A k \in Held(r)' : route[r].nodes[k] \in Nodes
      BY <3>1, SlotNumbers, RouteNodes
    <3>3. \A k \in next[r] .. m - 1 : nodeHolder'[route[r].nodes[k]] = r
      BY <1>3, <2>3, <3>1, <3>2
    <3>4. \A k \in Held(r)' : \/ nodeHolder'[route[r].nodes[k]] = r
                              \/ EdgeStart(route[r], k) + ReleaseBehind - PoseError <= at[r]
      BY <1>5, <2>1, <3>1, <3>2, <3>3, SlotNumbers DEF KeepsNodes
    <3>5. ASSUME first[r] < m, m = route[r].n
          PROVE  nodeHolder'[Goal(route[r])] = r
      <4>1. CASE next[r] = m
        BY <1>5, <2>1, <3>5, <4>1, SlotNumbers, RouteNodes DEF KeepsNodes
      <4>2. CASE next[r] # m
        <5>1. m - 1 \in next[r] .. m - 1 /\ m - 1 = route[r].n - 1
          BY <1>2, <2>3, <3>5, <4>2, SlotNumbers
        <5>2. Taken(Goal(route[r])) /\ Goal(route[r]) \in Nodes
          BY <2>3, <5>1, SlotNumbers, RouteNodes
        <5>3. QED BY <1>3, <2>3, <5>2
      <4>3. QED BY <4>1, <4>2
    <3>6. QED BY <1>1, <3>1, <3>4, <3>5 DEF KeepsNodes
  <2>4. QED BY <2>2, <2>3
<1>7. QED BY <1>1, <1>6 DEF NodesKept, KeepsNodes

LEMMA NodesKeptStep ==
  Typed /\ Permitted /\ Confirmed /\ NodesKept /\ [Next]_vars => NodesKept'
<1> SUFFICES ASSUME Typed, Permitted, Confirmed, NodesKept, [Next]_vars PROVE NodesKept'
  OBVIOUS
<1>1. CASE UNCHANGED <<slotVars, nodeHolder, at>>
  BY <1>1 DEF NodesKept, Registered, UnderWay, Held, slotVars
<1>2. ASSUME NEW r \in Registered, Held(r)' = Held(r), UnderWay(r),
             route'[r] = route[r], first'[r] = first[r], next'[r] = next[r], at'[r] = at[r],
             \A v \in Nodes : nodeHolder[v] = r => nodeHolder'[v] = r
      PROVE  KeepsNodes(r)'
  <2>1. KeepsNodes(r)
    BY <1>2 DEF NodesKept, KeepsNodes
  <2>2. \A k \in Held(r) : route[r].nodes[k] \in Nodes
    BY SlotNumbers, RouteNodes DEF Held
  <2>3. QED BY <1>2, <2>1, <2>2, SlotNumbers, RouteNodes DEF KeepsNodes
<1>3. ASSUME NEW q \in Robots, NEW rt \in RoutesOf[q], Assign(q, rt)
      PROVE  NodesKept'
  <2>1. first'[q] = 0 /\ next'[q] = 0
    BY <1>3 DEF Assign, Register, Typed, TypeOK
  <2>2. KeepsNodes(q)'
    BY <2>1 DEF KeepsNodes, Held
  <2>3. ASSUME NEW r \in Registered', r # q
        PROVE  /\ r \in Registered /\ (UnderWay(r)' <=> UnderWay(r)) /\ Held(r)' = Held(r)
               /\ route'[r] = route[r] /\ first'[r] = first[r] /\ next'[r] = next[r]
               /\ at'[r] = at[r]
    <3>1. /\ route'[r] = route[r] /\ first'[r] = first[r] /\ next'[r] = next[r]
          /\ finished'[r] = finished[r] /\ r \in Robots
      BY <1>3, <2>3 DEF Assign, Register, Registered, Typed, TypeOK
    <3>2. at'[r] = at[r]
      BY <1>3, <2>3, <3>1, AssignMoves DEF Typed, TypeOK
    <3>3. QED BY <2>3, <3>1, <3>2 DEF Registered, UnderWay, Held
  <2>4. ASSUME NEW r \in Robots, r # q, NEW v \in Nodes, nodeHolder[v] = r
        PROVE  nodeHolder'[v] = r
    <3> DEFINE free == Without(nodeHolder, q)
    <3>1. free[v] = r
      BY <2>4 DEF Without, Typed, TypeOK
    <3>2. nodeHolder' = IF free[rt.nodes[0]] = NoRobot THEN [free EXCEPT ![rt.nodes[0]] = q] ELSE free
      BY <1>3 DEF Assign, Register
    <3> HIDE DEF free
    <3>3. QED BY <3>1, <3>2, NullAssumption
  <2>5. ASSUME NEW r \in Registered', r # q, UnderWay(r)'
        PROVE  KeepsNodes(r)'
    BY <1>2, <2>3, <2>4, <2>5 DEF Registered
  <2>6. QED BY <2>2, <2>5 DEF NodesKept, KeepsNodes
<1>4. ASSUME NEW q \in Robots, StatusArrivedAccepted(q)
      PROVE  NodesKept'
  <2>1. ~ UnderWay(q)' /\ Registered' = Registered
    BY <1>4 DEF StatusArrivedAccepted, UnderWay, Registered, Typed, TypeOK
  <2>2. nodeHolder[Goal(route[q])] = q
    BY <1>4, ArrivedHoldsGoal DEF StatusArrivedAccepted, UnderWay, Registered
  <2>3. ASSUME NEW r \in Robots, r # q, NEW v \in Nodes, nodeHolder[v] = r
        PROVE  nodeHolder'[v] = r
    <3> DEFINE free == Without(nodeHolder, q)
    <3>1. free[v] = r /\ v # Goal(route[q])
      BY <2>2, <2>3 DEF Without, Typed, TypeOK
    <3>2. nodeHolder' = [free EXCEPT ![Goal(route[q])] = q]
      BY <1>4 DEF StatusArrivedAccepted
    <3> HIDE DEF free
    <3>3. QED BY <3>1, <3>2
  <2>4. ASSUME NEW r \in Registered, r # q
        PROVE  /\ UnderWay(r)' <=> UnderWay(r)
               /\ Held(r)' = Held(r)
               /\ route'[r] = route[r] /\ first'[r] = first[r] /\ next'[r] = next[r]
               /\ at'[r] = at[r]
    BY <1>4, <2>4 DEF StatusArrivedAccepted, robotVars, Registered, UnderWay, Held, Typed, TypeOK
  <2>5. ASSUME NEW r \in Registered, r # q, UnderWay(r)'
        PROVE  KeepsNodes(r)'
    BY <1>2, <2>3, <2>4, <2>5 DEF Registered
  <2>6. QED BY <2>1, <2>5 DEF NodesKept, KeepsNodes
<1>5. ASSUME NEW q \in Robots, Move(q)
      PROVE  NodesKept'
  <2>1. /\ UNCHANGED <<slotVars, nodeHolder>> /\ at' = [at EXCEPT ![q] = at[q] + 1]
        /\ at \in [Robots -> Nat] /\ Registered' = Registered
        /\ \A r \in Registered : (UnderWay(r)' <=> UnderWay(r)) /\ Held(r)' = Held(r)
    BY <1>5 DEF Move, tableVars, slotVars, Registered, UnderWay, Held, Typed, TypeOK
  <2>2. ASSUME NEW r \in Registered
        PROVE  at[r] \in Nat /\ at'[r] \in Nat /\ at[r] <= at'[r]
    BY <2>1, SlotNumbers
  <2>3. ASSUME NEW r \in Registered, NEW k \in Held(r)
        PROVE  EdgeStart(route[r], k) \in Nat
    BY SlotNumbers, RouteEdges DEF Held
  <2>4. ASSUME NEW r \in Registered, UnderWay(r), NEW k \in Held(r)
        PROVE  \/ nodeHolder[route[r].nodes[k]] = r
               \/ EdgeStart(route[r], k) + ReleaseBehind - PoseError <= at'[r]
    BY <2>2, <2>3, <2>4, ParameterAssumption DEF NodesKept
  <2>5. QED BY <2>1, <2>4 DEF NodesKept, slotVars
<1>6. CASE Tick
  BY <1>1, <1>6, NodesKeptStepBegin, NodesKeptTryAcquire
  DEF Tick, TickBegin, PoseStale, PoseFresh, TickPaused, NothingToAcquire, TickEnd, robotVars,
      tableVars
<1>7. ASSUME NEW q \in Robots, Handler(q) \/ Clearance(q)
      PROVE  NodesKept'
  BY <1>1, <1>3, <1>4, <1>7 DEF Handler, StatusDriving, StatusJunctionStop, StatusArrived,
       Clearance, robotVars, tableVars
<1>8. CASE UNCHANGED vars
  BY <1>1, <1>8 DEF vars, robotVars, tableVars
<1>9. QED BY <1>5, <1>6, <1>7, <1>8 DEF Next

----------------------------------------------------------------------------
(* The theorems. *)

LEMMA AlwaysConfirmed == Spec => [](Typed /\ Confirmed)
<1>1. Init => Confirmed
  BY DEF Init, Confirmed, Registered
<1>2. QED BY <1>1, InitTyped, NextTyped, ConfirmedStep, PTL DEF Spec

LEMMA AlwaysPermitted == Spec => [](Typed /\ Permitted)
<1>1. Init => Permitted
  BY DEF Init, Permitted, Registered
<1>2. QED BY <1>1, InitTyped, NextTyped, PermittedStep, PTL DEF Spec

(* Progress, by which edges are let go, is at most PoseError ahead of the  *)
(* robot, although some poses of every window are wrong (update_pose).     *)
THEOREM ProgressIsConfirmed == Spec => []ProgressConfirmed
<1>1. Confirmed => ProgressConfirmed
  BY DEF Confirmed, ProgressConfirmed
<1>2. QED BY <1>1, AlwaysConfirmed, PTL

(* No permission, issued or still in force at the agent, reaches beyond    *)
(* the edges its robot holds (clear_until).                                *)
THEOREM PermissionIsHeld == Spec => []PermissionHeld
<1>1. Typed /\ Permitted => PermissionHeld
  <2>1. SUFFICES ASSUME Typed, Permitted, NEW r \in Registered, UnderWay(r),
                        NEW g \in {clear[r], granted[r]}, g > 0
                 PROVE  Held(r) # {} /\ route[r].cum[g] <= EdgeEnd(route[r], next[r] - 1)
    BY DEF PermissionHeld
  <2>2. first[r] < next[r] /\ Covered(route[r], next[r], g)
    BY <2>1 DEF Permitted, Covered
  <2>3. /\ route[r] \in Routes /\ g \in 0 .. route[r].goalIdx
        /\ next[r] - 1 \in 0 .. route[r].n - 1 /\ first[r] \in Held(r)
    BY <2>1, <2>2, SlotNumbers DEF Held
  <2>4. /\ route[r].cum[g] \in Nat /\ route[r].cum[g] <= Length(route[r])
        /\ EdgeEnd(route[r], next[r] - 1) \in Nat
    BY <2>3, RouteNumbers, RouteEdges
  <2>5. CASE next[r] = route[r].n
    BY <2>3, <2>4, <2>5, RouteEdges
  <2>6. CASE route[r].cum[g] + Overshoot <= EdgeEnd(route[r], next[r] - 1)
    BY <2>3, <2>4, <2>6, ParameterAssumption
  <2>7. QED BY <2>2, <2>5, <2>6 DEF Covered
<1>2. QED BY <1>1, AlwaysPermitted, PTL

(* The edge table and the edges the slots list never disagree, whatever is *)
(* assigned, taken, let go and reassigned.                                 *)
THEOREM TablesAlwaysAgree == Spec => []TablesAgree
<1>1. Init => TablesAgree
  BY NullAssumption DEF Init, TablesAgree, UnderWay
<1>2. QED BY <1>1, InitTyped, NextTyped, TablesAgreeStep, PTL DEF Spec

LEMMA AlwaysOnHeldEdges ==
  ASSUME "reassign" \notin Allowed
  PROVE  Spec => [](Typed /\ Permitted /\ Confirmed /\ TablesAgree /\ NodesKept /\ OnHeldEdges)
<1>1. Init => OnHeldEdges /\ NodesKept
  <2>1. Init => \A r \in Robots : ~ UnderWay(r)
    BY DEF Init, UnderWay
  <2>2. QED BY <2>1 DEF OnHeldEdges, NodesKept, Registered
<1>2. Typed /\ Permitted /\ Confirmed /\ OnHeldEdges /\ [Next]_vars => OnHeldEdges'
  BY OnHeldStep
<1>3. QED BY <1>1, <1>2, AlwaysConfirmed, AlwaysPermitted, TablesAlwaysAgree, NodesKeptStep, PTL
          DEF Spec

(* A robot between the start of an edge of its route and the point where   *)
(* it may let go of it holds that edge.                                    *)
LEMMA OnEdgeIsHeld ==
  ASSUME Typed, OnHeldEdges, NEW r \in Registered, UnderWay(r),
         NEW k \in 0 .. route[r].n - 1,
         EdgeStart(route[r], k) < at[r],
         at[r] < EdgeEnd(route[r], k) + ReleaseBehind - PoseError
  PROVE  k \in Held(r)
<1>1. EdgeStart(route[r], k) \in Nat /\ EdgeEnd(route[r], k) \in Nat
  BY SlotNumbers, RouteEdges
<1>2. first[r] < next[r] /\ at[r] <= EdgeEnd(route[r], next[r] - 1)
  BY <1>1, SlotNumbers DEF OnHeldEdges
<1>3. k < next[r]
  <2>1. SUFFICES ASSUME next[r] - 1 < k PROVE FALSE
    BY <1>2, SlotNumbers
  <2>2. next[r] - 1 \in 0 .. route[r].n - 1
    BY <1>2, SlotNumbers
  <2>3. EdgeEnd(route[r], next[r] - 1) <= EdgeStart(route[r], k)
        /\ EdgeEnd(route[r], next[r] - 1) \in Nat
    BY <2>1, <2>2, SlotNumbers, RouteEdges
  <2>4. QED BY <1>1, <1>2, <2>3, SlotNumbers
<1>4. first[r] <= k
  <2>1. SUFFICES ASSUME k < first[r] PROVE FALSE
    BY SlotNumbers
  <2>2. /\ first[r] - 1 \in 0 .. route[r].n - 1 /\ first[r] > 0
        /\ k = first[r] - 1 \/ k < first[r] - 1
    BY <1>2, <2>1, SlotNumbers
  <2>3. EdgeEnd(route[r], k) <= EdgeEnd(route[r], first[r] - 1)
        /\ EdgeEnd(route[r], first[r] - 1) \in Nat
    BY <1>1, <2>2, SlotNumbers, RouteEdges
  <2>4. EdgeEnd(route[r], first[r] - 1) + ReleaseBehind - PoseError <= at[r]
    BY <2>2 DEF OnHeldEdges
  <2>5. QED BY <1>1, <2>3, <2>4, SlotNumbers, ParameterAssumption
<1>5. QED BY <1>3, <1>4, SlotNumbers DEF Held

LEMMA InEdgeIsHeld ==
  ASSUME Typed, TablesAgree, OnHeldEdges, NEW r \in Robots, UnderWay(r),
         NEW k \in 0 .. route[r].n - 1, InEdge(r, k)
  PROVE  route[r].edges[k] \in Edges /\ edgeHolder[route[r].edges[k]] = r
<1>1. r \in Registered /\ route[r] \in Routes
  BY DEF UnderWay, Registered, Typed, TypeOK
<1>2. EdgeStart(route[r], k) < at[r] /\ at[r] < EdgeEnd(route[r], k)
  BY DEF InEdge
<1>3. EdgeEnd(route[r], k) \in Nat /\ at[r] \in Nat
  BY <1>1, SlotNumbers, RouteEdges
<1>4. at[r] < EdgeEnd(route[r], k) + ReleaseBehind - PoseError
  BY <1>2, <1>3, ParameterAssumption
<1>5. k \in Held(r)
  BY <1>1, <1>2, <1>4, OnEdgeIsHeld
<1>6. route[r].edges[k] \in Edges
  BY <1>1, RouteAssumption DEF IsRoute
<1>7. QED BY <1>5, <1>6 DEF TablesAgree

LEMMA InNodeIsHeld ==
  ASSUME Typed, NodesKept, OnHeldEdges, NEW r \in Robots, UnderWay(r),
         NEW k \in 1 .. route[r].n - 1, InNode(r, k)
  PROVE  route[r].nodes[k] \in Nodes /\ nodeHolder[route[r].nodes[k]] = r
<1>1. r \in Registered
  BY DEF UnderWay, Registered
<1>2. k \in 0 .. route[r].n - 1 /\ k \in 0 .. route[r].n
  BY <1>1, SlotNumbers
<1>3. /\ EdgeStart(route[r], k) \in Nat /\ EdgeEnd(route[r], k) \in Nat
      /\ EdgeStart(route[r], k) < EdgeEnd(route[r], k) /\ at[r] \in Nat
  BY <1>1, <1>2, SlotNumbers, RouteEdges, ParameterAssumption
<1>4. /\ EdgeStart(route[r], k) < at[r]
      /\ at[r] < EdgeStart(route[r], k) + ReleaseBehind - PoseError
  BY DEF InNode
<1>5. at[r] < EdgeEnd(route[r], k) + ReleaseBehind - PoseError
  BY <1>3, <1>4, ParameterAssumption
<1>6. k \in Held(r)
  BY <1>1, <1>2, <1>4, <1>5, OnEdgeIsHeld
<1>7. ~ (EdgeStart(route[r], k) + ReleaseBehind - PoseError <= at[r])
  BY <1>3, <1>4, ParameterAssumption
<1>8. route[r].nodes[k] \in Nodes
  BY <1>1, <1>2, SlotNumbers, RouteNodes
<1>9. QED BY <1>1, <1>6, <1>7, <1>8 DEF NodesKept

(* Unless a robot under way is assigned anew, two robots under way are     *)
(* never on the same edge: the promise of reservation.py, for any road     *)
(* graph, any number of robots, any delay of the permissions and any       *)
(* minority of wrong poses.                                                *)
THEOREM EdgesExclusive ==
  ASSUME "reassign" \notin Allowed
  PROVE  Spec => []EdgeExclusion
<1>1. Typed /\ TablesAgree /\ OnHeldEdges => EdgeExclusion
  BY InEdgeIsHeld DEF EdgeExclusion
<1>2. QED BY <1>1, AlwaysOnHeldEdges, PTL

(* Under the same condition they are never in the same junction: a node is *)
(* let go only by a robot that has left it (_release_passed).              *)
THEOREM JunctionsExclusive ==
  ASSUME "reassign" \notin Allowed
  PROVE  Spec => []JunctionExclusion
<1>1. Typed /\ NodesKept /\ OnHeldEdges => JunctionExclusion
  BY InNodeIsHeld DEF JunctionExclusion
<1>2. QED BY <1>1, AlwaysOnHeldEdges, PTL

----------------------------------------------------------------------------
(* The lower median of a window. *)

(* A set of numbers has a least one. *)
LEMMA LeastNumber ==
  ASSUME NEW S \in SUBSET Nat, S # {}
  PROVE  \E v \in S : \A u \in S : v <= u
<1>1. PICK v \in S : \A u \in S : <<u, v>> \notin OpToRel(<, Nat)
  BY WFMin, NatLessThanWellFounded
<1>2. \A u \in S : ~ (u < v)
  BY <1>1 DEF OpToRel
<1>3. \A u \in S : v <= u
  BY <1>2
<1>4. QED BY <1>3

(* What Below and UpTo count. *)
LEMMA CountFacts ==
  ASSUME NEW w \in Seq(Nat), NEW v \in Nat
  PROVE  /\ Below(w, v) \in Nat /\ UpTo(w, v) \in Nat
         /\ (\A i \in 1 .. Len(w) : w[i] <= v) => UpTo(w, v) = Len(w)
         /\ (\A i \in 1 .. Len(w) : w[i] # v) => UpTo(w, v) = Below(w, v)
         /\ v = 0 => Below(w, v) = 0
         /\ v # 0 => Below(w, v) = UpTo(w, v - 1)
<1> DEFINE I == 1 .. Len(w)
<1>1. Len(w) \in Nat /\ \A i \in I : w[i] \in Nat
  OBVIOUS
<1>2. IsFiniteSet(I) /\ Cardinality(I) = Len(w)
  BY <1>1, CountTo
<1>3. IsFiniteSet({i \in I : w[i] < v}) /\ IsFiniteSet({i \in I : w[i] <= v})
  BY <1>2, FS_Subset
<1>4. Below(w, v) \in Nat /\ UpTo(w, v) \in Nat
  BY <1>3, FS_CardinalityType DEF Below, UpTo
<1>5. ASSUME \A i \in I : w[i] <= v
      PROVE  UpTo(w, v) = Len(w)
  <2>1. {i \in I : w[i] <= v} = I
    BY <1>5
  <2>2. QED BY <1>2, <2>1 DEF UpTo
<1>6. ASSUME \A i \in I : w[i] # v
      PROVE  UpTo(w, v) = Below(w, v)
  <2>1. {i \in I : w[i] <= v} = {i \in I : w[i] < v}
    BY <1>1, <1>6
  <2>2. QED BY <2>1 DEF UpTo, Below
<1>7. ASSUME v = 0
      PROVE  Below(w, v) = 0
  <2>1. {i \in I : w[i] < v} = {}
    BY <1>1, <1>7
  <2>2. QED BY <2>1, FS_EmptySet DEF Below
<1>8. ASSUME v # 0
      PROVE  Below(w, v) = UpTo(w, v - 1)
  <2>1. {i \in I : w[i] < v} = {i \in I : w[i] <= v - 1}
    BY <1>1, <1>8
  <2>2. QED BY <2>1 DEF Below, UpTo
<1>9. QED BY <1>4, <1>5, <1>6, <1>7, <1>8

(* A window that is not empty has a lower median: the least number that    *)
(* more than half of the entries do not exceed.                            *)
LEMMA MedianExists ==
  ASSUME NEW w \in Seq(Nat), Len(w) > 0,
         NEW top \in Nat, \A i \in 1 .. Len(w) : w[i] <= top
  PROVE  /\ LowerMedian(w) \in Nat
         /\ Below(w, LowerMedian(w)) <= (Len(w) - 1) \div 2
<1> DEFINE half == (Len(w) - 1) \div 2
           S == {u \in Nat : half < UpTo(w, u)}
           Seen == {w[i] : i \in 1 .. Len(w)}
<1>1. Len(w) \in Nat /\ half \in Nat /\ half < Len(w)
  OBVIOUS
<1>2. Seen \subseteq Nat
  OBVIOUS
<1>3. top \in S
  BY <1>1, CountFacts
<1>4. PICK v \in S : \A u \in S : v <= u
  BY <1>3, LeastNumber
<1>5. v \in Nat /\ half < UpTo(w, v)
  BY <1>4
<1>6. Below(w, v) <= half
  <2>1. CASE v = 0
    BY <1>1, <2>1, CountFacts
  <2>2. CASE v # 0
    <3>1. v - 1 \in Nat /\ ~ (v <= v - 1)
      BY <1>5, <2>2
    <3>2. ~ (half < UpTo(w, v - 1))
      BY <1>4, <3>1
    <3>3. UpTo(w, v - 1) \in Nat /\ Below(w, v) = UpTo(w, v - 1)
      BY <1>5, <2>2, <3>1, CountFacts
    <3>4. QED BY <1>1, <3>2, <3>3
  <2>3. QED BY <2>1, <2>2
<1>7. v \in Seen
  <2>1. SUFFICES ASSUME v \notin Seen PROVE FALSE
    OBVIOUS
  <2>2. \A i \in 1 .. Len(w) : w[i] # v
    BY <2>1
  <2>3. UpTo(w, v) = Below(w, v) /\ Below(w, v) \in Nat
    BY <1>5, <2>2, CountFacts
  <2>4. QED BY <1>1, <1>5, <1>6, <2>3
<1>8. LowerMedian(w) \in Seen /\ Below(w, LowerMedian(w)) <= half
  BY <1>5, <1>6, <1>7 DEF LowerMedian
<1>9. QED BY <1>2, <1>8

(* When few of a full window's entries are wrong and the rest are at most  *)
(* b, more than half are, and so is the median.                            *)
LEMMA MedianIsHonest ==
  ASSUME NEW w \in Seq(Nat), NEW h \in Seq(BOOLEAN),
         Len(w) = ConfirmUpdates, Len(h) = ConfirmUpdates, FewWrong(h),
         MaxWrong < ConfirmUpdates - (ConfirmUpdates - 1) \div 2,
         NEW top \in Nat, \A i \in 1 .. Len(w) : w[i] <= top,
         NEW b \in Nat, \A i \in 1 .. Len(w) : h[i] => w[i] <= b
  PROVE  LowerMedian(w) <= b
<1> DEFINE v == LowerMedian(w)
           I == 1 .. ConfirmUpdates
           right == {i \in I : h[i]}
           wrong == {i \in I : ~ h[i]}
           low == {i \in I : w[i] < v}
<1>1. ConfirmUpdates \in Nat /\ ConfirmUpdates > 0 /\ MaxWrong \in Nat
  BY ParameterAssumption
<1>2. v \in Nat /\ Cardinality(low) <= (ConfirmUpdates - 1) \div 2
  BY <1>1, MedianExists DEF Below
<1>3. SUFFICES ASSUME b < v PROVE FALSE
  BY <1>2
<1>4. right \subseteq low
  <2>1. \A i \in I : w[i] \in Nat
    OBVIOUS
  <2>2. ASSUME NEW i \in right PROVE w[i] < v
    <3>1. i \in I /\ w[i] <= b /\ w[i] \in Nat
      BY <2>1
    <3> HIDE DEF v
    <3>2. QED BY <1>2, <1>3, <3>1
  <2> HIDE DEF v
  <2>3. QED BY <2>2
<1> HIDE DEF v
<1>5. IsFiniteSet(I) /\ Cardinality(I) = ConfirmUpdates
  BY <1>1, CountTo
<1>6. /\ IsFiniteSet(right) /\ IsFiniteSet(wrong) /\ IsFiniteSet(low)
      /\ right \cup wrong = I /\ right \cap wrong = {}
  BY <1>5, FS_Subset
<1>7. Cardinality(right) <= Cardinality(low) /\ Cardinality(right) \in Nat
      /\ Cardinality(low) \in Nat /\ Cardinality(wrong) \in Nat
  BY <1>4, <1>6, FS_Subset, FS_CardinalityType
<1>8. ConfirmUpdates = Cardinality(right) + Cardinality(wrong)
  <2>1. Cardinality(right \cup wrong)
          = Cardinality(right) + Cardinality(wrong) - Cardinality(right \cap wrong)
    BY <1>6, FS_Union
  <2>2. Cardinality(right \cap wrong) = 0
    BY <1>6, FS_EmptySet
  <2>3. Cardinality(right \cup wrong) = ConfirmUpdates
    BY <1>5, <1>6, Zenon
  <2> HIDE DEF right, wrong
  <2>4. QED BY <1>7, <2>1, <2>2, <2>3
<1>9. Cardinality(wrong) <= MaxWrong
  BY DEF FewWrong
<1> HIDE DEF right, wrong, low, I
<1> DEFINE half == (ConfirmUpdates - 1) \div 2
<1>10. half \in Int /\ Cardinality(low) <= half /\ MaxWrong < ConfirmUpdates - half
  BY <1>1, <1>2
<1> HIDE DEF half
<1>11. QED BY ONLY <1>1, <1>7, <1>8, <1>9, <1>10

----------------------------------------------------------------------------
(* ArrivedAtGoal. *)

(* No window has more wrong poses than the world is assumed to send. *)
WindowsRight == \A r \in Robots : FewWrong(honest[r])

LEMMA EmptyWindowRight == FewWrong(<<>>)
<1>1. {i \in 1 .. Len(<<>>) : ~ <<>>[i]} = {}
  OBVIOUS
<1>2. QED BY <1>1, FS_EmptySet, ParameterAssumption DEF FewWrong

LEMMA WindowsStep == Typed /\ WindowsRight /\ [Next]_vars => WindowsRight'
<1> SUFFICES ASSUME Typed, WindowsRight, [Next]_vars PROVE WindowsRight'
  OBVIOUS
<1>1. CASE UNCHANGED honest
  BY <1>1 DEF WindowsRight
<1>2. ASSUME NEW r \in Robots, honest' = [honest EXCEPT ![r] = honest'[r]], FewWrong(honest'[r])
      PROVE  WindowsRight'
  <2>1. ASSUME NEW q \in Robots, q # r
        PROVE  honest'[q] = honest[q]
    BY <1>2, <2>1 DEF Typed, TypeOK
  <2>2. ASSUME NEW q \in Robots
        PROVE  FewWrong(honest'[q])
    <3>1. CASE q = r
      BY <1>2, <3>1
    <3>2. CASE q # r
      BY <2>1, <3>2 DEF WindowsRight
    <3>3. QED BY <3>1, <3>2
  <2>3. QED BY <2>2 DEF WindowsRight
<1>3. ASSUME NEW r \in Robots, NEW rt \in RoutesOf[r], Assign(r, rt)
      PROVE  WindowsRight'
  <2>1. honest' = [honest EXCEPT ![r] = <<>>] /\ honest'[r] = <<>>
    BY <1>3 DEF Assign, Register, Typed, TypeOK
  <2>2. QED BY <1>2, <2>1, EmptyWindowRight
<1>4. ASSUME NEW r \in Robots, PoseFresh(r)
      PROVE  WindowsRight'
  <2>1. PICK s : UpdatePose(r, s, IsHonest(r, s))
    BY <1>4 DEF PoseFresh
  <2>2. honest' = [honest EXCEPT ![r] = Push(honest[r], IsHonest(r, s))]
    BY <2>1 DEF UpdatePose
  <2>3. honest' = [honest EXCEPT ![r] = honest'[r]]
    BY <2>2 DEF Typed, TypeOK
  <2>4. QED BY <1>2, <1>4, <2>3 DEF PoseFresh
<1>5. CASE Tick
  BY <1>1, <1>4, <1>5 DEF Tick, TickBegin, PoseStale, TickPaused, StepBegin, TryAcquire,
       NothingToAcquire, TickEnd, poseVars
<1>6. ASSUME NEW r \in Robots, Handler(r) \/ Clearance(r) \/ Move(r)
      PROVE  WindowsRight'
  BY <1>1, <1>3, <1>6 DEF Handler, StatusDriving, StatusJunctionStop, StatusArrived,
       StatusArrivedAccepted, Clearance, Move, poseVars
<1>7. CASE UNCHANGED vars
  BY <1>1, <1>7 DEF vars, poseVars
<1>8. QED BY <1>5, <1>6, <1>7 DEF Next

(* What an accepted arrival says of the robot. *)
LEMMA AcceptedNearGoal ==
  ASSUME MaxWrong < ConfirmUpdates - (ConfirmUpdates - 1) \div 2,
         Typed, Confirmed, WindowsRight, NEW r \in Registered, Accepted(r)
  PROVE  Length(route[r]) - at[r] <= ReserveAhead + PoseError
<1> DEFINE w == recent[r]
           h == honest[r]
           b == at[r] + PoseError
           length == Length(route[r])
           seen == IF Len(w) < ConfirmUpdates THEN progress[r] ELSE LowerMedian(w)
<1>1. /\ w \in Seq(Nat) /\ h \in Seq(BOOLEAN) /\ Len(h) = Len(w) /\ Len(w) <= ConfirmUpdates
      /\ at[r] \in Nat /\ progress[r] \in Nat /\ length \in Nat
  BY SlotNumbers DEF Typed, TypeOK
<1>2. /\ progress[r] <= b /\ b \in Nat
      /\ \A i \in 1 .. Len(w) : h[i] => w[i] <= b
  <2>1. /\ progress[r] <= at[r] + PoseError
        /\ \A i \in 1 .. Len(recent[r]) : honest[r][i] => recent[r][i] <= at[r] + PoseError
    BY DEF Confirmed
  <2>2. b \in Nat
    BY <1>1, ParameterAssumption
  <2>3. QED BY <2>1, <2>2
<1>3. \A i \in 1 .. Len(w) : w[i] <= length
  BY DEF Typed, SlotOK
<1>4. FewWrong(h)
  BY SlotNumbers DEF WindowsRight
<1>5. MaxOf(0, length - seen) <= ReserveAhead
  BY DEF Accepted, GoalGap
<1>6. Len(w) > 0 /\ Len(w) = ConfirmUpdates => LowerMedian(w) \in Nat
  BY <1>1, <1>3, MedianExists
<1> HIDE DEF w, h, b, length
<1>7. seen \in Nat /\ seen <= b
  <2>1. CASE Len(w) < ConfirmUpdates
    BY <1>1, <1>2, <2>1
  <2>2. CASE Len(w) = ConfirmUpdates
    <3>1. Len(h) = ConfirmUpdates /\ Len(w) > 0
      BY <1>1, <2>2, ParameterAssumption
    <3>2. LowerMedian(w) <= b
      BY <1>1, <1>2, <1>3, <1>4, <2>2, <3>1, MedianIsHonest
    <3>3. seen = LowerMedian(w)
      BY <2>2, ParameterAssumption
    <3>4. QED BY <1>6, <2>2, <3>1, <3>2, <3>3
  <2>3. QED BY <1>1, <2>1, <2>2, ParameterAssumption
<1> HIDE DEF seen
<1>8. length - b <= ReserveAhead
  BY <1>1, <1>2, <1>5, <1>7, ParameterAssumption
<1>9. QED BY <1>1, <1>8, ParameterAssumption DEF b, length

LEMMA ArrivedAtGoalStep ==
  ASSUME MaxWrong < ConfirmUpdates - (ConfirmUpdates - 1) \div 2
  PROVE  Typed /\ Confirmed /\ WindowsRight /\ ArrivedAtGoal /\ [Next]_vars => ArrivedAtGoal'
<1> SUFFICES ASSUME Typed, Confirmed, WindowsRight, ArrivedAtGoal, [Next]_vars
             PROVE  ArrivedAtGoal'
  OBVIOUS
<1>1. CASE UNCHANGED <<route, finished, at>>
  BY <1>1 DEF ArrivedAtGoal, Registered
<1>2. ASSUME NEW r \in Robots, NEW rt \in RoutesOf[r], Assign(r, rt)
      PROVE  ArrivedAtGoal'
  <2>1. finished'[r] = FALSE
    BY <1>2 DEF Assign, Register, Typed, TypeOK
  <2>2. ASSUME NEW q \in Registered', q # r
        PROVE  /\ q \in Registered /\ route'[q] = route[q] /\ finished'[q] = finished[q]
               /\ at'[q] = at[q]
    <3>1. q \in Registered /\ q \in Robots /\ route'[q] = route[q] /\ finished'[q] = finished[q]
      BY <1>2, <2>2 DEF Assign, Register, Registered, Typed, TypeOK
    <3>2. at'[q] = at[q]
      BY <1>2, <2>2, <3>1, AssignMoves DEF Typed, TypeOK
    <3>3. QED BY <3>1, <3>2
  <2>3. QED BY <2>1, <2>2 DEF ArrivedAtGoal
<1>3. ASSUME NEW r \in Robots, StatusArrivedAccepted(r)
      PROVE  ArrivedAtGoal'
  <2>1. /\ r \in Registered /\ Registered' = Registered /\ route' = route /\ at' = at
        /\ \A q \in Registered : q # r => finished'[q] = finished[q]
    BY <1>3 DEF StatusArrivedAccepted, robotVars, Registered, Typed, TypeOK
  <2>2. Length(route[r]) - at[r] <= ReserveAhead + PoseError
    BY <1>3, <2>1, AcceptedNearGoal DEF StatusArrivedAccepted
  <2>3. QED BY <2>1, <2>2 DEF ArrivedAtGoal
<1>4. ASSUME NEW r \in Robots, Move(r)
      PROVE  ArrivedAtGoal'
  <2>1. /\ UNCHANGED <<route, finished>> /\ Registered' = Registered /\ ~ finished[r]
        /\ \A q \in Registered : q # r => at'[q] = at[q]
    BY <1>4 DEF Move, slotVars, Registered, Typed, TypeOK
  <2>2. QED BY <2>1 DEF ArrivedAtGoal
<1>5. CASE Tick
  BY <1>1, <1>5 DEF Tick, TickBegin, PoseStale, PoseFresh, TickPaused, StepBegin, TryAcquire,
       NothingToAcquire, TickEnd, slotVars, robotVars
<1>6. ASSUME NEW r \in Robots, Handler(r) \/ Clearance(r)
      PROVE  ArrivedAtGoal'
  BY <1>1, <1>2, <1>3, <1>6 DEF Handler, StatusDriving, StatusJunctionStop, StatusArrived,
       Clearance, slotVars, robotVars
<1>7. CASE UNCHANGED vars
  BY <1>1, <1>7 DEF vars, slotVars, robotVars
<1>8. QED BY <1>4, <1>5, <1>6, <1>7 DEF Next

(* When most poses of a window are right, an arrival, which lets go of     *)
(* every edge, is only accepted from a robot near its goal, whatever the   *)
(* wrong ones say (goal_gap takes the median of the window).               *)
THEOREM ArrivalsAreReal ==
  ASSUME MaxWrong < ConfirmUpdates - (ConfirmUpdates - 1) \div 2
  PROVE  Spec => []ArrivedAtGoal
<1>1. Init => WindowsRight /\ ArrivedAtGoal
  BY EmptyWindowRight DEF Init, WindowsRight, ArrivedAtGoal, Registered
<1>2. Typed /\ Confirmed /\ WindowsRight /\ ArrivedAtGoal /\ [Next]_vars => ArrivedAtGoal'
  BY ArrivedAtGoalStep
<1>3. QED BY <1>1, <1>2, WindowsStep, AlwaysConfirmed, PTL DEF Spec

----------------------------------------------------------------------------
(* NoParkedBlock. *)

(* No robot ends where another one under way ends or passes.               *)
GoalsApart ==
  \A r, q \in Registered : r # q /\ UnderWay(r) =>
    /\ Goal(route[q]) # Goal(route[r])
    /\ Goal(route[q]) \notin Interior(route[r])

(* Of the nodes a parked robot holds its goal only.                        *)
ParkedHoldsGoal ==
  \A q \in Registered : finished[q] =>
    \A v \in Nodes : nodeHolder[v] = q => v = Goal(route[q])

(* A robot that has not taken an edge yet holds the node it starts from.   *)
StartsHeld ==
  \A r \in Registered : UnderWay(r) /\ next[r] = 0 => nodeHolder[route[r].nodes[0]] = r

LEMMA GoalsApartStep == Typed /\ GoalsApart /\ [Next]_vars => GoalsApart'
<1> SUFFICES ASSUME Typed, GoalsApart, [Next]_vars PROVE GoalsApart'
  OBVIOUS
<1>1. CASE UNCHANGED <<route, finished>>
  BY <1>1 DEF GoalsApart, Registered, UnderWay
<1>2. ASSUME NEW p \in Robots, NEW rt \in RoutesOf[p], Assign(p, rt)
      PROVE  GoalsApart'
  <2>1. route'[p] = rt
    BY <1>2 DEF Assign, Register, Typed, TypeOK
  <2>2. ASSUME NEW r \in Registered', r # p
        PROVE  /\ r \in Registered /\ route'[r] = route[r] /\ finished'[r] = finished[r]
               /\ UnderWay(r)' <=> UnderWay(r)
    BY <1>2, <2>2 DEF Assign, Register, Registered, UnderWay, Typed, TypeOK
  <2>3. ASSUME NEW q \in Registered, q # p
        PROVE  /\ Goal(route[q]) # Goal(rt)
               /\ ~ finished[q] => Goal(rt) \notin Interior(route[q])
               /\ Goal(route[q]) \notin Interior(rt)
    BY <1>2, <2>3 DEF Assign, AssignConflict
  <2>4. ASSUME NEW r \in Registered', NEW q \in Registered', r # q, UnderWay(r)'
        PROVE  /\ Goal(route'[q]) # Goal(route'[r])
               /\ Goal(route'[q]) \notin Interior(route'[r])
    <3>1. CASE r = p
      BY <2>1, <2>2, <2>3, <2>4, <3>1
    <3>2. CASE q = p
      <4>1. r \in Registered /\ ~ finished[r]
        BY <2>2, <2>4, <3>2 DEF UnderWay
      <4>2. QED BY <2>1, <2>2, <2>3, <2>4, <3>2, <4>1
    <3>3. CASE r # p /\ q # p
      BY <2>2, <2>4, <3>3 DEF GoalsApart
    <3>4. QED BY <3>1, <3>2, <3>3
  <2>5. QED BY <2>4 DEF GoalsApart
<1>3. ASSUME NEW p \in Robots, StatusArrivedAccepted(p)
      PROVE  GoalsApart'
  <2>1. /\ route' = route /\ Registered' = Registered
        /\ \A r \in Registered : UnderWay(r)' => UnderWay(r)
    BY <1>3 DEF StatusArrivedAccepted, Registered, UnderWay, Typed, TypeOK
  <2>2. QED BY <2>1 DEF GoalsApart
<1>4. CASE Tick
  BY <1>1, <1>4 DEF Tick, TickBegin, PoseStale, PoseFresh, TickPaused, StepBegin, TryAcquire,
       NothingToAcquire, TickEnd, slotVars
<1>5. ASSUME NEW p \in Robots, Handler(p) \/ Clearance(p) \/ Move(p)
      PROVE  GoalsApart'
  BY <1>1, <1>2, <1>3, <1>5 DEF Handler, StatusDriving, StatusJunctionStop, StatusArrived,
       Clearance, Move, slotVars
<1>6. CASE UNCHANGED vars
  BY <1>1, <1>6 DEF vars, slotVars
<1>7. QED BY <1>4, <1>5, <1>6 DEF Next

(* The step of a mission's end overwrites the holder of its goal only,     *)
(* which is the robot itself.                                              *)
LEMMA ArrivalKeepsNodes ==
  ASSUME Typed, Permitted, NodesKept, NEW p \in Robots, StatusArrivedAccepted(p)
  PROVE  /\ \A v \in Nodes : nodeHolder'[v] = p => v = Goal(route[p])
         /\ \A v \in Nodes : nodeHolder[v] # p => nodeHolder'[v] = nodeHolder[v]
<1>1. nodeHolder[Goal(route[p])] = p
  BY ArrivedHoldsGoal DEF StatusArrivedAccepted, UnderWay, Registered
<1> DEFINE free == Without(nodeHolder, p)
<1>2. nodeHolder' = [free EXCEPT ![Goal(route[p])] = p] /\ DOMAIN free = Nodes
  BY DEF StatusArrivedAccepted, Without, Typed, TypeOK
<1>3. \A v \in Nodes : free[v] = IF nodeHolder[v] = p THEN NoRobot ELSE nodeHolder[v]
  BY DEF Without, Typed, TypeOK
<1> HIDE DEF free
<1>4. ASSUME NEW v \in Nodes
      PROVE  nodeHolder'[v] = IF v = Goal(route[p]) THEN p ELSE free[v]
  BY <1>2
<1>5. QED BY <1>1, <1>3, <1>4, NullAssumption

(* A robot is never robbed of a node, nor given one while it is not        *)
(* assigned, taking edges or arriving.                                     *)
LEMMA AssignKeepsNodes ==
  ASSUME Typed, NEW p \in Robots, NEW rt \in RoutesOf[p], Assign(p, rt)
  PROVE  \A r \in Robots, v \in Nodes : r # p => (nodeHolder'[v] = r <=> nodeHolder[v] = r)
<1> DEFINE free == Without(nodeHolder, p)
<1>1. \A v \in Nodes : free[v] = IF nodeHolder[v] = p THEN NoRobot ELSE nodeHolder[v]
  BY DEF Without, Typed, TypeOK
<1>2. /\ nodeHolder' = IF free[rt.nodes[0]] = NoRobot
                       THEN [free EXCEPT ![rt.nodes[0]] = p] ELSE free
      /\ DOMAIN free = Nodes
  BY DEF Assign, Register, Without, Typed, TypeOK
<1> HIDE DEF free
<1>3. ASSUME NEW r \in Robots, NEW v \in Nodes, r # p
      PROVE  nodeHolder'[v] = r <=> free[v] = r
  BY <1>2, <1>3, NullAssumption
<1>4. QED BY <1>1, <1>3, NullAssumption

LEMMA TakingKeepsNodes ==
  ASSUME Typed, NEW p \in Robots, NEW m \in 0 .. MaxEdges, TryAcquire(p, m)
  PROVE  \A r \in Robots, v \in Nodes : r # p => (nodeHolder'[v] = r <=> nodeHolder[v] = r)
<1> DEFINE Taken(v) == \E k \in next[p] .. m - 1 :
                         \/ route[p].nodes[k] = v
                         \/ k = route[p].n - 1 /\ Goal(route[p]) = v
<1>1. ASSUME NEW v \in Nodes
      PROVE  nodeHolder'[v] = IF Taken(v) THEN p ELSE nodeHolder[v]
  BY DEF TryAcquire
<1>2. ASSUME NEW v \in Nodes, Taken(v)
      PROVE  nodeHolder[v] \in {NoRobot, p}
  BY <1>2 DEF TryAcquire, Acquires, Takeable, FreeFor
<1> HIDE DEF Taken
<1>3. QED BY <1>1, <1>2, NullAssumption

LEMMA ParkedHoldsGoalStep ==
  Typed /\ Permitted /\ NodesKept /\ ParkedHoldsGoal /\ [Next]_vars => ParkedHoldsGoal'
<1> SUFFICES ASSUME Typed, Permitted, NodesKept, ParkedHoldsGoal, [Next]_vars
             PROVE  ParkedHoldsGoal'
  OBVIOUS
<1>1. CASE UNCHANGED <<route, finished, nodeHolder>>
  BY <1>1 DEF ParkedHoldsGoal, Registered
<1>2. ASSUME NEW p \in Robots, NEW rt \in RoutesOf[p], Assign(p, rt)
      PROVE  ParkedHoldsGoal'
  <2>1. finished'[p] = FALSE
    BY <1>2 DEF Assign, Register, Typed, TypeOK
  <2>2. ASSUME NEW q \in Registered', q # p
        PROVE  /\ q \in Registered /\ q \in Robots /\ route'[q] = route[q]
               /\ finished'[q] = finished[q]
    BY <1>2, <2>2 DEF Assign, Register, Registered, Typed, TypeOK
  <2>3. QED BY <1>2, <2>1, <2>2, AssignKeepsNodes DEF ParkedHoldsGoal
<1>3. ASSUME NEW p \in Robots, StatusArrivedAccepted(p)
      PROVE  ParkedHoldsGoal'
  <2>1. /\ route' = route /\ Registered' = Registered
        /\ \A q \in Registered : q \in Robots /\ (q # p => finished'[q] = finished[q])
    BY <1>3 DEF StatusArrivedAccepted, Registered, Typed, TypeOK
  <2>2. /\ \A v \in Nodes : nodeHolder'[v] = p => v = Goal(route[p])
        /\ \A v \in Nodes : nodeHolder[v] # p => nodeHolder'[v] = nodeHolder[v]
    BY <1>3, ArrivalKeepsNodes
  <2>3. ASSUME NEW v \in Nodes
        PROVE  nodeHolder'[v] \in {p, nodeHolder[v], NoRobot}
    BY <1>3 DEF StatusArrivedAccepted, Without, Typed, TypeOK
  <2>4. ASSUME NEW q \in Registered, q # p, NEW v \in Nodes, nodeHolder'[v] = q
        PROVE  nodeHolder[v] = q
    BY <2>1, <2>3, <2>4, NullAssumption
  <2>5. QED BY <2>1, <2>2, <2>4 DEF ParkedHoldsGoal
<1>4. ASSUME NEW f \in [Robots -> 0 .. MaxEdges], StepBegin(f)
      PROVE  ParkedHoldsGoal'
  <2>1. UNCHANGED <<route, finished>> /\ Registered' = Registered
    BY <1>4 DEF StepBegin, Registered
  <2>2. \A v \in Nodes : nodeHolder'[v] \in {NoRobot, nodeHolder[v]}
    BY <1>4 DEF StepBegin
  <2>3. \A q \in Registered, v \in Nodes : nodeHolder'[v] = q => nodeHolder[v] = q
    BY <2>2, NullAssumption DEF Registered
  <2>4. QED BY <2>1, <2>3 DEF ParkedHoldsGoal
<1>5. ASSUME NEW p \in Robots, NEW m \in 0 .. MaxEdges, TryAcquire(p, m)
      PROVE  ParkedHoldsGoal'
  <2>1. UNCHANGED <<route, finished>> /\ Registered' = Registered /\ ~ finished[p]
    BY <1>5 DEF TryAcquire, Registered, Asks, HasNext
  <2>2. \A q \in Registered, v \in Nodes : q # p => (nodeHolder'[v] = q <=> nodeHolder[v] = q)
    BY <1>5, TakingKeepsNodes DEF Registered
  <2>3. QED BY <2>1, <2>2 DEF ParkedHoldsGoal
<1>6. CASE Tick
  BY <1>1, <1>4, <1>5, <1>6 DEF Tick, TickBegin, PoseStale, PoseFresh, TickPaused,
       NothingToAcquire, TickEnd, slotVars, tableVars
<1>7. ASSUME NEW p \in Robots, Handler(p) \/ Clearance(p) \/ Move(p)
      PROVE  ParkedHoldsGoal'
  BY <1>1, <1>2, <1>3, <1>7 DEF Handler, StatusDriving, StatusJunctionStop, StatusArrived,
       Clearance, Move, slotVars, tableVars
<1>8. CASE UNCHANGED vars
  BY <1>1, <1>8 DEF vars, slotVars, tableVars
<1>9. QED BY <1>6, <1>7, <1>8 DEF Next

LEMMA StartsHeldStep ==
  ASSUME "start_taken" \notin Allowed, "reassign" \notin Allowed
  PROVE  Typed /\ Permitted /\ NodesKept /\ StartsHeld /\ [Next]_vars => StartsHeld'
<1> SUFFICES ASSUME Typed, Permitted, NodesKept, StartsHeld, [Next]_vars
             PROVE  StartsHeld'
  OBVIOUS
<1>1. CASE UNCHANGED <<route, finished, next, nodeHolder>>
  BY <1>1 DEF StartsHeld, Registered, UnderWay
<1>2. \A r \in Registered : r \in Robots /\ route[r].nodes[0] \in Nodes
  BY SlotNumbers, RouteNodes
<1>3. ASSUME NEW p \in Robots, NEW rt \in RoutesOf[p], Assign(p, rt)
      PROVE  StartsHeld'
  <2>1. route'[p] = rt /\ rt \in Routes /\ rt.nodes[0] \in Nodes
    <3>1. rt \in Routes
      BY RouteAssumption
    <3>2. 0 \in 0 .. rt.n
      BY <3>1, RouteNumbers
    <3>3. rt.nodes[0] \in Nodes
      BY <3>1, <3>2, RouteNodes
    <3>4. QED BY <1>3, <3>1, <3>3 DEF Assign, Register, Typed, TypeOK
  <2>2. nodeHolder'[rt.nodes[0]] = p
    <3> DEFINE free == Without(nodeHolder, p)
    <3>1. nodeHolder[rt.nodes[0]] \in {NoRobot, p}
      BY <1>3 DEF Assign, StandsAtStart
    <3>2. free[rt.nodes[0]] = NoRobot /\ DOMAIN free = Nodes
      BY <2>1, <3>1 DEF Without, Typed, TypeOK
    <3>3. nodeHolder' = IF free[rt.nodes[0]] = NoRobot THEN [free EXCEPT ![rt.nodes[0]] = p] ELSE free
      BY <1>3 DEF Assign, Register
    <3> HIDE DEF free
    <3>4. QED BY <2>1, <3>2, <3>3
  <2>3. ASSUME NEW r \in Registered', r # p
        PROVE  /\ r \in Registered /\ route'[r] = route[r] /\ next'[r] = next[r]
               /\ UnderWay(r)' <=> UnderWay(r)
    BY <1>3, <2>3 DEF Assign, Register, Registered, UnderWay, Typed, TypeOK
  <2>4. ASSUME NEW r \in Registered', UnderWay(r)', next'[r] = 0
        PROVE  nodeHolder'[route'[r].nodes[0]] = r
    <3>1. CASE r = p
      BY <2>1, <2>2, <3>1
    <3>2. CASE r # p
      <4>1. r \in Robots /\ nodeHolder[route[r].nodes[0]] = r /\ route[r].nodes[0] \in Nodes
        BY <1>2, <2>3, <2>4, <3>2 DEF StartsHeld
      <4>2. QED BY <1>3, <2>3, <2>4, <3>2, <4>1, AssignKeepsNodes
    <3>3. QED BY <3>1, <3>2
  <2>5. QED BY <2>4 DEF StartsHeld
<1>4. ASSUME NEW p \in Robots, StatusArrivedAccepted(p)
      PROVE  StartsHeld'
  <2>1. /\ route' = route /\ Registered' = Registered /\ ~ UnderWay(p)'
        /\ \A r \in Registered : r # p => (UnderWay(r)' <=> UnderWay(r)) /\ next'[r] = next[r]
    BY <1>4 DEF StatusArrivedAccepted, Registered, UnderWay, Typed, TypeOK
  <2>2. \A v \in Nodes : nodeHolder[v] # p => nodeHolder'[v] = nodeHolder[v]
    BY <1>4, ArrivalKeepsNodes
  <2>3. QED BY <1>2, <2>1, <2>2 DEF StartsHeld
<1>5. ASSUME NEW f \in [Robots -> 0 .. MaxEdges], StepBegin(f)
      PROVE  StartsHeld'
  <2>1. /\ UNCHANGED <<route, finished, next>> /\ Registered' = Registered
        /\ \A r \in Registered : UnderWay(r)' <=> UnderWay(r)
    BY <1>5 DEF StepBegin, Registered, UnderWay
  <2>2. ASSUME NEW r \in Registered, next[r] = 0, NEW v \in Nodes, nodeHolder[v] = r
        PROVE  nodeHolder'[v] = r
    <3>1. Held(r) = {}
      BY <2>2, SlotNumbers DEF Held
    <3>2. QED BY <1>5, <2>2, <3>1 DEF StepBegin
  <2>3. QED BY <1>2, <2>1, <2>2 DEF StartsHeld
<1>6. ASSUME NEW p \in Robots, NEW m \in 0 .. MaxEdges, TryAcquire(p, m)
      PROVE  StartsHeld'
  <2>1. /\ UNCHANGED <<route, finished>> /\ Registered' = Registered
        /\ next' = [next EXCEPT ![p] = m] /\ next \in [Robots -> Nat]
        /\ \A r \in Registered : UnderWay(r)' <=> UnderWay(r)
    BY <1>6 DEF TryAcquire, Registered, UnderWay, Typed, TypeOK
  <2>2. ASSUME NEW r \in Registered, UnderWay(r), next'[r] = 0
        PROVE  nodeHolder'[route[r].nodes[0]] = r
    <3>1. CASE r # p
      <4>1. next[r] = 0 /\ nodeHolder[route[r].nodes[0]] = r
        BY <1>2, <2>1, <2>2, <3>1 DEF StartsHeld
      <4>2. QED BY <1>2, <1>6, <3>1, <4>1, TakingKeepsNodes
    <3>2. CASE r = p
      <4>1. m = 0 /\ next[r] <= m /\ next[r] \in Nat
        BY <1>2, <1>6, <2>1, <2>2, <3>2 DEF TryAcquire
      <4>2. next[r] = 0 /\ next[p] .. m - 1 = {}
        BY <3>2, <4>1
      <4>3. nodeHolder'[route[r].nodes[0]] = nodeHolder[route[r].nodes[0]]
        BY <1>2, <1>6, <3>2, <4>2 DEF TryAcquire
      <4>4. QED BY <2>2, <4>2, <4>3 DEF StartsHeld
    <3>3. QED BY <3>1, <3>2
  <2>3. QED BY <2>1, <2>2 DEF StartsHeld
<1>7. CASE Tick
  BY <1>1, <1>5, <1>6, <1>7 DEF Tick, TickBegin, PoseStale, PoseFresh, TickPaused,
       NothingToAcquire, TickEnd, slotVars, tableVars
<1>8. ASSUME NEW p \in Robots, Handler(p) \/ Clearance(p) \/ Move(p)
      PROVE  StartsHeld'
  BY <1>1, <1>3, <1>4, <1>8 DEF Handler, StatusDriving, StatusJunctionStop, StatusArrived,
       Clearance, Move, slotVars, tableVars
<1>9. CASE UNCHANGED vars
  BY <1>1, <1>9 DEF vars, slotVars, tableVars
<1>10. QED BY <1>7, <1>8, <1>9 DEF Next

(* Why no robot is held up by a parked one: what it waits for is an edge,  *)
(* which only robots under way hold, or its start, which is its own, or a  *)
(* node it passes or ends at, where no other robot may have its goal.      *)
LEMMA NothingParkedInTheWay ==
  Typed /\ TablesAgree /\ GoalsApart /\ ParkedHoldsGoal /\ StartsHeld => NoParkedBlock
<1> SUFFICES ASSUME Typed, TablesAgree, GoalsApart, ParkedHoldsGoal, StartsHeld,
                    NEW r \in Registered, NEW q \in Registered,
                    UnderWay(r), finished[q], HoldsUp(q, r)
             PROVE  FALSE
  BY DEF NoParkedBlock
<1>1. /\ r \in Robots /\ q \in Robots /\ r # q /\ ~ UnderWay(q)
      /\ next[r] \in Nat /\ route[r].n \in Nat /\ route[r].n > 0 /\ next[r] <= route[r].n
      /\ route[r] \in Routes
  BY SlotNumbers DEF UnderWay
<1>2. \A k \in 0 .. route[r].n : route[r].nodes[k] \in Nodes
  BY <1>1, RouteNodes
<1>3. CASE edgeHolder[waitingFor[r]] = q
  <2>1. waitingFor[r] \in Edges
    BY <1>1 DEF HoldsUp, Typed, TypeOK
  <2>2. QED BY <1>1, <1>3, <2>1 DEF TablesAgree
<1>4. ASSUME NEW k \in 1 .. route[r].n, nodeHolder[route[r].nodes[k]] = q
      PROVE  FALSE
  <2>1. route[r].nodes[k] = Goal(route[q])
    BY <1>1, <1>2, <1>4 DEF ParkedHoldsGoal
  <2>2. /\ Goal(route[q]) # Goal(route[r])
        /\ Goal(route[q]) \notin Interior(route[r])
    BY <1>1 DEF GoalsApart
  <2>3. CASE k = route[r].n
    BY <2>1, <2>2, <2>3 DEF Goal
  <2>4. CASE k \in 1 .. route[r].n - 1
    BY <2>1, <2>2, <2>4 DEF Interior
  <2>5. QED BY <1>1, <1>4, <2>3, <2>4
<1>5. CASE nodeHolder[route[r].nodes[next[r]]] = q
  <2>1. CASE next[r] = 0
    BY <1>1, <1>5, <2>1 DEF StartsHeld
  <2>2. CASE next[r] # 0
    BY <1>1, <1>4, <1>5, <2>2
  <2>3. QED BY <2>1, <2>2
<1>6. CASE nodeHolder[Goal(route[r])] = q
  BY <1>1, <1>4, <1>6 DEF Goal
<1>7. QED BY <1>3, <1>5, <1>6 DEF HoldsUp

(* Unless a robot is assigned anew under way, or from a node that another  *)
(* has reserved, no robot ever waits for one that has parked, whatever the *)
(* order of the assignments: assign_conflict suffices.                     *)
THEOREM NobodyParkedBlocks ==
  ASSUME "start_taken" \notin Allowed, "reassign" \notin Allowed
  PROVE  Spec => []NoParkedBlock
<1>1. Init => GoalsApart /\ ParkedHoldsGoal /\ StartsHeld
  BY DEF Init, GoalsApart, ParkedHoldsGoal, StartsHeld, Registered
<1>2. Typed /\ Permitted /\ NodesKept /\ StartsHeld /\ [Next]_vars => StartsHeld'
  BY StartsHeldStep
<1>3. Spec => [](Typed /\ Permitted /\ Confirmed /\ TablesAgree /\ NodesKept /\ OnHeldEdges)
  BY AlwaysOnHeldEdges
<1>4. QED BY <1>1, <1>2, <1>3, GoalsApartStep, ParkedHoldsGoalStep, NothingParkedInTheWay, PTL
          DEF Spec

----------------------------------------------------------------------------
(* The road as an interlocking. *)

LEMMA PlacesOfRoad ==
  /\ \A e \in Edges : <<"edge", e>> \in Places
  /\ \A v \in Nodes : <<"node", v>> \in Places
  /\ \A p \in Places : \/ \E e \in Edges : p = <<"edge", e>>
                       \/ \E v \in Nodes : p = <<"node", v>>
  /\ \A e \in Edges, v \in Nodes : <<"edge", e>> # <<"node", v>>
BY DEF Places

LEMMA HolderOfPlace ==
  /\ \A e \in Edges : Holder[<<"edge", e>>] = edgeHolder[e] /\ Holder'[<<"edge", e>>] = edgeHolder'[e]
  /\ \A v \in Nodes : Holder[<<"node", v>>] = nodeHolder[v] /\ Holder'[<<"node", v>>] = nodeHolder'[v]
  /\ Holder = [p \in Places |-> Holder[p]] /\ Holder' = [p \in Places |-> Holder'[p]]
BY PlacesOfRoad DEF Holder

LEMMA HolderByKind ==
  ASSUME NEW p \in Places
  PROVE  \/ \E e \in Edges : /\ p = <<"edge", e>>
                            /\ Holder[p] = edgeHolder[e] /\ Holder'[p] = edgeHolder'[e]
         \/ \E v \in Nodes : /\ p = <<"node", v>>
                            /\ Holder[p] = nodeHolder[v] /\ Holder'[p] = nodeHolder'[v]
<1>1. CASE \E e \in Edges : p = <<"edge", e>>
  <2>1. PICK e \in Edges : p = <<"edge", e>>
    BY <1>1
  <2>2. QED BY <2>1, HolderOfPlace
<1>2. CASE \E v \in Nodes : p = <<"node", v>>
  <2>1. PICK v \in Nodes : p = <<"node", v>>
    BY <1>2
  <2>2. QED BY <2>1, HolderOfPlace
<1>3. QED BY <1>1, <1>2, PlacesOfRoad

(* What passes from hand to hand follows from the two tables. *)
LEMMA HandsOnRoad ==
  ASSUME Typed'
  PROVE  Holder' \in [Places -> Robots \cup {NoRobot}]
<1>1. /\ edgeHolder' \in [Edges -> Robots \cup {NoRobot}]
      /\ nodeHolder' \in [Nodes -> Robots \cup {NoRobot}]
  BY DEF Typed, TypeOK
<1>2. \A p \in Places : Holder'[p] \in Robots \cup {NoRobot}
  BY <1>1, HolderByKind
<1>3. QED BY <1>2, HolderOfPlace

LEMMA HolderStays ==
  ASSUME UNCHANGED tableVars
  PROVE  Holder' = Holder
BY DEF tableVars, Holder

LEMMA InEntered ==
  /\ \A x : x \in Entered <=> \E r \in Robots : UnderWay(r) /\ \E p \in PlacesInside(r) : x = <<r, p>>
  /\ \A x : x \in Entered' <=> \E r \in Robots : UnderWay(r)' /\ \E p \in PlacesInside(r)' : x = <<r, p>>
BY DEF Entered

LEMMA EnteredStays ==
  ASSUME UNCHANGED <<route, finished, at>>
  PROVE  Entered' = Entered
BY DEF Entered, UnderWay, PlacesInside, InEdge, InNode

(* Who is not moved is inside what it was inside. *)
LEMMA InsideStays ==
  ASSUME NEW r, route'[r] = route[r], finished'[r] = finished[r], at'[r] = at[r]
  PROVE  (UnderWay(r)' <=> UnderWay(r)) /\ PlacesInside(r)' = PlacesInside(r)
BY DEF UnderWay, PlacesInside, InEdge, InNode

(* A robot under way is inside what it holds. *)
InsideHeld ==
  \A r \in Robots : UnderWay(r) => \A p \in PlacesInside(r) : p \in Places /\ Holder[p] = r

LEMMA InsideIsHeld == Typed /\ TablesAgree /\ NodesKept /\ OnHeldEdges => InsideHeld
<1> SUFFICES ASSUME Typed, TablesAgree, NodesKept, OnHeldEdges,
                    NEW r \in Robots, UnderWay(r), NEW p \in PlacesInside(r)
             PROVE  p \in Places /\ Holder[p] = r
  BY DEF InsideHeld
<1>1. ASSUME NEW k \in 0 .. route[r].n - 1, InEdge(r, k), p = <<"edge", route[r].edges[k]>>
      PROVE  p \in Places /\ Holder[p] = r
  <2>1. route[r].edges[k] \in Edges /\ edgeHolder[route[r].edges[k]] = r
    BY <1>1, InEdgeIsHeld
  <2>2. QED BY <1>1, <2>1, PlacesOfRoad, HolderOfPlace
<1>2. ASSUME NEW k \in 1 .. route[r].n - 1, InNode(r, k), p = <<"node", route[r].nodes[k]>>
      PROVE  p \in Places /\ Holder[p] = r
  <2>1. route[r].nodes[k] \in Nodes /\ nodeHolder[route[r].nodes[k]] = r
    BY <1>2, InNodeIsHeld
  <2>2. QED BY <1>2, <2>1, PlacesOfRoad, HolderOfPlace
<1>3. QED BY <1>1, <1>2 DEF PlacesInside

(* The invariant under which every step of Reservation is one of the road. *)
RoadInv ==
  /\ Typed /\ Permitted /\ Confirmed /\ TablesAgree /\ NodesKept /\ OnHeldEdges
  /\ InsideHeld

RoadStep == [Road!Next]_<<Holder, Entered>>

LEMMA RoadInit == Init => Road!Init
<1> SUFFICES ASSUME Init PROVE Road!Init
  OBVIOUS
<1>1. \A p \in Places : Holder[p] = NoRobot
  BY HolderByKind DEF Init
<1>2. Entered = {}
  BY InEntered DEF Init, UnderWay
<1>3. QED BY <1>1, <1>2, HolderOfPlace DEF Road!Init

(* Driving: a robot is moved into what it holds. *)
LEMMA RoadMove ==
  ASSUME RoadInv, RoadInv', NEW r \in Robots, Move(r)
  PROVE  RoadStep
<1>1. UnderWay(r) /\ UnderWay(r)'
  BY DEF Move, slotVars, UnderWay, Registered
<1>2. Holder' = Holder
  BY HolderStays DEF Move
<1>3. PlacesInside(r)' \in SUBSET Road!Of(r)
  BY <1>1, <1>2 DEF RoadInv, InsideHeld, Road!Of
<1>4. ASSUME NEW q \in Robots, q # r
      PROVE  (UnderWay(q)' <=> UnderWay(q)) /\ PlacesInside(q)' = PlacesInside(q)
  BY <1>4, InsideStays DEF Move, slotVars, RoadInv, Typed, TypeOK
<1>5. Entered' = {x \in Entered : x[1] # r} \cup ({r} \X PlacesInside(r)')
  BY <1>1, <1>4, InEntered
<1>6. Road!Drive(r, PlacesInside(r)')
  BY <1>2, <1>5 DEF Road!Drive
<1>7. QED BY <1>3, <1>6 DEF RoadStep, Road!Next

(* Letting go: nobody is inside what is let go, or it would hold it still. *)
LEMMA RoadStepBegin ==
  ASSUME RoadInv, RoadInv', NEW f \in [Robots -> 0 .. MaxEdges], StepBegin(f)
  PROVE  RoadStep
<1>1. Entered' = Entered
  BY EnteredStays DEF StepBegin, robotVars
<1>2. Holder' \in [Places -> Robots \cup {NoRobot}]
  BY HandsOnRoad DEF RoadInv
<1>3. \A p \in Places : Holder'[p] \in {NoRobot, Holder[p]}
  <2>1. \A e \in Edges : edgeHolder'[e] \in {NoRobot, edgeHolder[e]}
    BY DEF StepBegin
  <2>2. \A v \in Nodes : nodeHolder'[v] \in {NoRobot, nodeHolder[v]}
    BY DEF StepBegin
  <2>3. QED BY <2>1, <2>2, HolderByKind
<1>4. ASSUME NEW p \in Places, Holder'[p] # Holder[p], NEW r \in Robots
      PROVE  <<r, p>> \notin Entered
  <2>1. SUFFICES ASSUME <<r, p>> \in Entered' PROVE FALSE
    BY <1>1
  <2>2. UnderWay(r)' /\ p \in PlacesInside(r)'
    BY <2>1, InEntered
  <2>3. Holder'[p] = r
    BY <2>2 DEF RoadInv, InsideHeld
  <2>4. QED BY <1>3, <1>4, <2>3, NullAssumption
<1>5. Road!GiveUp
  BY <1>1, <1>2, <1>3, <1>4 DEF Road!GiveUp, Road!Hands, Road!Passed, Road!Inside
<1>6. QED BY <1>5 DEF RoadStep, Road!Next

(* Taking: what a robot takes was nobody's. *)
LEMMA RoadTryAcquire ==
  ASSUME RoadInv, RoadInv', NEW r \in Robots, NEW m \in 0 .. MaxEdges, TryAcquire(r, m)
  PROVE  RoadStep
<1>1. Entered' = Entered
  BY EnteredStays DEF TryAcquire, robotVars
<1>2. Holder' \in [Places -> Robots \cup {NoRobot}]
  BY HandsOnRoad DEF RoadInv
<1>3. ASSUME NEW e \in Edges, edgeHolder'[e] # edgeHolder[e]
      PROVE  edgeHolder[e] = NoRobot /\ edgeHolder'[e] = r
  BY <1>3 DEF TryAcquire, Acquires, Takeable, FreeFor
<1>4. ASSUME NEW v \in Nodes, nodeHolder'[v] # nodeHolder[v]
      PROVE  nodeHolder[v] = NoRobot /\ nodeHolder'[v] = r
  BY <1>4 DEF TryAcquire, Acquires, Takeable, FreeFor
<1>5. \A p \in Places : Holder'[p] # Holder[p] => Holder[p] = NoRobot /\ Holder'[p] = r
  BY <1>3, <1>4, HolderByKind
<1>6. Road!Take(r)
  BY <1>1, <1>2, <1>5 DEF Road!Take, Road!Hands, Road!Passed
<1>7. QED BY <1>6 DEF RoadStep, Road!Next

(* Setting out: a robot that is not under way is inside nothing, and what  *)
(* it held is free again but for the place it starts from.                 *)
LEMMA RoadAssign ==
  ASSUME "reassign" \notin Allowed,
         RoadInv, RoadInv', NEW r \in Robots, NEW rt \in RoutesOf[r], Assign(r, rt)
  PROVE  RoadStep
<1> DEFINE start == <<"node", rt.nodes[0]>>
<1>1. /\ rt \in Routes /\ rt.nodes[0] \in Nodes /\ rt.n \in Nat /\ rt.n > 0
  BY RouteAssumption, RouteNodes, RouteNumbers
<1>2. ~ UnderWay(r) /\ at'[r] = 0
  BY DEF Assign, StandsAtStart, UnderWay, RoadInv, Typed, TypeOK
<1>3. route'[r] = rt
  BY DEF Assign, Register, RoadInv, Typed, TypeOK
<1>4. PlacesInside(r)' = {}
  <2>1. ASSUME NEW k \in 0 .. rt.n - 1
        PROVE  ~ InEdge(r, k)' /\ ~ InNode(r, k)'
    <3>1. EdgeStart(rt, k) \in Nat
      BY <1>1, RouteEdges
    <3>2. ~ (EdgeStart(rt, k) < at'[r])
      BY <1>2, <3>1
    <3>3. QED BY <1>3, <3>2 DEF InEdge, InNode
  <2>2. QED BY <1>1, <1>3, <2>1 DEF PlacesInside
<1>5. ASSUME NEW q \in Robots, q # r
      PROVE  (UnderWay(q)' <=> UnderWay(q)) /\ PlacesInside(q)' = PlacesInside(q)
  <2>1. route'[q] = route[q] /\ finished'[q] = finished[q]
    BY <1>5 DEF Assign, Register, RoadInv, Typed, TypeOK
  <2>2. at'[q] = at[q]
    <3>1. at' = at \/ at' = [at EXCEPT ![r] = 0]
      BY AssignMoves
    <3>2. QED BY <1>5, <3>1 DEF RoadInv, Typed, TypeOK
  <2>3. QED BY <2>1, <2>2, InsideStays
<1>6. Entered' = Entered
  BY <1>2, <1>4, <1>5, InEntered
<1>7. Road!Inside(r) = {}
  BY <1>2, InEntered DEF Road!Inside
<1>8. \A e \in Edges : edgeHolder'[e] = IF edgeHolder[e] = r THEN NoRobot ELSE edgeHolder[e]
  BY DEF Assign, Register, Without, RoadInv, Typed, TypeOK
<1>9. ASSUME NEW v \in Nodes
      PROVE  nodeHolder'[v] = IF v = rt.nodes[0] /\ nodeHolder[v] \in {NoRobot, r} THEN r
                              ELSE IF nodeHolder[v] = r THEN NoRobot ELSE nodeHolder[v]
  <2> DEFINE free == Without(nodeHolder, r)
  <2>1. /\ DOMAIN free = Nodes
        /\ \A w \in Nodes : free[w] = IF nodeHolder[w] = r THEN NoRobot ELSE nodeHolder[w]
    BY DEF Without, RoadInv, Typed, TypeOK
  <2>2. nodeHolder' = IF free[rt.nodes[0]] = NoRobot
                      THEN [free EXCEPT ![rt.nodes[0]] = r] ELSE free
    BY DEF Assign, Register
  <2> HIDE DEF free
  <2>3. QED BY <1>1, <2>1, <2>2, NullAssumption
<1>10. start \in Places
  BY <1>1, PlacesOfRoad
<1>11. ASSUME NEW p \in Places
       PROVE  Holder'[p] = IF p = start /\ Holder[p] \in {NoRobot, r} THEN r
                           ELSE IF Holder[p] = r THEN NoRobot ELSE Holder[p]
  <2>1. ASSUME NEW e \in Edges, p = <<"edge", e>>,
               Holder[p] = edgeHolder[e], Holder'[p] = edgeHolder'[e]
        PROVE  p # start /\ Holder'[p] = IF Holder[p] = r THEN NoRobot ELSE Holder[p]
    BY <1>8, <2>1
  <2>2. ASSUME NEW v \in Nodes, p = <<"node", v>>,
               Holder[p] = nodeHolder[v], Holder'[p] = nodeHolder'[v]
        PROVE  /\ p = start <=> v = rt.nodes[0]
               /\ Holder'[p] = IF v = rt.nodes[0] /\ Holder[p] \in {NoRobot, r} THEN r
                               ELSE IF Holder[p] = r THEN NoRobot ELSE Holder[p]
    BY <1>9, <2>2
  <2> HIDE DEF start
  <2>3. QED BY <2>1, <2>2, HolderByKind
<1> HIDE DEF start
<1>12. Road!SetOut(r, start)
  BY <1>6, <1>7, <1>11, HolderOfPlace DEF Road!SetOut
<1>13. QED BY <1>10, <1>12 DEF RoadStep, Road!Next

(* Arriving: the robot is under way no more, and keeps its goal, which it  *)
(* holds already.                                                          *)
LEMMA RoadArrived ==
  ASSUME RoadInv, RoadInv', NEW r \in Robots, StatusArrivedAccepted(r)
  PROVE  RoadStep
<1> DEFINE keep == <<"node", Goal(route[r])>>
<1>1. nodeHolder[Goal(route[r])] = r /\ Goal(route[r]) \in Nodes
  BY ArrivedHoldsGoal, SlotNumbers, RouteNodes
  DEF StatusArrivedAccepted, UnderWay, Registered, RoadInv
<1>2. UNCHANGED <<route, at>> /\ finished' = [finished EXCEPT ![r] = TRUE]
  BY DEF StatusArrivedAccepted, robotVars
<1>3. ~ UnderWay(r)'
  BY <1>2 DEF UnderWay, RoadInv, Typed, TypeOK
<1>4. ASSUME NEW q \in Robots, q # r
      PROVE  (UnderWay(q)' <=> UnderWay(q)) /\ PlacesInside(q)' = PlacesInside(q)
  BY <1>2, <1>4, InsideStays DEF RoadInv, Typed, TypeOK
<1>5. Entered' = {x \in Entered : x[1] # r}
  BY <1>3, <1>4, InEntered
<1>6. \A e \in Edges : edgeHolder'[e] = IF edgeHolder[e] = r THEN NoRobot ELSE edgeHolder[e]
  BY DEF StatusArrivedAccepted, Without, RoadInv, Typed, TypeOK
<1>7. \A v \in Nodes : nodeHolder'[v] = IF nodeHolder[v] = r /\ v # Goal(route[r]) THEN NoRobot
                                        ELSE nodeHolder[v]
  BY <1>1 DEF StatusArrivedAccepted, Without, RoadInv, Typed, TypeOK
<1>8. keep \in Places
  BY <1>1, PlacesOfRoad
<1>9. ASSUME NEW p \in Places
      PROVE  Holder'[p] = IF Holder[p] = r /\ p # keep THEN NoRobot ELSE Holder[p]
  <2>1. ASSUME NEW e \in Edges, p = <<"edge", e>>,
               Holder[p] = edgeHolder[e], Holder'[p] = edgeHolder'[e]
        PROVE  p # keep /\ Holder'[p] = IF Holder[p] = r THEN NoRobot ELSE Holder[p]
    BY <1>6, <2>1
  <2>2. ASSUME NEW v \in Nodes, p = <<"node", v>>,
               Holder[p] = nodeHolder[v], Holder'[p] = nodeHolder'[v]
        PROVE  /\ p = keep <=> v = Goal(route[r])
               /\ Holder'[p] = IF Holder[p] = r /\ v # Goal(route[r]) THEN NoRobot ELSE Holder[p]
    BY <1>7, <2>2
  <2> HIDE DEF keep
  <2>3. QED BY <2>1, <2>2, HolderByKind
<1> HIDE DEF keep
<1>10. Road!Park(r, keep)
  BY <1>5, <1>9, HolderOfPlace DEF Road!Park
<1>11. QED BY <1>8, <1>10 DEF RoadStep, Road!Next

LEMMA RoadNext ==
  ASSUME "reassign" \notin Allowed
  PROVE  RoadInv /\ RoadInv' /\ [Next]_vars => RoadStep
<1> SUFFICES ASSUME RoadInv, RoadInv', [Next]_vars PROVE RoadStep
  OBVIOUS
<1>1. CASE UNCHANGED <<route, finished, at, tableVars>>
  BY <1>1, EnteredStays, HolderStays DEF RoadStep
<1>2. CASE Tick
  BY <1>1, <1>2, RoadStepBegin, RoadTryAcquire
  DEF Tick, TickBegin, PoseStale, PoseFresh, TickPaused, NothingToAcquire, TickEnd,
      slotVars, robotVars
<1>3. ASSUME NEW r \in Robots, Handler(r) \/ Clearance(r) \/ Move(r)
      PROVE  RoadStep
  BY <1>1, <1>3, RoadAssign, RoadArrived, RoadMove
  DEF Handler, StatusDriving, StatusJunctionStop, StatusArrived, Clearance, slotVars, robotVars
<1>4. CASE UNCHANGED vars
  BY <1>1, <1>4 DEF vars, slotVars, robotVars
<1>5. QED BY <1>2, <1>3, <1>4 DEF Next

(* Unless a robot under way is assigned anew, the reservations implement   *)
(* the interlocking of the road: in every step of the coordinator, of an   *)
(* agent or of a robot, what changes hands was free or has been left, and  *)
(* a robot that moves is inside what it holds.                             *)
THEOREM ReservationInterlocks ==
  ASSUME "reassign" \notin Allowed
  PROVE  Spec => Interlocked
<1>1. Spec => []RoadInv
  BY AlwaysOnHeldEdges, InsideIsHeld, PTL DEF RoadInv
<1>2. RoadInv /\ RoadInv' /\ [Next]_vars => [Road!Next]_<<Holder, Entered>>
  BY RoadNext DEF RoadStep
<1>3. QED BY <1>1, <1>2, RoadInit, PTL DEF Spec, Interlocked, Road!Spec

(* An interlocking keeps its robots apart: what it promises of a place is  *)
(* enough for any two robots never to be inside the same one.              *)
THEOREM InterlockingExcludes == Interlocked => []Road!Apart
<1> DEFINE OwnPlaces == \A x \in Entered : /\ x = <<x[1], x[2]>> /\ x[1] \in Robots
                                           /\ x[2] \in Places /\ Holder[x[2]] = x[1]
<1>1. Road!Init => OwnPlaces
  BY DEF Road!Init
<1>2. OwnPlaces /\ [Road!Next]_<<Holder, Entered>> => OwnPlaces'
  <2> SUFFICES ASSUME OwnPlaces, [Road!Next]_<<Holder, Entered>> PROVE OwnPlaces'
    OBVIOUS
  <2>1. CASE Road!GiveUp
    BY <2>1 DEF Road!GiveUp, Road!Passed, Road!Inside
  <2>2. ASSUME NEW r \in Robots, Road!Take(r)
        PROVE  OwnPlaces'
    BY <2>2, NullAssumption DEF Road!Take, Road!Passed
  <2>3. ASSUME NEW r \in Robots, NEW S \in SUBSET Road!Of(r), Road!Drive(r, S)
        PROVE  OwnPlaces'
    BY <2>3 DEF Road!Drive, Road!Of
  <2>4. ASSUME NEW r \in Robots, NEW p \in Places, Road!Park(r, p)
        PROVE  OwnPlaces'
    BY <2>4 DEF Road!Park
  <2>5. ASSUME NEW r \in Robots, NEW p \in Places, Road!SetOut(r, p)
        PROVE  OwnPlaces'
    BY <2>5, NullAssumption DEF Road!SetOut, Road!Inside
  <2>6. CASE UNCHANGED <<Holder, Entered>>
    BY <2>6
  <2>7. QED BY <2>1, <2>2, <2>3, <2>4, <2>5, <2>6 DEF Road!Next
<1>3. OwnPlaces => Road!Apart
  BY DEF Road!Apart, Road!Inside
<1>4. QED BY <1>1, <1>2, <1>3, PTL DEF Interlocked, Road!Spec

=============================================================================
