------------------------- MODULE JunctionTokenProofs -------------------------
(***************************************************************************)
(* The right of way is exclusive and the stop lines differ, for any number *)
(* of robots, scenarios and stop lines.                                    *)
(***************************************************************************)
EXTENDS JunctionToken, TLAPS, FiniteSetTheorems, SequenceTheorems, WellFoundedInduction

----------------------------------------------------------------------------
(* The inductive invariant.                                                *)

Typed ==
    /\ TypeOK
    /\ status \in [Robots -> {NoMessage} \cup Status]
    /\ command \in [Robots -> {NoMessage} \cup Clearance]
    /\ grant_order \in Seq(Robots)

\* A report, or a command, of the scenario that runs.
Said(r) == status[r] # NoMessage /\ status[r].seq = run
Told(r) == command[r] # NoMessage /\ command[r].seq = run

\* The robot may go in, or did: the arbiter does not take that back.
LetIn(r) == r \in passed \/ (r = holder /\ r \in locked)

\* No number is ahead of the scenario that runs.
NotAhead ==
    \A r \in Robots :
        /\ seq[r] <= run
        /\ status[r] # NoMessage => status[r].seq <= run
        /\ command[r] # NoMessage => command[r].seq <= run

\* Who is through the junction is, and a report that says so is true.
Through(r) == phase[r] \in {"after", "arrived"}

HonestReports ==
    \A r \in Robots :
        /\ seq[r] # run => phase[r] = "approach"
        /\ Said(r) =>
             /\ status[r].state = "CRUISE" /\ status[r].stage = "after_junction"
                  => Through(r)
             /\ status[r].state = "ARRIVED" => phase[r] = "arrived"
        /\ r \in passed => Through(r)

\* A robot waits, holds the right of way, or is through: one of them.  One that
\* was heard standing at the entrance is not forgotten.
Ledger ==
    /\ Waiting \cap (passed \cup {holder}) = {}
    /\ holder \notin passed /\ locked \subseteq {holder}
    /\ stood \subseteq Robots
    /\ \A r \in stood : r \in Waiting \/ LetIn(r)

\* A clearance that answers a stop, in flight or heard, was given to a robot that
\* is let in; no older one comes after it.
Answers ==
    \A r \in Robots :
        /\ Told(r) /\ command[r].answers => r \in stood
        /\ Told(r) /\ command[r].answers /\ command[r].clear = 1 => LetIn(r)
        /\ seq[r] = run /\ r \in answered =>
             /\ r \in stood
             /\ clear[r] = 1 => LetIn(r)
             /\ Told(r) => command[r].answers

InsideIsLetIn == \A r \in Robots : InJunction(r) => r = holder /\ r \in locked

TokenInv ==
    Typed /\ NotAhead /\ HonestReports /\ Ledger /\ Answers /\ InsideIsLetIn

\* The grants that stand are the holder's, the last, and those of the robots that
\* are through; the n-th has the n-th stop line.
GrantsInOrder ==
    /\ IsInjective(grant_order)
    /\ ToSet(grant_order) = passed \cup ({holder} \cap Robots)
    /\ holder # NoRobot => grant_order # << >> /\ Last(grant_order) = holder
    /\ \A i \in DOMAIN grant_order : stop_lines[grant_order[i]] = LinesByOrder[i]

----------------------------------------------------------------------------
(* Operators. *)

(* A set of numbers has a least one. *)
LEMMA LeastNumber ==
  ASSUME NEW S \in SUBSET Nat, S # {}
  PROVE  \E m \in S : \A x \in S : m <= x
<1>1. PICK m \in S : \A x \in S : ~ (<<x, m>> \in OpToRel(<, Nat))
  BY NatLessThanWellFounded, WFMin
<1>2. ASSUME NEW x \in S
      PROVE  m <= x
  <2>1. m \in Nat /\ x \in Nat
    OBVIOUS
  <2>2. ~ (<<x, m>> \in OpToRel(<, Nat))
    BY <1>1
  <2>3. ~ (x < m)
    BY <2>1, <2>2 DEF OpToRel
  <2>4. QED BY <2>1, <2>3
<1>3. QED BY <1>2

(* One of any robots comes first by its domain. *)
LEMMA FirstByDomainIn ==
  ASSUME NEW S \in SUBSET Robots, S # {}
  PROVE  FirstByDomain(S) \in S
<1> DEFINE D == {DomainId[r] : r \in S}
<1>1. D \in SUBSET Nat /\ D # {}
  BY TokenAssumption
<1>2. PICK m \in D : \A x \in D : m <= x
  BY <1>1, LeastNumber
<1>3. PICK r \in S : m = DomainId[r]
  BY <1>2
<1>4. \A q \in S : DomainId[r] <= DomainId[q]
  BY <1>2, <1>3
<1>5. QED BY <1>3, <1>4 DEF FirstByDomain

(* The oldest of the requests of some robots. *)
LEMMA OldestFacts ==
  ASSUME requests \in [Robots -> {NoRequest} \cup 0..AgeMax],
         NEW S \in SUBSET Robots
  PROVE  /\ Oldest(S) \in {NoRequest} \cup 0..AgeMax
         /\ \A r \in S : requests[r] <= Oldest(S)
         /\ S \cap Waiting # {} => \E r \in S : requests[r] = Oldest(S)
<1> DEFINE T == {NoRequest} \cup {requests[r] : r \in S}
           N == {AgeMax - t : t \in T}
<1>1. AgeMax \in Nat /\ AgeMax > 0
  BY TokenAssumption DEF AgeMax
<1>2. T \subseteq {NoRequest} \cup 0..AgeMax
  OBVIOUS
<1>3. \A t \in T : t \in Int /\ t <= AgeMax /\ t >= -1
  BY <1>1, <1>2 DEF NoRequest
<1>4. N \in SUBSET Nat /\ N # {}
  BY <1>1, <1>3
<1>5. PICK m \in N : \A x \in N : m <= x
  BY <1>4, LeastNumber
<1>6. PICK t \in T : m = AgeMax - t
  BY <1>5
<1>7. ASSUME NEW x \in T
      PROVE  t >= x
  <2>1. m <= AgeMax - x
    BY <1>5
  <2>2. x \in Int /\ t \in Int
    BY <1>3
  <2>3. QED BY <1>1, <1>6, <2>1, <2>2
<1>8. Oldest(S) = Max(T)
  BY DEF Oldest
<1>9. Max(T) \in T /\ \A x \in T : Max(T) >= x
  BY <1>6, <1>7 DEF Max
<1> HIDE DEF N
<1>10. \A r \in S : requests[r] <= Oldest(S)
  BY <1>3, <1>8, <1>9
<1>11. ASSUME NEW w \in S \cap Waiting
       PROVE  \E r \in S : requests[r] = Oldest(S)
  <2>1. requests[w] >= 0
    BY <1>1 DEF Waiting, NoRequest
  <2>2. Oldest(S) >= 0
    BY <1>3, <1>8, <1>9, <1>10, <2>1
  <2>3. Oldest(S) \in T
    BY <1>8, <1>9, Zenon
  <2> HIDE DEF T
  <2>4. Oldest(S) # NoRequest
    BY <2>2 DEF NoRequest
  <2> USE DEF T
  <2>5. QED BY <2>3, <2>4
<1>12. QED BY <1>2, <1>8, <1>9, <1>10, <1>11

(* Requests get older together, those of other robots are gone. *)
LEMMA AgedFacts ==
  ASSUME requests \in [Robots -> {NoRequest} \cup 0..AgeMax],
         NEW S \in SUBSET Waiting
  PROVE  /\ Aged(S) \in [Robots -> {NoRequest} \cup 0..AgeMax]
         /\ \A r \in Robots : Aged(S)[r] # NoRequest <=> r \in S
<1>1. AgeMax \in Nat
  BY TokenAssumption DEF AgeMax
<1>2. S \subseteq Robots /\ Waiting \in SUBSET Robots
  BY DEF Waiting
<1> DEFINE older == IF Oldest(Waiting) < AgeMax THEN 1 ELSE 0
<1>3. /\ Oldest(Waiting) \in {NoRequest} \cup 0..AgeMax
      /\ \A r \in Waiting : requests[r] <= Oldest(Waiting)
  BY <1>2, OldestFacts
<1>4. \A r \in S : requests[r] \in 0..AgeMax
  BY DEF Waiting
<1>5. ASSUME NEW r \in S
      PROVE  requests[r] + older \in 0..AgeMax /\ requests[r] + older # NoRequest
  <2>1. requests[r] \in 0..AgeMax /\ requests[r] <= Oldest(Waiting)
    BY <1>3, <1>4
  <2>2. QED BY <1>1, <1>3, <2>1 DEF NoRequest
<1>6. Aged(S) = [r \in Robots |-> IF r \in S THEN requests[r] + older ELSE NoRequest]
  BY DEF Aged
<1> HIDE DEF older
<1>7. QED BY <1>2, <1>5, <1>6

(* Whom the distances single out is one of those measured. *)
LEMMA PicksIn ==
  ASSUME NEW near, DOMAIN near \subseteq Robots
  PROVE  Picks(near) \subseteq DOMAIN near
<1> DEFINE least == Min({near[r] : r \in DOMAIN near})
           tied == {r \in DOMAIN near : near[r] <= least + TieDistance}
           first == {r \in tied : requests[r] = Oldest(tied)}
<1>1. Picks(near) = IF first \subseteq Waiting THEN first ELSE {FirstByDomain(first)}
  BY DEF Picks
<1>2. first \subseteq DOMAIN near
  OBVIOUS
<1> HIDE DEF first
<1>3. ~ (first \subseteq Waiting) => FirstByDomain(first) \in first
  BY <1>2, FirstByDomainIn
<1>4. QED BY <1>1, <1>2, <1>3

(* Who stood first waits. *)
LEMMA FirstStoppedWaits ==
  ASSUME requests \in [Robots -> {NoRequest} \cup 0..AgeMax], Waiting # {}
  PROVE  FirstStopped \in Waiting
<1> DEFINE S == {r \in Waiting : requests[r] >= Oldest(Waiting) - TieWindow}
<1>1. Waiting \in SUBSET Robots /\ Waiting \cap Waiting # {}
  BY DEF Waiting
<1>2. Oldest(Waiting) \in {NoRequest} \cup 0..AgeMax
  BY <1>1, OldestFacts
<1>3. PICK r \in Waiting : requests[r] = Oldest(Waiting)
  BY <1>1, OldestFacts
<1>4. Oldest(Waiting) \in Int /\ TieWindow \in Nat
  BY <1>2, TokenAssumption DEF NoRequest, AgeMax
<1>5. Oldest(Waiting) >= Oldest(Waiting) - TieWindow
  BY <1>4
<1>6. S # {} /\ S \in SUBSET Robots
  BY <1>1, <1>3, <1>5
<1>7. FirstByDomain(S) \in S
  BY <1>6, FirstByDomainIn
<1>8. QED BY <1>7 DEF FirstStopped

(* How many numbers 1 .. n holds. *)
LEMMA CountTo ==
  ASSUME NEW n \in Nat
  PROVE  IsFiniteSet(1 .. n) /\ Cardinality(1 .. n) = n
<1>1. 1 \in Int /\ n \in Int
  OBVIOUS
<1>2. IsFiniteSet(1 .. n) /\ Cardinality(1 .. n) = IF 1 > n THEN 0 ELSE n - 1 + 1
  BY ONLY <1>1, FS_Interval, Zenon
<1>3. (IF 1 > n THEN 0 ELSE n - 1 + 1) = n
  OBVIOUS
<1>4. QED BY <1>2, <1>3

(* A list without repetition of some robots is no longer than there are robots. *)
LEMMA NoRepetition ==
  ASSUME NEW S \in SUBSET Robots, NEW s \in Seq(S), IsInjective(s)
  PROVE  Len(s) <= Cardinality(Robots)
<1>1. s \in [1 .. Len(s) -> Robots]
  OBVIOUS
<1>2. s \in Injection(1 .. Len(s), Robots)
  BY <1>1 DEF Injection, IsInjective
<1>3. Cardinality(1 .. Len(s)) <= Cardinality(Robots)
  BY <1>2, FS_Injection, TokenAssumption
<1>4. Len(s) \in Nat /\ Cardinality(1 .. Len(s)) = Len(s)
  BY CountTo
<1>5. QED BY <1>3, <1>4

(* The last grant is taken back: the others keep their places. *)
LEMMA WithdrawnFacts ==
  ASSUME NEW order \in Seq(Robots), IsInjective(order), order # << >>
  PROVE  Withdrawn(order, Last(order)) = SubSeq(order, 1, Len(order) - 1)
<1> DEFINE n == Len(order)
           I == {i \in 1..n : order[i] = order[n]}
<1>1. n \in Nat /\ n > 0 /\ DOMAIN order = 1..n
  OBVIOUS
<1>2. I = {n}
  BY <1>1 DEF IsInjective
<1>3. Min(I) = n
  BY <1>1, <1>2 DEF Min
<1>4. SelectInSeq(order, LAMBDA v : v = order[n]) = n
  BY <1>2, <1>3 DEF SelectInSeq
<1>5. Withdrawn(order, Last(order)) = RemoveAt(order, n)
  <2>1. \E i \in 1..Len(order) : order[i] = Last(order)
    BY <1>1 DEF Last
  <2>2. Withdrawn(order, Last(order))
          = RemoveAt(order, SelectInSeq(order, LAMBDA v : v = Last(order)))
    BY <2>1 DEF Withdrawn, RemoveFirst
  <2>3. SelectInSeq(order, LAMBDA v : v = Last(order)) = n
    BY <1>4 DEF Last
  <2>4. QED BY <2>2, <2>3
<1>6. SubSeq(order, n + 1, n) = << >>
  BY <1>1
<1>7. SubSeq(order, 1, n - 1) \in Seq(Robots)
  BY <1>1
<1>8. SubSeq(order, 1, n - 1) \o << >> = SubSeq(order, 1, n - 1)
  BY <1>7
<1>9. QED BY <1>5, <1>6, <1>8 DEF RemoveAt

LEMMA MinOfTwo ==
  ASSUME NEW a \in Nat, NEW b \in Nat, a <= b
  PROVE  Min({a, b}) = a
BY DEF Min

----------------------------------------------------------------------------
(* The grants. *)

(* A tick grants nothing, or it grants to a robot that is not through and not the *)
(* holder: with nobody holding, or away from a holder that has not stood.         *)
GrantsTo(r) ==
    \/ holder = NoRobot /\ Grant(r, grant_order)
    \/ holder \in Robots \ locked /\ Grant(r, Withdrawn(grant_order, holder))

LEMMA TickOutcome ==
  ASSUME Typed, Ledger, LoopTick
  PROVE  NoGrant \/ \E r \in Robots \ (passed \cup {holder}) : GrantsTo(r)
<1>1. PICK seen \in SUBSET Robots : Assigns([r \in seen |-> Distance(r)])
  <2>1. OnTheirWay \in SUBSET Robots
    BY DEF OnTheirWay, Typed, TypeOK
  <2>2. QED BY <2>1 DEF LoopTick
<1> DEFINE measured == [r \in seen |-> Distance(r)]
           far == [r \in DOMAIN measured \ passed |-> measured[r]]
           near == [r \in Waiting \cup DOMAIN far |->
                      IF r \in Waiting THEN 0 ELSE far[r]]
<1>2. DOMAIN near \subseteq Robots \ passed
  <2>1. DOMAIN far = seen \ passed
    OBVIOUS
  <2>2. DOMAIN near = Waiting \cup DOMAIN far
    OBVIOUS
  <2>3. Waiting \in SUBSET Robots /\ Waiting \cap passed = {}
    BY DEF Waiting, Ledger
  <2>4. QED BY <2>1, <2>2, <2>3
<1>3. Picks(near) \subseteq Robots \ passed
  BY <1>2, PicksIn
<1>4. requests \in [Robots -> {NoRequest} \cup 0..AgeMax] /\ NoRobot \notin Robots
      /\ holder \in Robots \cup {NoRobot}
  BY TokenAssumption DEF Typed, TypeOK
<1>5. \/ /\ holder = NoRobot
         /\ \E best \in Picks(near) : Grant(best, grant_order)
      \/ /\ holder \notin locked /\ holder # NoRobot
         /\ \E best \in Picks(near) :
              best # holder /\ Grant(best, Withdrawn(grant_order, holder))
      \/ holder = NoRobot /\ Waiting # {} /\ Grant(FirstStopped, grant_order)
      \/ NoGrant
  BY <1>1, Zenon DEF Assigns
<1>6. Waiting # {} => FirstStopped \in Robots \ passed
  <2>1. Waiting # {} => FirstStopped \in Waiting
    BY <1>4, FirstStoppedWaits
  <2>2. QED BY <2>1 DEF Ledger, Waiting
<1>7. QED BY <1>3, <1>4, <1>5, <1>6 DEF GrantsTo

(* The order a grant is appended to: the robots that are through. *)
LEMMA OrderBefore ==
  ASSUME Typed, Ledger, GrantsInOrder, NEW order,
         \/ holder = NoRobot /\ order = grant_order
         \/ holder \in Robots /\ order = Withdrawn(grant_order, holder)
  PROVE  /\ order \in Seq(Robots) /\ IsInjective(order) /\ ToSet(order) = passed
         /\ \A i \in 1..Len(order) : stop_lines[order[i]] = LinesByOrder[i]
<1>1. /\ grant_order \in Seq(Robots) /\ NoRobot \notin Robots /\ passed \subseteq Robots
      /\ holder \notin passed
      /\ DOMAIN grant_order = 1..Len(grant_order) /\ Len(grant_order) \in Nat
  BY TokenAssumption DEF Typed, TypeOK, Ledger
<1>2. /\ IsInjective(grant_order) /\ ToSet(grant_order) = passed \cup ({holder} \cap Robots)
      /\ \A i \in 1..Len(grant_order) : stop_lines[grant_order[i]] = LinesByOrder[i]
  BY <1>1 DEF GrantsInOrder
<1>3. CASE holder = NoRobot /\ order = grant_order
  BY <1>1, <1>2, <1>3
<1>4. CASE holder \in Robots /\ order = Withdrawn(grant_order, holder)
  <2> DEFINE n == Len(grant_order)
  <2>1. grant_order # << >> /\ Last(grant_order) = holder
    BY <1>1, <1>4 DEF GrantsInOrder
  <2>2. order = SubSeq(grant_order, 1, n - 1)
    BY <1>1, <1>2, <1>4, <2>1, WithdrawnFacts
  <2>3. n > 0 /\ grant_order[n] = holder
    BY <1>1, <2>1 DEF Last
  <2>4. /\ order \in Seq(Robots) /\ Len(order) = n - 1 /\ DOMAIN order = 1..(n - 1)
        /\ \A i \in 1..(n - 1) : order[i] = grant_order[i]
    <3>1. n - 1 \in Int /\ 1 \in Int /\ \A i \in 1..(n - 1) : i \in 1..n
      BY <1>1
    <3>2. \A i \in 1..(n - 1) : grant_order[i] \in Robots
      BY <1>1, <3>1
    <3>3. /\ order \in Seq(Robots)
          /\ Len(order) = IF 1 <= n - 1 THEN (n - 1) - 1 + 1 ELSE 0
          /\ \A i \in 1 .. (n - 1) - 1 + 1 : order[i] = grant_order[1 + i - 1]
      BY <2>2, <3>1, <3>2, SubSeqProperties
    <3>4. n \in Nat /\ n > 0
      BY <1>1, <2>3
    <3> HIDE DEF n
    <3>5. Len(order) = n - 1
      BY <3>3, <3>4
    <3>6. \A i \in 1..(n - 1) : order[i] = grant_order[i]
      <4> SUFFICES ASSUME NEW i \in 1..(n - 1) PROVE order[i] = grant_order[i]
        OBVIOUS
      <4>1. i \in 1 .. (n - 1) - 1 + 1 /\ 1 + i - 1 = i
        BY <3>4
      <4>2. QED BY <3>3, <4>1
    <3>7. QED BY <3>3, <3>5, <3>6
  <2>5. IsInjective(order)
    BY <1>1, <1>2, <2>4 DEF IsInjective
  <2>6. \A i \in 1..(n - 1) : order[i] # holder
    BY <1>1, <1>2, <2>3, <2>4 DEF IsInjective
  <2>7. \A x : x \in ToSet(order) <=> \E i \in 1..(n - 1) : order[i] = x
    BY <2>4 DEF ToSet
  <2>8. \A x : x \in ToSet(grant_order) <=> \E i \in 1..n : grant_order[i] = x
    BY <1>1 DEF ToSet
  <2>9. ToSet(order) \subseteq passed
    BY <1>1, <1>2, <2>3, <2>4, <2>6, <2>7, <2>8
  <2>10. passed \subseteq ToSet(order)
    <3> SUFFICES ASSUME NEW x \in passed PROVE x \in ToSet(order)
      OBVIOUS
    <3>1. PICK i \in 1..n : grant_order[i] = x
      BY <1>2, <2>8
    <3>2. i # n
      BY <1>1, <2>3, <3>1
    <3>3. i \in 1..(n - 1)
      BY <2>3, <3>2
    <3>4. QED BY <2>4, <2>7, <3>1, <3>3
  <2>11. ASSUME NEW i \in 1..Len(order)
         PROVE  stop_lines[order[i]] = LinesByOrder[i]
    <3>1. i \in 1..n /\ order[i] = grant_order[i]
      BY <1>1, <2>4
    <3>2. QED BY <1>2, <3>1
  <2>12. ToSet(order) = passed
    BY <2>9, <2>10
  <2>13. QED BY <2>4, <2>5, <2>11, <2>12
<1>5. QED BY <1>3, <1>4

LEMMA GrantKeepsOrder ==
  ASSUME Typed, Ledger, GrantsInOrder,
         NEW r \in Robots \ (passed \cup {holder}), GrantsTo(r), UNCHANGED passed
  PROVE  /\ GrantsInOrder' /\ grant_order' \in Seq(Robots)
         /\ stop_lines' \in [Robots -> {0} \cup ToSet(LinesByOrder)]
<1>1. PICK order : /\ \/ holder = NoRobot /\ order = grant_order
                      \/ holder \in Robots /\ order = Withdrawn(grant_order, holder)
                   /\ Grant(r, order)
  BY DEF GrantsTo
<1>2. /\ order \in Seq(Robots) /\ IsInjective(order) /\ ToSet(order) = passed
      /\ \A i \in 1..Len(order) : stop_lines[order[i]] = LinesByOrder[i]
  BY <1>1, OrderBefore
<1> DEFINE n == Len(order)
           longer == Append(order, r)
<1>3. n \in Nat /\ DOMAIN order = 1..n
  BY <1>2
<1>4. /\ longer \in Seq(Robots) /\ Len(longer) = n + 1 /\ DOMAIN longer = 1..(n + 1)
      /\ longer[n + 1] = r /\ \A i \in 1..n : longer[i] = order[i]
  BY <1>2
<1>5. \A i \in 1..n : order[i] # r
  BY <1>2, <1>3 DEF ToSet
<1>6. IsInjective(longer)
  BY <1>2, <1>3, <1>4, <1>5 DEF IsInjective
<1>7. ToSet(longer) = passed \cup {r}
  <2>1. \A x : x \in ToSet(longer) <=> \E i \in 1..(n + 1) : longer[i] = x
    BY <1>4 DEF ToSet
  <2>2. \A x : x \in passed <=> \E i \in 1..n : order[i] = x
    BY <1>2, <1>3 DEF ToSet
  <2>3. \A i \in 1..(n + 1) : i \in 1..n \/ i = n + 1
    BY <1>3
  <2>4. \A i \in 1..n : i \in 1..(n + 1)
    BY <1>3
  <2>5. n + 1 \in 1..(n + 1)
    BY <1>3
  <2>6. QED BY <1>4, <2>1, <2>2, <2>3, <2>4, <2>5
<1>8. n + 1 <= Len(LinesByOrder) /\ Len(LinesByOrder) \in Nat
  <2>1. n + 1 <= Cardinality(Robots)
    BY <1>3, <1>4, <1>6, NoRepetition
  <2>2. Cardinality(Robots) \in Nat
    BY TokenAssumption, FS_CardinalityType
  <2>3. Len(LinesByOrder) \in Nat /\ Len(LinesByOrder) >= Cardinality(Robots)
    BY TokenAssumption
  <2>4. QED BY <1>3, <2>1, <2>2, <2>3
<1>9. Min({n + 1, Len(LinesByOrder)}) = n + 1
  BY <1>3, <1>8, MinOfTwo
<1>10. /\ holder' = r /\ grant_order' = longer
       /\ stop_lines' = [stop_lines EXCEPT ![r] = LinesByOrder[n + 1]]
  BY <1>1, <1>9 DEF Grant
<1>11. stop_lines \in [Robots -> {0} \cup ToSet(LinesByOrder)]
  BY DEF Typed, TypeOK
<1>12. LinesByOrder[n + 1] \in ToSet(LinesByOrder)
  BY <1>3, <1>8, TokenAssumption DEF ToSet
<1>13. stop_lines' \in [Robots -> {0} \cup ToSet(LinesByOrder)]
  BY <1>10, <1>11, <1>12
<1>14. \A i \in DOMAIN grant_order' : stop_lines'[grant_order'[i]] = LinesByOrder[i]
  <2>1. ASSUME NEW i \in 1..n
        PROVE  stop_lines'[longer[i]] = LinesByOrder[i]
    BY <1>2, <1>4, <1>5, <1>10, <1>11, <2>1
  <2>2. stop_lines'[longer[n + 1]] = LinesByOrder[n + 1]
    BY <1>4, <1>10, <1>11
  <2>3. QED BY <1>3, <1>4, <1>10, <2>1, <2>2
<1>15. grant_order' # << >> /\ Last(grant_order') = holder'
  BY <1>3, <1>4, <1>10 DEF Last
<1>16. IsInjective(grant_order') /\ ToSet(grant_order') = (passed \cup ({holder} \cap Robots))'
  BY <1>6, <1>7, <1>10
<1>17. GrantsInOrder'
  BY <1>14, <1>15, <1>16 DEF GrantsInOrder
<1>18. QED BY <1>4, <1>10, <1>13, <1>17

----------------------------------------------------------------------------
(* Each step keeps the invariant. *)

LEMMA InitKeeps == Init => TokenInv /\ GrantsInOrder
<1> SUFFICES ASSUME Init PROVE TokenInv /\ GrantsInOrder
  OBVIOUS
<1> USE DEF Init, Everywhere
<1>1. MaxScenarios \in Nat /\ MaxScenarios > 0 /\ FarAway \in Nat /\ FarAway > 0
  BY TokenAssumption
<1>2. << >> \in Seq(Robots) /\ ToSet(<< >>) = {} /\ IsInjective(<< >>)
      /\ DOMAIN << >> = {}
  BY DEF ToSet, IsInjective
<1>3. Typed
  BY <1>1, <1>2 DEF Typed, TypeOK, Phases, Stages, Scenarios, Status, Clearance
<1>4. NotAhead
  BY DEF NotAhead
<1>5. HonestReports
  BY DEF HonestReports, Said
<1>6. Ledger
  BY TokenAssumption DEF Ledger, Waiting
<1>7. Answers
  BY DEF Answers, Told
<1>8. InsideIsLetIn
  BY DEF InsideIsLetIn, InJunction
<1>9. GrantsInOrder
  BY <1>2, TokenAssumption DEF GrantsInOrder
<1>10. QED BY <1>3, <1>4, <1>5, <1>6, <1>7, <1>8, <1>9 DEF TokenInv

LEMMA StartScenarioKeeps ==
  ASSUME TokenInv, StartScenario
  PROVE  (TokenInv /\ GrantsInOrder)'
<1> USE DEF StartScenario, Fresh, Everywhere, TokenInv, wireVars
<1>1. MaxScenarios \in Nat /\ MaxScenarios > 0 /\ FarAway \in Nat /\ FarAway > 0
  BY TokenAssumption
<1>2. << >> \in Seq(Robots) /\ ToSet(<< >>) = {} /\ IsInjective(<< >>)
      /\ DOMAIN << >> = {}
  BY DEF ToSet, IsInjective
<1>3. run \in Nat /\ run' = run + 1 /\ run' \in Scenarios
  BY <1>1 DEF Typed, TypeOK, Scenarios
<1>4. Typed'
  <2>1. gap' \in [Robots -> 0..FarAway]
    BY <1>1
  <2>2. phase' \in [Robots -> Phases] /\ stage' \in [Robots -> Stages]
    BY DEF Phases, Stages
  <2>3. /\ requests' \in [Robots -> {NoRequest} \cup 0..AgeMax]
        /\ stop_lines' \in [Robots -> {0} \cup ToSet(LinesByOrder)]
    OBVIOUS
  <2>4. QED BY <1>2, <1>3, <2>1, <2>2, <2>3 DEF Typed, TypeOK
<1>5. /\ \A r \in Robots : seq'[r] < run' /\ ~Said(r)' /\ ~Told(r)'
      /\ NotAhead'
  BY <1>3 DEF NotAhead, Said, Told, Typed, TypeOK, Status, Clearance, Scenarios
<1>6. HonestReports'
  BY <1>5 DEF HonestReports
<1>7. Ledger'
  BY TokenAssumption DEF Ledger, Waiting
<1>8. Answers'
  BY <1>5 DEF Answers
<1>9. InsideIsLetIn'
  BY DEF InsideIsLetIn, InJunction
<1>10. GrantsInOrder'
  BY <1>2, TokenAssumption DEF GrantsInOrder
<1>11. QED BY <1>4, <1>5, <1>6, <1>7, <1>8, <1>9, <1>10

(* A tick: what is granted is granted to a robot that waits or has not stood, and *)
(* every clearance sent says who holds the right of way now.                      *)
LEMMA LoopTickKeeps ==
  ASSUME TokenInv, GrantsInOrder, LoopTick
  PROVE  (TokenInv /\ GrantsInOrder)'
<1> USE DEF TokenInv
<1>1. /\ UNCHANGED <<robotVars, status, run, due, heardVars, passed>>
      /\ command' = [r \in Robots |-> [seq |-> run, clear |-> ClearanceOf(holder', r),
                                       answers |-> r \in stood]]
  BY DEF LoopTick
<1>2. requests \in [Robots -> {NoRequest} \cup 0..AgeMax] /\ Waiting \subseteq Robots
      /\ locked \subseteq Robots
  BY DEF Typed, TypeOK, Waiting
<1> DEFINE Granted(r) == /\ r \in Robots \ (passed \cup {holder})
                         /\ holder' = r /\ holder \notin locked
                         /\ Waiting' = Waiting \ {r}
                         /\ locked' = IF r \in Waiting THEN locked \cup {r} ELSE locked
           Nothing == UNCHANGED <<holder, locked, grant_order, stop_lines>> /\ Waiting' = Waiting
<1>3. \/ Nothing
      \/ \E r \in Robots : Granted(r)
  <2>1. CASE NoGrant
    BY <1>2, <2>1, AgedFacts DEF NoGrant, Waiting
  <2>2. ASSUME NEW r \in Robots \ (passed \cup {holder}), GrantsTo(r)
        PROVE  Granted(r)
    <3>1. holder \notin locked
      BY <2>2, TokenAssumption DEF GrantsTo, Ledger, Typed, TypeOK
    <3>2. /\ holder' = r /\ requests' = Aged(Waiting \ {r})
          /\ locked' = IF r \in Waiting THEN locked \cup {r} ELSE locked
      BY <2>2 DEF GrantsTo, Grant
    <3>3. Waiting' = Waiting \ {r}
      BY <1>2, <3>2, AgedFacts DEF Waiting
    <3>4. QED BY <2>2, <3>1, <3>2, <3>3
  <2>3. QED BY <2>1, <2>2, TickOutcome
<1>4. requests' \in [Robots -> {NoRequest} \cup 0..AgeMax]
  <2>1. CASE NoGrant
    BY <1>2, <2>1, AgedFacts DEF NoGrant
  <2>2. ASSUME NEW r \in Robots \ (passed \cup {holder}), GrantsTo(r)
        PROVE  requests' \in [Robots -> {NoRequest} \cup 0..AgeMax]
    BY <1>2, <2>2, AgedFacts DEF GrantsTo, Grant
  <2>3. QED BY <2>1, <2>2, TickOutcome
<1>5. /\ GrantsInOrder' /\ grant_order' \in Seq(Robots)
      /\ stop_lines' \in [Robots -> {0} \cup ToSet(LinesByOrder)]
  <2>1. CASE NoGrant
    BY <1>1, <2>1 DEF NoGrant, GrantsInOrder, Typed, TypeOK
  <2>2. ASSUME NEW r \in Robots \ (passed \cup {holder}), GrantsTo(r)
        PROVE  /\ GrantsInOrder' /\ grant_order' \in Seq(Robots)
               /\ stop_lines' \in [Robots -> {0} \cup ToSet(LinesByOrder)]
    BY <1>1, <2>2, GrantKeepsOrder
  <2>3. QED BY <2>1, <2>2, TickOutcome
<1> HIDE DEF TokenInv
<1> USE DEF robotVars, heardVars
<1>6. /\ holder' \in Robots \cup {NoRobot} /\ locked' \subseteq Robots
      /\ command' \in [Robots -> Clearance]
  <2>1. holder' \in Robots \cup {NoRobot} /\ locked' \subseteq Robots
    BY <1>2, <1>3 DEF TokenInv, Typed, TypeOK
  <2>2. run \in Scenarios
    BY DEF TokenInv, Typed, TypeOK
  <2>3. \A r \in Robots : ClearanceOf(holder', r) \in 0..1
    BY DEF ClearanceOf
  <2>4. QED BY <1>1, <2>1, <2>2, <2>3 DEF Clearance
<1>7. Typed'
  <2>1. ToSet(grant_order') \subseteq Robots /\ IsInjective(grant_order')
    BY <1>5 DEF GrantsInOrder, ToSet
  <2>2. QED BY <1>1, <1>4, <1>5, <1>6, <2>1 DEF TokenInv, Typed, TypeOK
<1>8. NotAhead'
  BY <1>1 DEF TokenInv, NotAhead, Typed, TypeOK, Scenarios
<1>9. HonestReports'
  BY <1>1 DEF TokenInv, HonestReports, Said, Through
<1>10. Ledger'
  BY <1>1, <1>3, TokenAssumption DEF TokenInv, Ledger, LetIn, Typed, TypeOK
<1>11. \A r \in Robots : LetIn(r) => LetIn(r)'
  BY <1>1, <1>3 DEF TokenInv, Ledger, LetIn
<1>12. Answers'
  <2>1. ASSUME NEW r \in Robots, r \in stood, ClearanceOf(holder', r) = 1
        PROVE  LetIn(r)'
    <3>1. r = holder' \/ r \in passed
      BY <2>1 DEF ClearanceOf
    <3>2. r \in Waiting \/ LetIn(r)
      BY <2>1 DEF TokenInv, Ledger
    <3>3. QED BY <1>1, <1>3, <1>11, <3>1, <3>2 DEF TokenInv, Ledger, LetIn
  <2>2. QED BY <1>1, <1>11, <2>1 DEF TokenInv, Answers, Told
<1>13. InsideIsLetIn'
  BY <1>1, <1>3 DEF TokenInv, InsideIsLetIn, InJunction
<1>14. QED BY <1>5, <1>7, <1>8, <1>9, <1>10, <1>12, <1>13 DEF TokenInv

(* A report: what it says of the robot is true, so what it gives back was done with, *)
(* and a robot heard standing waits, holds or is through.                            *)
LEMMA OnStatusKeeps ==
  ASSUME TokenInv, GrantsInOrder, NEW r \in Robots, OnStatus(r)
  PROVE  (TokenInv /\ GrantsInOrder)'
<1> DEFINE m == status[r]
<1>1. /\ m \in Status /\ status' = [status EXCEPT ![r] = NoMessage]
      /\ UNCHANGED <<robotVars, command, run, due, grant_order, stop_lines>>
  BY DEF OnStatus, TokenInv, Typed
<1> USE DEF robotVars, heardVars
<1>2. CASE m.seq # run
  <2>1. UNCHANGED <<heardVars, requests, holder, passed, locked>>
    BY <1>2 DEF OnStatus
  <2>2. Waiting' = Waiting
    BY <2>1 DEF Waiting
  <2>3. Typed'
    BY <1>1, <2>1 DEF TokenInv, Typed, TypeOK
  <2>4. NotAhead' /\ HonestReports'
    BY <1>1, <2>1 DEF TokenInv, Typed, NotAhead, HonestReports, Said, Through
  <2>5. Ledger' /\ Answers' /\ InsideIsLetIn' /\ GrantsInOrder'
    BY <1>1, <2>1, <2>2 DEF TokenInv, Ledger, Answers, InsideIsLetIn, GrantsInOrder,
                            LetIn, Told, InJunction
  <2>6. QED BY <2>3, <2>4, <2>5 DEF TokenInv
<1>3. CASE m.seq = run
  <2>1. /\ stage' = [stage EXCEPT ![r] = m.stage]
        /\ arrived' = arrived \cup {q \in {r} : m.state = "ARRIVED"}
        /\ stood' = stood \cup {q \in {r} : m.state = "JUNCTION_STOP"}
        /\ requests' = IF Asks(r, m) THEN [requests EXCEPT ![r] = 0] ELSE requests
        /\ holder' = IF GivesBack(r, m) THEN NoRobot ELSE holder
        /\ passed' = IF GivesBack(r, m) THEN passed \cup {r} ELSE passed
        /\ locked' = IF GivesBack(r, m) THEN locked \ {r}
                     ELSE IF Locks(r, m) THEN locked \cup {r} ELSE locked
    BY <1>3 DEF OnStatus
  <2>2. AgeMax \in Nat
    BY TokenAssumption DEF AgeMax
  <2>3. Waiting' = IF Asks(r, m) THEN Waiting \cup {r} ELSE Waiting
    BY <2>1 DEF Waiting, TokenInv, Typed, TypeOK, NoRequest
  <2>4. NoRobot \notin Robots
    BY TokenAssumption
  <2>5. GivesBack(r, m) => r = holder /\ Through(r)
    BY <1>1, <1>3 DEF GivesBack, TokenInv, HonestReports, Said, Through, OnStatus
  <2>6. Typed'
    <3>1. requests' \in [Robots -> {NoRequest} \cup 0..AgeMax]
      BY <2>1, <2>2 DEF TokenInv, Typed, TypeOK
    <3>2. stage' \in [Robots -> Stages]
      BY <1>1, <2>1 DEF TokenInv, Typed, TypeOK, Status
    <3>3. /\ arrived' \subseteq Robots /\ stood' \subseteq Robots
          /\ holder' \in Robots \cup {NoRobot} /\ locked' \subseteq Robots
          /\ passed' \subseteq Robots
      BY <2>1 DEF TokenInv, Typed, TypeOK
    <3>4. QED BY <1>1, <3>1, <3>2, <3>3 DEF TokenInv, Typed, TypeOK
  <2>7. NotAhead'
    BY <1>1 DEF TokenInv, Typed, NotAhead
  <2>8. HonestReports'
    BY <1>1, <2>1, <2>5 DEF TokenInv, Typed, HonestReports, Said, Through
  <2>9. \A q \in Robots : LetIn(q) => LetIn(q)'
    BY <2>1, <2>5 DEF TokenInv, Ledger, LetIn
  <2>10. Ledger'
    <3>1. Waiting' \cap (passed \cup {holder})' = {}
      BY <2>1, <2>3, <2>4 DEF TokenInv, Ledger, Asks, GivesBack, Waiting
    <3>2. holder' \notin passed' /\ locked' \subseteq {holder'} /\ stood' \subseteq Robots
      BY <2>1, <2>4, <2>5 DEF TokenInv, Typed, TypeOK, Ledger, Locks
    <3>3. ASSUME NEW q \in stood'
          PROVE  q \in Waiting' \/ LetIn(q)'
      <4>1. CASE q \in stood
        BY <2>3, <2>9, <4>1 DEF TokenInv, Ledger
      <4>2. CASE q = r /\ m.state = "JUNCTION_STOP"
        <5>1. r \in Waiting \/ r \in passed \/ r = holder \/ Asks(r, m)
          BY <4>2 DEF Asks
        <5>2. r = holder => LetIn(r)'
          BY <2>1, <4>2 DEF GivesBack, Locks, LetIn
        <5>3. r \in passed => LetIn(r)'
          BY <2>9 DEF LetIn
        <5>4. QED BY <2>3, <4>2, <5>1, <5>2, <5>3
      <4>3. QED BY <2>1, <4>1, <4>2
    <3>4. QED BY <3>1, <3>2, <3>3 DEF Ledger
  <2>11. Answers'
    BY <1>1, <2>1, <2>9 DEF TokenInv, Answers, Told
  <2>12. InsideIsLetIn'
    BY <1>1, <2>1, <2>5 DEF TokenInv, InsideIsLetIn, InJunction, Through
  <2>13. GrantsInOrder'
    BY <1>1, <2>1, <2>4, <2>5 DEF GrantsInOrder
  <2>14. QED BY <2>6, <2>7, <2>8, <2>10, <2>11, <2>12, <2>13 DEF TokenInv
<1>4. QED BY <1>2, <1>3

(* What leaves the arbiter alone keeps what is said of it alone. *)
LEMMA ArbiterKept ==
  ASSUME TokenInv, GrantsInOrder, UNCHANGED <<run, heardVars, arbiterVars, stop_lines>>
  PROVE  /\ Ledger' /\ GrantsInOrder'
         /\ \A r \in Robots : LetIn(r) => LetIn(r)'
BY DEF TokenInv, Ledger, GrantsInOrder, Waiting, LetIn, heardVars, arbiterVars

LEMMA DepartsKeeps ==
  ASSUME TokenInv, GrantsInOrder, NEW r \in Robots, Departs(r)
  PROVE  (TokenInv /\ GrantsInOrder)'
<1> USE DEF Departs, robotVars, wireVars
<1>1. Ledger' /\ GrantsInOrder' /\ \A q \in Robots : LetIn(q) => LetIn(q)'
  BY ArbiterKept
<1>2. Typed' /\ NotAhead'
  BY DEF TokenInv, Typed, TypeOK, NotAhead, heardVars, arbiterVars
<1>3. HonestReports' /\ InsideIsLetIn'
  BY DEF TokenInv, HonestReports, Said, Through, InsideIsLetIn, InJunction, arbiterVars
<1>4. Answers'
  BY <1>1 DEF TokenInv, Answers, Told, heardVars
<1>5. QED BY <1>1, <1>2, <1>3, <1>4 DEF TokenInv

LEMMA PlanArrivesKeeps ==
  ASSUME TokenInv, GrantsInOrder, NEW r \in Robots, PlanArrives(r)
  PROVE  (TokenInv /\ GrantsInOrder)'
<1> USE DEF PlanArrives, wireVars
<1>1. Ledger' /\ GrantsInOrder' /\ \A q \in Robots : LetIn(q) => LetIn(q)'
  BY ArbiterKept
<1>2. Typed'
  BY DEF TokenInv, Typed, TypeOK, Scenarios, heardVars, arbiterVars
<1>3. NotAhead'
  BY DEF TokenInv, Typed, TypeOK, Scenarios, NotAhead
<1>4. HonestReports' /\ InsideIsLetIn'
  BY DEF TokenInv, Typed, TypeOK, HonestReports, Said, Through, InsideIsLetIn, InJunction,
         arbiterVars
<1>5. Answers'
  BY <1>1 DEF TokenInv, Typed, TypeOK, Answers, Told, heardVars
<1>6. QED BY <1>1, <1>2, <1>3, <1>4, <1>5 DEF TokenInv

LEMMA HearsKeeps ==
  ASSUME TokenInv, GrantsInOrder, NEW r \in Robots, Hears(r)
  PROVE  (TokenInv /\ GrantsInOrder)'
<1> USE DEF Hears
<1>1. Ledger' /\ GrantsInOrder' /\ \A q \in Robots : LetIn(q) => LetIn(q)'
  BY ArbiterKept
<1>2. command[r] \in Clearance
  BY DEF TokenInv, Typed
<1>3. Typed'
  BY <1>2 DEF TokenInv, Typed, TypeOK, Clearance, heardVars, arbiterVars
<1>4. NotAhead'
  BY DEF TokenInv, Typed, NotAhead
<1>5. HonestReports' /\ InsideIsLetIn'
  BY DEF TokenInv, HonestReports, Said, Through, InsideIsLetIn, InJunction, arbiterVars
<1>6. Answers'
  <2>1. ASSUME NEW q \in Robots, q # r
        PROVE  /\ seq'[q] = seq[q] /\ clear'[q] = clear[q] /\ command'[q] = command[q]
               /\ q \in answered' => q \in answered
    BY <2>1 DEF TokenInv, Typed, TypeOK
  <2>2. ~Told(r)'
    BY DEF TokenInv, Typed, Told
  <2>3. ASSUME seq'[r] = run', r \in answered'
        PROVE  r \in stood' /\ (clear'[r] = 1 => LetIn(r)')
    <3>1. CASE command[r].seq = run
      BY <1>1, <2>3, <3>1 DEF TokenInv, Typed, TypeOK, Answers, Told, heardVars
    <3>2. CASE command[r].seq # run
      BY <1>1, <2>3, <3>2 DEF TokenInv, Typed, TypeOK, Answers, heardVars
    <3>3. QED BY <3>1, <3>2
  <2>4. QED BY <1>1, <2>1, <2>2, <2>3 DEF TokenInv, Answers, Told, heardVars
<1>7. QED BY <1>1, <1>3, <1>4, <1>5, <1>6 DEF TokenInv

LEMMA ReportsKeeps ==
  ASSUME TokenInv, GrantsInOrder, NEW r \in Robots, Reports(r)
  PROVE  (TokenInv /\ GrantsInOrder)'
<1> USE DEF robotVars
<1>1. /\ UNCHANGED <<robotVars, command, run, due, heardVars, arbiterVars, stop_lines>>
      /\ Ledger' /\ GrantsInOrder' /\ \A q \in Robots : LetIn(q) => LetIn(q)'
  BY ArbiterKept DEF Reports
<1>2. PICK s \in {StatusOf(phase[r]).state} \cup {"OTHER"} :
        status' = [status EXCEPT ![r] =
          [seq |-> seq[r], state |-> s, stage |-> StatusOf(phase[r]).stage]]
  BY DEF Reports
<1> DEFINE m == [seq |-> seq[r], state |-> s, stage |-> StatusOf(phase[r]).stage]
<1>3. m \in Status
  BY DEF TokenInv, Typed, TypeOK, Status, StatusOf, Phases, DriveStates, Stages
<1>4. status' \in [Robots -> {NoMessage} \cup Status]
  BY <1>2, <1>3 DEF TokenInv, Typed
<1>5. Typed'
  BY <1>1, <1>4 DEF TokenInv, Typed, TypeOK, heardVars, arbiterVars
<1>6. status'[r] = m /\ \A q \in Robots \ {r} : status'[q] = status[q]
  BY <1>2 DEF TokenInv, Typed
<1>7. NotAhead'
  BY <1>1, <1>6 DEF TokenInv, NotAhead
<1>8. HonestReports'
  <2>1. /\ m.state = "CRUISE" /\ m.stage = "after_junction" => Through(r)
        /\ m.state = "ARRIVED" => phase[r] = "arrived"
    BY DEF TokenInv, Typed, TypeOK, StatusOf, Phases, Through
  <2>2. QED BY <1>1, <1>6, <2>1 DEF TokenInv, HonestReports, Said, Through, arbiterVars
<1>9. InsideIsLetIn'
  BY <1>1 DEF TokenInv, InsideIsLetIn, InJunction, arbiterVars
<1>10. Answers'
  BY <1>1 DEF TokenInv, Answers, Told, heardVars
<1>11. QED BY <1>1, <1>5, <1>7, <1>8, <1>9, <1>10 DEF TokenInv

(* A robot drives on: nobody is through who was not let in, and who goes into *)
(* the junction was.                                                          *)
LEMMA DrivesKeeps ==
  ASSUME TokenInv, GrantsInOrder, NEW r \in Robots,
         Driving(r), UNCHANGED <<seq, clear, answered, wireVars, run, due, heardVars,
                                 arbiterVars, stop_lines>>,
         phase' \in [Robots -> Phases], gap' \in [Robots -> 0..FarAway],
         \A q \in Robots \ {r} : phase'[q] = phase[q],
         Through(r) => Through(r)', phase[r] = "arrived" => phase'[r] = "arrived",
         InJunction(r)' => r = holder /\ r \in locked
  PROVE  (TokenInv /\ GrantsInOrder)'
<1> USE DEF wireVars
<1>1. Ledger' /\ GrantsInOrder' /\ \A q \in Robots : LetIn(q) => LetIn(q)'
  BY ArbiterKept
<1>2. Typed' /\ NotAhead'
  BY DEF TokenInv, Typed, TypeOK, NotAhead, heardVars, arbiterVars
<1>3. HonestReports'
  BY DEF TokenInv, HonestReports, Said, Through, Driving, arbiterVars
<1>4. InsideIsLetIn'
  BY DEF TokenInv, InsideIsLetIn, InJunction, arbiterVars
<1>5. Answers'
  BY <1>1 DEF TokenInv, Answers, Told, heardVars
<1>6. QED BY <1>1, <1>2, <1>3, <1>4, <1>5 DEF TokenInv

LEMMA RobotMovesKeeps ==
  ASSUME TokenInv, GrantsInOrder, NEW r \in Robots,
         \/ Approaches(r) \/ Stops(r) \/ Enters(r) \/ Leaves(r)
         \/ FindsLane(r) \/ ArrivesAtOnce(r) \/ Arrives(r)
  PROVE  (TokenInv /\ GrantsInOrder)'
<1>1. /\ phase \in [Robots -> Phases] /\ gap \in [Robots -> 0..FarAway]
      /\ InJunction(r) => r = holder /\ r \in locked
      /\ r \in passed => Through(r)
      /\ seq[r] = run /\ r \in answered /\ clear[r] = 1 => LetIn(r)
  BY DEF TokenInv, Typed, TypeOK, InsideIsLetIn, HonestReports, Answers
<1>2. CASE Approaches(r)
  <2>1. gap' \in [Robots -> 0..FarAway]
    BY <1>1, <1>2, TokenAssumption DEF Approaches
  <2>2. QED BY <1>1, <1>2, <2>1, DrivesKeeps DEF Approaches, Through, InJunction
<1>3. CASE Stops(r)
  BY <1>1, <1>3, DrivesKeeps DEF Stops, Goes, Through, InJunction, Phases
<1>4. CASE Enters(r)
  <2>1. r = holder /\ r \in locked
    BY <1>1, <1>4 DEF Enters, Goes, Driving, LetIn, Through
  <2>2. QED BY <1>1, <1>4, <2>1, DrivesKeeps DEF Enters, Goes, Through, InJunction, Phases
<1>5. CASE Leaves(r)
  BY <1>1, <1>5, DrivesKeeps DEF Leaves, Goes, Through, InJunction, Phases
<1>6. CASE FindsLane(r)
  BY <1>1, <1>6, DrivesKeeps DEF FindsLane, Goes, Through, InJunction, Phases
<1>7. CASE ArrivesAtOnce(r)
  BY <1>1, <1>7, DrivesKeeps DEF ArrivesAtOnce, Goes, Through, InJunction, Phases
<1>8. CASE Arrives(r)
  BY <1>1, <1>8, DrivesKeeps DEF Arrives, Goes, Through, InJunction, Phases
<1>9. QED BY <1>2, <1>3, <1>4, <1>5, <1>6, <1>7, <1>8

LEMMA NextKeeps ==
  TokenInv /\ GrantsInOrder /\ [Next]_vars => (TokenInv /\ GrantsInOrder)'
<1> SUFFICES ASSUME TokenInv, GrantsInOrder, [Next]_vars
             PROVE  (TokenInv /\ GrantsInOrder)'
  OBVIOUS
<1>1. CASE UNCHANGED vars
  BY <1>1 DEF vars, robotVars, wireVars, heardVars, arbiterVars, TokenInv, Typed, TypeOK,
              NotAhead, HonestReports, Said, Told, Through, Ledger, LetIn, Waiting,
              Answers, InsideIsLetIn, InJunction, GrantsInOrder
<1>2. CASE Next
  BY <1>2, LoopTickKeeps, StartScenarioKeeps, OnStatusKeeps, DepartsKeeps,
     PlanArrivesKeeps, HearsKeeps, ReportsKeeps, RobotMovesKeeps DEF Next
<1>3. QED BY <1>1, <1>2

LEMMA TokenAlways == Spec => [](TokenInv /\ GrantsInOrder)
BY InitKeeps, NextKeeps, PTL DEF Spec

----------------------------------------------------------------------------
(* The theorems. *)

(* The arbiter, the messages and the robots keep their types.               *)
THEOREM TokenTypeCorrect == Spec => []TypeOK
<1>1. TokenInv => TypeOK
  BY DEF TokenInv, Typed
<1>2. QED BY <1>1, TokenAlways, PTL

(* Never two robots in the junction: a robot enters with a clearance that    *)
(* answers its own stop of this scenario, and such a one is locked to it     *)
(* until it reports that it is through (JunctionArbiter, vision_mission.py). *)
THEOREM JunctionIsExclusive == Spec => []OneInJunction
<1>1. TokenInv => OneInJunction
  BY DEF TokenInv, InsideIsLetIn, OneInJunction
<1>2. QED BY <1>1, TokenAlways, PTL

(* No two robots let in have the same stop line, however often a grant       *)
(* changed hands: the list of the grants that stand has no repetition, and   *)
(* the n-th of them has the n-th line (ScenarioRun.tick, vision_mission.py). *)
THEOREM StopLinesDiffer == Spec => []LinesDiffer
<1>1. TokenInv /\ GrantsInOrder => LinesDiffer
  <2> SUFFICES ASSUME TokenInv, GrantsInOrder,
                      NEW r \in passed \cup ToSet(grant_order),
                      NEW q \in passed \cup ToSet(grant_order),
                      stop_lines[r] = stop_lines[q]
               PROVE  r = q
    BY DEF LinesDiffer
  <2>1. r \in ToSet(grant_order) /\ q \in ToSet(grant_order)
    BY DEF GrantsInOrder
  <2>2. PICK i \in DOMAIN grant_order, j \in DOMAIN grant_order :
               grant_order[i] = r /\ grant_order[j] = q
    BY <2>1 DEF ToSet
  <2>3. LinesByOrder[i] = LinesByOrder[j]
    BY <2>2 DEF GrantsInOrder
  <2>4. Len(grant_order) <= Cardinality(Robots) /\ DOMAIN grant_order = 1..Len(grant_order)
    BY NoRepetition DEF TokenInv, Typed, GrantsInOrder
  <2>5. i \in DOMAIN LinesByOrder /\ j \in DOMAIN LinesByOrder
    <3>1. Cardinality(Robots) \in Nat
      BY TokenAssumption, FS_CardinalityType
    <3>2. /\ Len(LinesByOrder) \in Nat /\ Len(LinesByOrder) >= Cardinality(Robots)
          /\ DOMAIN LinesByOrder = 1..Len(LinesByOrder)
      BY TokenAssumption
    <3>3. Len(grant_order) \in Nat
      BY DEF TokenInv, Typed
    <3>4. QED BY <2>4, <3>1, <3>2, <3>3
  <2>6. i = j
    BY <2>3, <2>5, TokenAssumption DEF IsInjective
  <2>7. QED BY <2>2, <2>6
<1>2. QED BY <1>1, TokenAlways, PTL

=============================================================================
