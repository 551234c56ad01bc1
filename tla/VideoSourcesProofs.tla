-------------------------- MODULE VideoSourcesProofs --------------------------
(***************************************************************************)
(* The figures in the headers of the pictures, for any number of           *)
(* publishers, sessions and frames: what the puller keeps of the last one  *)
(* is of the session it says, and the greatest number of it received.      *)
(***************************************************************************)
EXTENDS VideoSources, Integers, TLAPS

Sessions == Headers!Sessions
Publishing == [session : Sessions \cup {None}, seq : 0..MaxSeq]
Kept == [from : Publishers \cup {None}, sent : 0..MaxSeq, session : Sessions \cup {None},
         seq : 0..MaxSeq \cup {None}, capture : BOOLEAN, lost : Nat]

\* A session is of one publisher, which has numbered what was received of it.
OfOnePublisher ==
    \A p \in Publishers : publisher[p].session # None =>
        /\ \A q \in Publishers : publisher[q].session = publisher[p].session => q = p
        /\ \A k \in heard[publisher[p].session] : k <= publisher[p].seq

\* The puller is connected to a publisher that runs.
ConnectedRuns == pulled.from # None => publisher[pulled.from].session # None

\* The last number the puller kept is the greatest of the session it kept.
LastIsGreatest ==
    pulled.session # None =>
        /\ pulled.seq \in heard[pulled.session]
        /\ \A k \in heard[pulled.session] : k <= pulled.seq

SidecarInv == Headers!SidecarTypeOK /\ OfOnePublisher /\ ConnectedRuns /\ LastIsGreatest

LEMMA Typed ==
  ASSUME Headers!SidecarTypeOK
  PROVE  /\ publisher \in [Publishers -> Publishing] /\ pulled \in Kept
         /\ heard \in [Sessions -> SUBSET (1..MaxSeq)]
  BY DEF Headers!SidecarTypeOK, Publishing, Kept, Sessions

LEMMA TypedNext ==
  ASSUME publisher' \in [Publishers -> Publishing], pulled' \in Kept,
         heard' \in [Sessions -> SUBSET (1..MaxSeq)]
  PROVE  Headers!SidecarTypeOK'
  BY DEF Headers!SidecarTypeOK, Publishing, Kept, Sessions, Headers!Sessions

LEMMA Numbers == MaxSessions \in Nat /\ MaxSeq \in Nat
  BY VideoAssumption DEF Headers!SidecarConstants

LEMMA SidecarStart == Headers!SidecarInit => SidecarInv
<1> SUFFICES ASSUME Headers!SidecarInit PROVE SidecarInv
  OBVIOUS
<1>1. Headers!SidecarTypeOK
  BY Numbers DEF Headers!SidecarInit, Headers!SidecarTypeOK, Headers!Sessions
<1>2. OfOnePublisher /\ ConnectedRuns /\ LastIsGreatest
  BY DEF Headers!SidecarInit, OfOnePublisher, ConnectedRuns, LastIsGreatest
<1>3. QED BY <1>1, <1>2 DEF SidecarInv

\* A session that begins is one of which nothing was received.
LEMMA StartKeeps ==
  ASSUME SidecarInv, NEW p \in Publishers, Headers!Start(p)
  PROVE  SidecarInv'
<1> DEFINE s == Headers!NewSession
           one == [session |-> s, seq |-> 0]
<1>1. /\ publisher \in [Publishers -> Publishing] /\ pulled \in Kept
      /\ heard \in [Sessions -> SUBSET (1..MaxSeq)]
  BY Typed DEF SidecarInv
<1>2. /\ Headers!Used # Sessions
      /\ publisher' = [publisher EXCEPT ![p] = one]
      /\ pulled' = IF pulled.from = p THEN [pulled EXCEPT !.from = None] ELSE pulled
      /\ heard' = heard
  BY DEF Headers!Start, Sessions
<1>3. Headers!Used \subseteq Sessions
  <2>1. \A q \in Publishers : publisher[q].session \in Sessions \cup {None}
    BY <1>1 DEF Publishing
  <2>2. QED BY <2>1 DEF Headers!Used, Sessions
<1>4. s \in Sessions \ Headers!Used
  <2>1. \E x \in Sessions \ Headers!Used : TRUE
    BY <1>2, <1>3
  <2>2. QED BY <2>1 DEF Headers!NewSession, Sessions
<1>5. heard[s] = {}
  BY <1>4 DEF Headers!Used, Sessions
<1>6. \A q \in Publishers : publisher[q].session # None => publisher[q].session # s
  BY <1>4 DEF Headers!Used
<1> HIDE DEF s
<1>7. one \in Publishing /\ one.session = s /\ one.seq = 0
  BY <1>4, Numbers DEF Publishing
<1> HIDE DEF one
<1>8. publisher' \in [Publishers -> Publishing]
  BY <1>1, <1>2, <1>7
<1>9. /\ pulled' \in Kept /\ pulled'.session = pulled.session /\ pulled'.seq = pulled.seq
      /\ pulled'.from = pulled.from \/ pulled'.from = None
      /\ pulled'.from # None => pulled'.from # p
  <2>1. CASE pulled.from = p
    <3>1. pulled' = [pulled EXCEPT !.from = None]
      BY <1>2, <2>1
    <3>2. pulled' \in Kept
      BY <1>1, <3>1, ZenonT(30) DEF Kept
    <3>3. QED BY <1>1, <3>1, <3>2 DEF Kept
  <2>2. CASE pulled.from # p
    BY <1>1, <1>2, <2>2
  <2>3. QED BY <2>1, <2>2
<1>10. \A q \in Publishers : publisher'[q] = IF q = p THEN one ELSE publisher[q]
  BY <1>1, <1>2
<1>11. OfOnePublisher'
  BY <1>2, <1>5, <1>6, <1>7, <1>10 DEF OfOnePublisher, SidecarInv
<1>12. ConnectedRuns'
  BY <1>1, <1>9, <1>10 DEF ConnectedRuns, SidecarInv, Kept
<1>13. LastIsGreatest'
  BY <1>2, <1>9 DEF LastIsGreatest, SidecarInv
<1>14. QED BY <1>1, <1>2, <1>8, <1>9, <1>11, <1>12, <1>13, TypedNext DEF SidecarInv

LEMMA CaptureKeeps ==
  ASSUME SidecarInv, NEW p \in Publishers, Headers!Capture(p)
  PROVE  SidecarInv'
<1>1. /\ publisher \in [Publishers -> Publishing] /\ pulled \in Kept
      /\ heard \in [Sessions -> SUBSET (1..MaxSeq)]
  BY Typed DEF SidecarInv
<1>2. /\ publisher[p].session # None /\ publisher[p].seq < MaxSeq
      /\ publisher' = [publisher EXCEPT ![p].seq = publisher[p].seq + 1]
      /\ pulled' = pulled /\ heard' = heard
  BY DEF Headers!Capture
<1>3. publisher[p].seq \in 0..MaxSeq /\ publisher[p].seq + 1 \in 0..MaxSeq
  BY <1>1, <1>2, Numbers DEF Publishing
<1>4. publisher' \in [Publishers -> Publishing]
  BY <1>1, <1>2, <1>3 DEF Publishing
<1>5. \A q \in Publishers : /\ publisher'[q].session = publisher[q].session
                           /\ publisher'[q].seq \in {publisher[q].seq, publisher[q].seq + 1}
                           /\ publisher[q].seq \in 0..MaxSeq
  BY <1>1, <1>2 DEF Publishing
<1>6. \A x \in Sessions : heard[x] \in SUBSET (1..MaxSeq)
  BY <1>1
<1>7. OfOnePublisher'
  <2> SUFFICES ASSUME NEW q \in Publishers, publisher'[q].session # None
               PROVE  /\ \A r \in Publishers : publisher'[r].session = publisher'[q].session => r = q
                      /\ \A k \in heard'[publisher'[q].session] : k <= publisher'[q].seq
    BY DEF OfOnePublisher
  <2>1. publisher[q].session \in Sessions
    BY <1>1, <1>5 DEF Publishing
  <2>2. \A k \in heard[publisher[q].session] : k \in Int /\ k <= publisher[q].seq
    BY <1>5, <1>6, <2>1 DEF OfOnePublisher, SidecarInv
  <2>3. \A k \in heard[publisher[q].session] : k <= publisher'[q].seq
    BY <1>5, <2>2
  <2>4. QED BY <1>2, <1>5, <2>3 DEF OfOnePublisher, SidecarInv
<1>8. ConnectedRuns' /\ LastIsGreatest'
  BY <1>1, <1>2, <1>5 DEF ConnectedRuns, LastIsGreatest, SidecarInv, Kept
<1>9. QED BY <1>1, <1>2, <1>4, <1>7, <1>8, TypedNext DEF SidecarInv

LEMMA ConnectKeeps ==
  ASSUME SidecarInv, Headers!Disconnect \/ \E p \in Publishers : Headers!Connect(p)
  PROVE  SidecarInv'
<1>1. /\ publisher \in [Publishers -> Publishing] /\ pulled \in Kept
      /\ heard \in [Sessions -> SUBSET (1..MaxSeq)]
  BY Typed DEF SidecarInv
<1>2. CASE Headers!Disconnect
  <2>1. pulled' = [pulled EXCEPT !.from = None] /\ publisher' = publisher /\ heard' = heard
    BY <1>2 DEF Headers!Disconnect
  <2>2. pulled' \in Kept /\ pulled'.session = pulled.session /\ pulled'.seq = pulled.seq
        /\ pulled'.from = None
    BY <1>1, <2>1 DEF Kept
  <2>3. OfOnePublisher' /\ ConnectedRuns' /\ LastIsGreatest'
    BY <2>1, <2>2 DEF OfOnePublisher, ConnectedRuns, LastIsGreatest, SidecarInv
  <2>4. QED BY <1>1, <2>1, <2>2, <2>3, TypedNext DEF SidecarInv
<1>3. ASSUME NEW p \in Publishers, Headers!Connect(p)
      PROVE  SidecarInv'
  <2>1. /\ pulled' = [pulled EXCEPT !.from = p, !.sent = 0] /\ publisher' = publisher
        /\ heard' = heard /\ publisher[p].session # None
    BY <1>3 DEF Headers!Connect
  <2>2. pulled' \in Kept /\ pulled'.session = pulled.session /\ pulled'.seq = pulled.seq
        /\ pulled'.from = p
    <3>1. 0 \in 0..MaxSeq
      BY Numbers
    <3>2. pulled' \in Kept
      BY <1>1, <2>1, <3>1, ZenonT(30) DEF Kept
    <3>3. QED BY <1>1, <2>1, <3>2 DEF Kept
  <2>3. OfOnePublisher' /\ ConnectedRuns' /\ LastIsGreatest'
    BY <2>1, <2>2 DEF OfOnePublisher, ConnectedRuns, LastIsGreatest, SidecarInv
  <2>4. QED BY <1>1, <2>1, <2>2, <2>3, TypedNext DEF SidecarInv
<1>4. QED BY <1>2, <1>3

LEMMA BareKeeps ==
  ASSUME SidecarInv, Headers!ReceiveBare
  PROVE  SidecarInv' /\ heard' = heard /\ pulled'.lost = pulled.lost
<1>1. /\ publisher \in [Publishers -> Publishing] /\ pulled \in Kept
      /\ heard \in [Sessions -> SUBSET (1..MaxSeq)]
  BY Typed DEF SidecarInv
<1>2. /\ pulled' = [pulled EXCEPT !.session = None, !.capture = FALSE]
      /\ publisher' = publisher /\ heard' = heard /\ pulled.from = None
  BY DEF Headers!ReceiveBare, Headers!Note
<1>3. /\ pulled' \in Kept /\ pulled'.session = None /\ pulled'.from = None
      /\ pulled'.lost = pulled.lost
  BY <1>1, <1>2 DEF Kept
<1>4. OfOnePublisher' /\ ConnectedRuns' /\ LastIsGreatest'
  BY <1>2, <1>3 DEF OfOnePublisher, ConnectedRuns, LastIsGreatest, SidecarInv
<1>5. QED BY <1>1, <1>2, <1>3, <1>4, TypedNext DEF SidecarInv

\* A picture with headers: its number is above what was received of its session,
\* and what is added to the loss lies between the last one and this one.
LEMMA ReceiveKeeps ==
  ASSUME SidecarInv, Headers!Receive
  PROVE  /\ SidecarInv'
         /\ \A s \in Sessions : \A k \in heard[s], b \in Headers!New(s) : k < b
         /\ pulled'.lost # pulled.lost =>
              \E s \in Sessions : \E a, b \in 1..MaxSeq :
                Headers!GapIn(s, a, b) /\ pulled'.lost = pulled.lost + (b - a - 1)
<1> DEFINE p == pulled.from
           s == publisher[p].session
           b == publisher[p].seq
           gap == Headers!Gap(pulled, publisher[p])
<1>1. /\ publisher \in [Publishers -> Publishing] /\ pulled \in Kept
      /\ heard \in [Sessions -> SUBSET (1..MaxSeq)]
  BY Typed DEF SidecarInv
<1>2. p \in Publishers /\ s \in Sessions /\ s # None /\ b \in 1..MaxSeq
  <2>1. p \in Publishers
    BY <1>1 DEF Headers!Receive, Kept
  <2>2. s # None /\ publisher[p] \in Publishing
    BY <1>1, <2>1 DEF ConnectedRuns, SidecarInv, Headers!Receive
  <2>3. b > pulled.sent /\ pulled.sent \in 0..MaxSeq
    BY <1>1 DEF Headers!Receive, Kept
  <2>4. QED BY <2>1, <2>2, <2>3, Numbers DEF Publishing
<1>3. publisher[p] # Headers!Nothing
  BY <1>2 DEF Headers!Nothing
<1>4. /\ pulled' = [[pulled EXCEPT !.session = s, !.seq = b, !.capture = TRUE,
                                   !.lost = pulled.lost + gap] EXCEPT !.sent = b]
      /\ heard' = [heard EXCEPT ![s] = heard[s] \cup {b}]
      /\ publisher' = publisher
  BY <1>3 DEF Headers!Receive, Headers!Note
<1>5. /\ \A k \in heard[s] : k <= b
      /\ \A q \in Publishers : publisher[q].session = s => q = p
  BY <1>2 DEF OfOnePublisher, SidecarInv
<1>6. pulled.lost \in Nat
  BY <1>1 DEF Kept
<1>7. gap \in Nat /\ (gap # 0 => pulled.session = s /\ pulled.seq # None
                                  /\ gap = b - pulled.seq - 1 /\ b > pulled.seq + 1)
  <2>1. pulled.seq \in 0..MaxSeq \cup {None}
    BY <1>1 DEF Kept
  <2>2. CASE pulled.seq # None /\ s = pulled.session /\ b > pulled.seq + 1
    <3>1. gap = b - pulled.seq - 1 /\ pulled.seq \in Nat
      BY <2>1, <2>2 DEF Headers!Gap
    <3>2. QED BY <1>2, <2>2, <3>1
  <2>3. CASE ~(pulled.seq # None /\ s = pulled.session /\ b > pulled.seq + 1)
    BY <2>3 DEF Headers!Gap
  <2>4. QED BY <2>2, <2>3
<1> HIDE DEF p, s, b, gap
<1>8. /\ pulled' \in Kept /\ pulled'.from = p /\ pulled'.session = s /\ pulled'.seq = b
      /\ pulled'.lost = pulled.lost + gap
  <2>1. pulled.from = p /\ b \in 0..MaxSeq
    BY <1>2 DEF p
  <2>2. pulled.lost + gap \in Nat
    BY <1>6, <1>7
  <2>3. pulled' \in Kept
    BY <1>1, <1>2, <1>4, <2>1, <2>2, ZenonT(30) DEF Kept
  <2>4. QED BY <1>1, <1>4, <2>1, <2>3 DEF Kept
<1>9. heard' \in [Sessions -> SUBSET (1..MaxSeq)]
  BY <1>1, <1>2, <1>4
<1>10. \A x \in Sessions : heard'[x] = IF x = s THEN heard[s] \cup {b} ELSE heard[x]
  BY <1>1, <1>4
<1>11. SidecarInv'
  <2>1. OfOnePublisher'
    <3> SUFFICES ASSUME NEW q \in Publishers, publisher[q].session # None
                 PROVE  /\ \A r \in Publishers : publisher[r].session = publisher[q].session => r = q
                        /\ \A k \in heard'[publisher[q].session] : k <= publisher[q].seq
      BY <1>4 DEF OfOnePublisher
    <3>1. publisher[q].session \in Sessions /\ publisher[q].seq \in Int
      BY <1>1 DEF Publishing
    <3>2. /\ \A r \in Publishers : publisher[r].session = publisher[q].session => r = q
          /\ \A k \in heard[publisher[q].session] : k <= publisher[q].seq
      BY DEF OfOnePublisher, SidecarInv
    <3>3. CASE publisher[q].session = s
      <4>1. q = p /\ publisher[q].seq = b
        BY <1>5, <3>3 DEF b
      <4>2. b <= b
        BY <1>2
      <4>3. QED BY <1>10, <3>1, <3>2, <3>3, <4>1, <4>2
    <3>4. CASE publisher[q].session # s
      BY <1>10, <3>1, <3>2, <3>4
    <3>5. QED BY <3>3, <3>4
  <2>2. ConnectedRuns'
    BY <1>2, <1>4, <1>8 DEF ConnectedRuns, s
  <2>3. LastIsGreatest'
    <3>1. b <= b
      BY <1>2
    <3>2. QED BY <1>2, <1>5, <1>8, <1>10, <3>1 DEF LastIsGreatest
  <2>4. QED BY <1>1, <1>4, <1>8, <1>9, <2>1, <2>2, <2>3, TypedNext DEF SidecarInv
<1>12. ASSUME NEW x \in Sessions, NEW k \in heard[x], NEW c \in Headers!New(x)
       PROVE  k < c
  <2>1. x = s /\ c = b /\ b \notin heard[s]
    BY <1>10, <1>12 DEF Headers!New
  <2>2. k \in Int /\ k <= b /\ k # b
    BY <1>1, <1>5, <2>1
  <2>3. QED BY <1>2, <2>1, <2>2
<1>13. ASSUME pulled'.lost # pulled.lost
       PROVE  \E x \in Sessions : \E a, c \in 1..MaxSeq :
                Headers!GapIn(x, a, c) /\ pulled'.lost = pulled.lost + (c - a - 1)
  <2> DEFINE a == pulled.seq
  <2>1. gap # 0
    BY <1>6, <1>8, <1>13
  <2>2. pulled.session = s /\ gap = b - a - 1 /\ b > a + 1
    BY <1>7, <2>1
  <2>3. a \in heard[s] /\ \A k \in heard[s] : k <= a
    BY <1>2, <2>2 DEF LastIsGreatest, SidecarInv
  <2>4. a \in 1..MaxSeq
    BY <1>1, <1>2, <2>3
  <2>5. b \in Headers!New(s)
    <3>1. b \notin heard[s]
      BY <1>2, <2>2, <2>3, <2>4
    <3>2. QED BY <1>2, <1>10, <3>1 DEF Headers!New
  <2>6. Headers!GapIn(s, a, b) /\ pulled'.lost = pulled.lost + (b - a - 1)
    BY <1>8, <2>2, <2>3, <2>5 DEF Headers!GapIn
  <2>7. QED BY <1>2, <2>4, <2>6
<1>14. QED BY <1>11, <1>12, <1>13

----------------------------------------------------------------------------
(* The sources. *)

LossStep ==
    /\ \A s \in Sessions : \A k \in heard[s], b \in Headers!New(s) : k < b
    /\ pulled'.lost # pulled.lost =>
         \E s \in Sessions : \E a, b \in 1..MaxSeq :
           Headers!GapIn(s, a, b) /\ pulled'.lost = pulled.lost + (b - a - 1)

LEMMA HeadersKept ==
  ASSUME SidecarInv, [Next]_vars
  PROVE  SidecarInv' /\ LossStep
<1>1. CASE Headers!SidecarStep
  <2>1. CASE Headers!Receive
    BY <2>1, ReceiveKeeps DEF LossStep
  <2>2. CASE Headers!ReceiveBare
    BY <2>2, BareKeeps DEF LossStep, Headers!New
  <2>3. ASSUME NEW p \in Publishers, Headers!Start(p)
        PROVE  SidecarInv' /\ LossStep
    <3>1. pulled'.lost = pulled.lost /\ heard' = heard
      BY <2>3, Typed DEF Headers!Start, SidecarInv, Kept
    <3>2. QED BY <2>3, <3>1, StartKeeps DEF LossStep, Headers!New
  <2>4. ASSUME NEW p \in Publishers, Headers!Capture(p)
        PROVE  SidecarInv' /\ LossStep
    BY <2>4, CaptureKeeps DEF LossStep, Headers!New, Headers!Capture
  <2>5. ASSUME Headers!Disconnect \/ \E p \in Publishers : Headers!Connect(p)
        PROVE  SidecarInv' /\ LossStep
    <3>1. pulled'.lost = pulled.lost /\ heard' = heard
      BY <2>5, Typed DEF Headers!Disconnect, Headers!Connect, SidecarInv, Kept
    <3>2. QED BY <2>5, <3>1, ConnectKeeps DEF LossStep, Headers!New
  <2>6. QED BY <1>1, <2>1, <2>2, <2>3, <2>4, <2>5 DEF Headers!SidecarStep
<1>2. CASE UNCHANGED headers
  <2>1. publisher' = publisher /\ pulled' = pulled /\ heard' = heard
    BY <1>2 DEF headers
  <2>2. SidecarInv'
    BY <2>1 DEF SidecarInv, Headers!SidecarTypeOK, OfOnePublisher, ConnectedRuns, LastIsGreatest
  <2>3. QED BY <2>1, <2>2 DEF LossStep, Headers!New
<1>3. Headers!SidecarStep \/ UNCHANGED headers
  BY DEF Next, vars, View, CameraMoves, Poll, Watch, Forget, ViewerChanges, SetActive,
     HoldCamera, OfPhone, PhoneRuns, PhoneAges, PhoneChanges, OfCamera, CameraRuns,
     CameraAges, CameraChanges, OfSlot, SlotRuns, SlotPushed, SlotChanges, SidecarSteps
<1>4. QED BY <1>1, <1>2, <1>3

LEMMA HeadersAlways == Spec => []SidecarInv
<1>1. Init => SidecarInv
  BY SidecarStart DEF Init
<1>2. SidecarInv /\ [Next]_vars => SidecarInv'
  BY HeadersKept
<1>3. QED BY <1>1, <1>2, PTL DEF Spec

(* A loss that is reported is a run of numbers of one session that went by    *)
(* between two pictures, whatever restarts, changes of address and pictures   *)
(* without headers come between (mjpeg_puller.py _note_sidecar).              *)
THEOREM ReportedLossIsReal == Spec => LossIsReal
<1>1. SidecarInv /\ [Next]_vars => [LossStep]_<<pulled, heard>>
  BY HeadersKept
<1>2. QED BY <1>1, HeadersAlways, PTL
      DEF Spec, LossIsReal, Headers!LossIsReal, LossStep, Sessions
=============================================================================
