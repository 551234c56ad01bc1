----------------------------- MODULE TabletZones -----------------------------
(***************************************************************************)
(* Zone events on the tablet: the detector's debounce (zone_event.py) and  *)
(* the sending with its retry queue (http_transport.py), which the frame   *)
(* loop runs itself: it takes no picture while a POST is on its way.       *)
(***************************************************************************)
EXTENDS Naturals, Sequences, SequencesExt

CONSTANTS
    Robots,
    RobotOrder,     \* the robots of target_markers, in order
    Cameras,        \* one zone each
    EnterFrames, ExitFrames,
    MaxEvents,      \* bound: events numbered in one life of the process
    MaxEventAge, PostTimeout, MaxRetries,
    Backoff,        \* ticks to wait after each retry
    MaxZoneQueue,
    MaxAge

VARIABLES
    det,        \* the detector's state of each camera and robot
    number,     \* _seq
    todo,       \* events of the last picture, still to be sent
    loop,       \* where the frame loop is: flush has items and the time since its "now"
    queue,      \* _zone_retry_queue
    took        \* how long the POST in progress has taken

Events == [robot : Robots, camera : Cameras, type : {"ENTER", "EXIT"},
           number : 1..MaxEvents, age : 0..MaxAge]
Items == [event : Events, retries : 1..MaxRetries, wait : 0..MaxAge]

Targets == {RobotOrder[i] : i \in DOMAIN RobotOrder}

TabletZonesTypeOK ==
    /\ det \in [Cameras -> [Targets ->
            [seen : 0..EnterFrames, miss : 0..ExitFrames, present : BOOLEAN]]]
    /\ number \in 0..MaxEvents /\ took \in 0..PostTimeout
    /\ \A i \in DOMAIN todo : todo[i] \in Events
    /\ \A i \in DOMAIN queue : queue[i] \in Items
    /\ loop.at \in {"free", "flush", "post"} /\ loop.lag \in 0..MaxAge
    /\ \A i \in DOMAIN loop.items : loop.items[i] \in Items
    /\ Len(queue) <= MaxZoneQueue

Absent == [seen |-> 0, miss |-> 0, present |-> FALSE]
At(where, items, lag) == [at |-> where, items |-> items, lag |-> lag]
Free == At("free", <<>>, 0)

TabletZonesInit ==
    /\ det = [c \in Cameras |-> [r \in Targets |-> Absent]]
    /\ number = 0 /\ todo = <<>> /\ loop = Free /\ queue = <<>> /\ took = 0

-----------------------------------------------------------------------------
\* ZoneDetector.update: counts up to the debounce, and the other starts anew.
Counted(d, saw) ==
    IF saw THEN [d EXCEPT !.seen = IF @ < EnterFrames THEN @ + 1 ELSE @, !.miss = 0]
           ELSE [d EXCEPT !.miss = IF @ < ExitFrames THEN @ + 1 ELSE @, !.seen = 0]
Enters(d) == ~d.present /\ d.seen = EnterFrames
Exits(d) == d.present /\ d.miss = ExitFrames
Debounced(d) == [d EXCEPT !.present = (@ /\ ~Exits(d)) \/ Enters(d)]

\* Some of the robots, in the order of target_markers.
InOrder(S) ==
    LET Place(r) == CHOOSE i \in DOMAIN RobotOrder : RobotOrder[i] = r
    IN {s \in UNION {[1..n -> S] : n \in 0..Len(RobotOrder)} :
            /\ \A r \in S : \E i \in DOMAIN s : s[i] = r
            /\ \A i, j \in DOMAIN s : i < j => Place(s[i]) < Place(s[j])}

\* process_zone_frame: one picture of one camera.
ZoneFrame(c, saw) ==
    LET counted == [r \in Targets |-> Counted(det[c][r], r \in saw)]
        changed == {r \in Targets : Enters(counted[r]) \/ Exits(counted[r])}
    IN \E moved \in InOrder(changed) :
       /\ loop = Free /\ todo = <<>> /\ number + Len(moved) <= MaxEvents
       /\ det' = [det EXCEPT ![c] = [r \in Targets |-> Debounced(counted[r])]]
       /\ number' = number + Len(moved)
       /\ todo' = [i \in DOMAIN moved |->
              [robot |-> moved[i], camera |-> c, number |-> number + i, age |-> 0,
               type |-> IF Enters(counted[moved[i]]) THEN "ENTER" ELSE "EXIT"]]
       /\ UNCHANGED <<loop, queue, took>>

\* max_event_age
MutExpired(event, lag) == FALSE

Expired(event, lag) == event.age > MaxEventAge + lag

\* send_zone_event: too old already, or what waits is flushed first.
Send ==
    /\ loop = Free /\ todo # <<>>
    /\ IF Expired(Head(todo), 0)
       THEN todo' = Tail(todo) /\ UNCHANGED <<loop, queue>>
       ELSE /\ loop' = IF queue = <<>> THEN At("post", <<>>, 0) ELSE At("flush", queue, 0)
            /\ queue' = <<>> /\ UNCHANGED todo
    /\ UNCHANGED <<det, number, took>>

\* The deque drops its oldest when it is full.
Queued(item) ==
    LET q == Append(queue, item) IN IF Len(q) > MaxZoneQueue THEN Tail(q) ELSE q

Next1 == Head(loop.items)
Rest == IF Len(loop.items) = 1 THEN At("post", <<>>, 0) ELSE [loop EXCEPT !.items = Tail(@)]

\* flush_zone_events: "now" was read once, so ages and delays are as they were then.
Due == loop.at = "flush" /\ ~Expired(Next1.event, loop.lag) /\ Next1.wait = 0
Left(wait) == IF wait > loop.lag THEN wait - loop.lag ELSE 0

Skip ==
    /\ loop.at = "flush" /\ ~Due
    /\ queue' = IF Expired(Next1.event, loop.lag) THEN queue
                ELSE Queued([Next1 EXCEPT !.wait = Left(@)])
    /\ loop' = Rest
    /\ UNCHANGED <<det, number, todo, took>>

\* The event being posted.
Posting == loop.at = "post" \/ Due
Posted == IF loop.at = "post" THEN Head(todo) ELSE Next1.event

\* A retry came back.
Retried(ok) ==
    /\ Due /\ took' = 0 /\ loop' = Rest
    /\ queue' = IF ok \/ Next1.retries = MaxRetries THEN queue
                ELSE Queued([Next1 EXCEPT !.retries = @ + 1,
                                          !.wait = Left(Backoff[Next1.retries + 1])])
    /\ UNCHANGED <<det, number, todo>>

\* The event itself came back.
Sent(ok) ==
    /\ loop.at = "post" /\ took' = 0 /\ loop' = Free /\ todo' = Tail(todo)
    /\ queue' = IF ok \/ Expired(Head(todo), 0) THEN queue
                ELSE Queued([event |-> Head(todo), retries |-> 1, wait |-> Backoff[1]])
    /\ UNCHANGED <<det, number>>

Answered(ok) == Retried(ok) \/ Sent(ok)

\* The process is started again.
TabletZonesRestart ==
    /\ det' = [c \in Cameras |-> [r \in Targets |-> Absent]]
    /\ number' = 0 /\ todo' = <<>> /\ loop' = Free /\ queue' = <<>> /\ took' = 0

Aged(e) == [e EXCEPT !.age = IF @ < MaxAge THEN @ + 1 ELSE @]
AgedAll(items) == [i \in DOMAIN items |-> [items[i] EXCEPT !.event = Aged(@)]]

\* Time passes while the loop is free, or during a POST.
TabletZonesTick ==
    /\ Posting \/ (loop = Free /\ todo = <<>>)
    /\ Posting => took < PostTimeout
    /\ took' = IF Posting THEN took + 1 ELSE 0
    /\ todo' = [i \in DOMAIN todo |-> Aged(todo[i])]
    /\ queue' = [i \in DOMAIN queue |->
            [AgedAll(queue)[i] EXCEPT !.wait = IF @ > 0 THEN @ - 1 ELSE 0]]
    /\ loop' = [loop EXCEPT !.items = AgedAll(@),
                            !.lag = IF loop.at = "flush" THEN @ + 1 ELSE 0]
    /\ UNCHANGED <<det, number>>
=============================================================================
