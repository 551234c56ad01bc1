------------------------------- MODULE TopicWrap ------------------------------
(***************************************************************************)
(* Services and actions wrapped into topics (domain_bridge/topic_wrap.py), *)
(* because the domain bridge carries topics only: requests are letters     *)
(* with an id, which the bridge may lose or repeat and the sender may send *)
(* again; ResultCache remembers for a while what was answered.             *)
(***************************************************************************)
EXTENDS Naturals, FiniteSets

CONSTANTS
    Requests, Goals,    \* the ids of requests to a service and of goals for an action
    MaxInflight,        \* MAX_INFLIGHT
    Deadline, Ttl,      \* deadline_ms and DEDUPE_TTL_S, in ticks
    Unknown,
    MaxSends            \* bound: letters sent with one id

ASSUME WrapAssumption ==
    /\ Requests \cap Goals = {}
    /\ MaxInflight \in Nat \ {0} /\ Deadline \in Nat \ {0} /\ Ttl \in Nat
    /\ Unknown \notin Nat

Ids == Requests \cup Goals

VARIABLES
    letters,    \* on their way, by id
    sent,       \* how many there were
    inflight,   \* ResultCache._inflight
    done,       \* ResultCache._done: the age of the answer
    open,       \* calls and goals the server has not answered
    running,    \* goals it has accepted and not ended
    handles,    \* WrappedAction._goals
    timers,     \* the deadline timers of a request: they repeat
    called      \* ghost: calls and goals sent

wrapVars == <<letters, sent, inflight, done, open, running, handles, timers, called>>

WrapTypeOK ==
    /\ letters \in [Ids -> Nat] /\ sent \in [Ids -> Nat]
    /\ inflight \subseteq Ids /\ done \in [Ids -> 0..Ttl \cup {Unknown}]
    /\ open \in [Ids -> Nat] /\ running \in [Goals -> Nat] /\ handles \subseteq Goals
    /\ timers \in [Requests -> SUBSET (0..Deadline)]
    /\ called \in [Ids -> Nat]

WrapInit ==
    /\ letters = [i \in Ids |-> 0] /\ sent = [i \in Ids |-> 0]
    /\ inflight = {} /\ done = [i \in Ids |-> Unknown]
    /\ open = [i \in Ids |-> 0] /\ running = [g \in Goals |-> 0] /\ handles = {}
    /\ timers = [i \in Requests |-> {}] /\ called = [i \in Ids |-> 0]

-----------------------------------------------------------------------------
\* The sender sends or repeats, the bridge repeats or loses.
SendLetter(i) ==
    /\ sent[i] < MaxSends
    /\ sent' = [sent EXCEPT ![i] = @ + 1] /\ letters' = [letters EXCEPT ![i] = @ + 1]
    /\ UNCHANGED <<inflight, done, open, running, handles, timers, called>>

LoseLetter(i) ==
    /\ letters[i] > 0 /\ letters' = [letters EXCEPT ![i] = @ - 1]
    /\ UNCHANGED <<sent, inflight, done, open, running, handles, timers, called>>

\* seen and is_inflight: answered before (the answer is sent again), or still at it.
MutKnown(i) == i \in inflight    \* mutant: the answer is not looked up
Known(i) == done[i] # Unknown \/ i \in inflight

\* A letter that changes nothing: known, or BUSY.
AnswerFromMemory(i) ==
    /\ letters[i] > 0 /\ letters' = [letters EXCEPT ![i] = @ - 1]
    /\ Known(i) \/ Cardinality(inflight) >= MaxInflight
    /\ UNCHANGED <<sent, inflight, done, open, running, handles, timers, called>>

\* begin, when the letter is new and there is room.
Fresh(i) ==
    /\ letters[i] > 0 /\ letters' = [letters EXCEPT ![i] = @ - 1]
    /\ ~Known(i) /\ Cardinality(inflight) < MaxInflight

\* SERVICE_ABSENT, BAD_ARGS: begin and finish in one callback, without a call.
Refuse(i) ==
    /\ Fresh(i)
    /\ done' = [done EXCEPT ![i] = 0]
    /\ UNCHANGED <<sent, inflight, open, running, handles, timers, called>>

Timer(i) == [timers EXCEPT ![i] = @ \cup {Deadline}]

\* call_async, send_goal_async; a service call gets a deadline, a goal has none.
CallServer(i) ==
    /\ Fresh(i)
    /\ inflight' = inflight \cup {i}
    /\ open' = [open EXCEPT ![i] = @ + 1] /\ called' = [called EXCEPT ![i] = @ + 1]
    /\ timers' = IF i \in Requests THEN Timer(i) ELSE timers
    /\ UNCHANGED <<sent, done, running, handles>>

-----------------------------------------------------------------------------
\* done: finish and emit; a late answer finishes a second time.
Finish(i) ==
    /\ inflight' = inflight \ {i} /\ done' = [done EXCEPT ![i] = 0]
    /\ handles' = handles \ {i}

\* on_done: the service answers or fails; a goal is rejected.
ServerAnswers(i) ==
    /\ open[i] > 0 /\ open' = [open EXCEPT ![i] = @ - 1]
    /\ Finish(i) /\ UNCHANGED <<letters, sent, running, timers, called>>

\* on_sent with an accepted goal.
WrapGoalAccepted(g) ==
    /\ open[g] > 0 /\ open' = [open EXCEPT ![g] = @ - 1]
    /\ running' = [running EXCEPT ![g] = @ + 1] /\ handles' = handles \cup {g}
    /\ UNCHANGED <<letters, sent, inflight, done, timers, called>>

\* get_result_async, with or without a cancel before it (_on_cancel keeps nothing).
WrapGoalEnds(g) ==
    /\ running[g] > 0 /\ running' = [running EXCEPT ![g] = @ - 1]
    /\ Finish(g) /\ UNCHANGED <<letters, sent, open, timers, called>>

\* The deadline timer: TIMEOUT for what is in flight under this id, and the next round.
TimerFires(i) ==
    /\ 0 \in timers[i] /\ timers' = [timers EXCEPT ![i] = (@ \ {0}) \cup {Deadline}]
    /\ IF i \in inflight THEN Finish(i) ELSE UNCHANGED <<inflight, done, handles>>
    /\ UNCHANGED <<letters, sent, open, running, called>>

\* sweep, which no one can tell from an answer that is forgotten in time.
Older(i) == IF done[i] = Unknown \/ done[i] >= Ttl THEN Unknown ELSE done[i] + 1
WrapTick ==
    /\ \A i \in Requests : 0 \notin timers[i]
    /\ timers' = [i \in Requests |-> {t - 1 : t \in timers[i]}]
    /\ done' = [i \in Ids |-> Older(i)]
    /\ UNCHANGED <<letters, sent, inflight, open, running, handles, called>>

WrapNext ==
    \/ \E i \in Ids :
        \/ SendLetter(i) \/ LoseLetter(i)
        \/ AnswerFromMemory(i) \/ Refuse(i) \/ CallServer(i) \/ ServerAnswers(i)
    \/ \E g \in Goals : WrapGoalAccepted(g) \/ WrapGoalEnds(g)
    \/ \E i \in Requests : TimerFires(i)
    \/ WrapTick

WrapSpec == WrapInit /\ [][WrapNext]_wrapVars

-----------------------------------------------------------------------------
\* What is in flight was called, what is remembered was answered.
Standing ==
    [i \in Ids |-> IF i \in inflight THEN "called"
                   ELSE IF done[i] # Unknown THEN "answered" ELSE "new"]

Once == INSTANCE OnceOnly WITH state <- Standing, calls <- called

(***************************************************************************)
(* However often a letter comes, and however late the server or the        *)
(* deadline, the service is not called twice for one id while it is at it  *)
(* or remembers the answer: the wrapper implements OnceOnly (topic_wrap.py *)
(* "does not call the service again").                                     *)
(***************************************************************************)
CalledOnce == Once!Spec
=============================================================================
