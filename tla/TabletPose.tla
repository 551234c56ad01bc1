----------------------------- MODULE TabletPose -----------------------------
(***************************************************************************)
(* The tablet's way from an overhead picture to a PoseFix on the relay     *)
(* (tablet/vision): whether it may send at all, the homography, one fix    *)
(* per robot and picture, and the worker that keeps only each robot's      *)
(* latest fix and posts what it took one robot after the other.            *)
(***************************************************************************)
EXTENDS Naturals, Sequences, SequencesExt

CONSTANTS
    Robots,
    Me,             \* the robot that is followed to its wheels
    Places,         \* where a picture may put Me, farther apart than the jump gate
    Origin,         \* one of them
    PostTimeout,    \* ticks a POST takes at most
    MaxAge,         \* ages are counted so far
    None

VARIABLES
    egress,     \* there is a transport
    timed,      \* ghost: the ages of fixes are kept in this behaviour
    H,          \* the homography, by its reprojection error
    latest,     \* _latest_poses: the fix waiting for the worker
    batch,      \* the fixes the worker has taken
    spent       \* how long the POST in progress has taken

Grades == {"good", "rough", "poor"}     \* up to 3 px, up to 4 px, above
Fixes == [robot : Robots, place : Places, rough : BOOLEAN, age : 0..MaxAge]

TabletPoseTypeOK ==
    /\ egress \in BOOLEAN /\ timed \in BOOLEAN
    /\ H \in Grades \cup {"none"}
    /\ latest \in [Robots -> Fixes \cup {None}]
    /\ batch \in Seq(Fixes) /\ Len(batch) <= 2
    /\ spent \in 0..PostTimeout

\* main: unmeasured configurations, synthetic pictures and a missing address
\* each keep the transport from being made.
EgressAllowed(ready, pending, mock, mockEgress, relay) ==
    /\ ready \/ pending
    /\ mock => mockEgress
    /\ relay

Older(fix) == [fix EXCEPT !.age = IF timed /\ fix.robot = Me /\ @ < MaxAge THEN @ + 1 ELSE @]

TabletPoseInit ==
    /\ \E ready, pending, mock, mockEgress, relay \in BOOLEAN :
            egress = EgressAllowed(ready, pending, mock, mockEgress, relay)
    /\ timed \in BOOLEAN
    /\ H = "none" /\ latest = [r \in Robots |-> None] /\ batch = <<>> /\ spent = 0

-----------------------------------------------------------------------------
\* update_homography: with too few reference markers the last H stays.
Homography(grade) == IF grade = None THEN H ELSE grade

\* process_overhead_frame: no fix without an H, or above max_reproj.
Tracked(h) == h \in {"good", "rough"}

\* The others' fixes only take their turn.
Fix(r, place, h) ==
    IF r = Me THEN [robot |-> r, place |-> place, rough |-> h = "rough", age |-> 0]
              ELSE [robot |-> r, place |-> Origin, rough |-> FALSE, age |-> 0]

\* One picture, with the robots in it, where Me seems to be, and how well the
\* reference markers fit, if there are enough; a fix replaces the one that still waits.
Frame(seen, place, grade) ==
    /\ H' = Homography(grade)
    /\ latest' = [r \in Robots |->
            IF egress /\ Tracked(H') /\ r \in seen THEN Fix(r, place, H') ELSE latest[r]]
    /\ UNCHANGED <<egress, timed, batch, spent>>

Pending == {r \in Robots : latest[r] # None}

\* _pose_worker_loop: takes everything and clears it.
Take ==
    /\ batch = <<>> /\ Pending # {}
    /\ \E order \in SetToSeqs(Pending) : batch' = [i \in DOMAIN order |-> latest[order[i]]]
    /\ latest' = [r \in Robots |-> None] /\ spent' = 0
    /\ UNCHANGED <<egress, timed, H>>

\* What becomes of a POST that failed: nothing is kept.
Unsent(fix) == latest

\* _send_pose_fix_sync has come back.
Posted(ok) ==
    /\ batch # <<>>
    /\ batch' = Tail(batch) /\ spent' = 0
    /\ latest' = IF ok THEN latest ELSE Unsent(Head(batch))
    /\ UNCHANGED <<egress, timed, H>>

\* close: waiting fixes are dropped; H and the rest die with the process.
TabletPoseRestart ==
    /\ H' = "none" /\ latest' = [r \in Robots |-> None] /\ batch' = <<>> /\ spent' = 0
    /\ UNCHANGED <<egress, timed>>

\* Time passes: the worker is not left waiting, and a POST ends in time.
TabletPoseTick ==
    /\ batch = <<>> => Pending = {}
    /\ batch # <<>> => spent < PostTimeout
    /\ spent' = IF batch = <<>> THEN 0 ELSE spent + 1
    /\ latest' = [r \in Robots |-> IF latest[r] = None THEN None ELSE Older(latest[r])]
    /\ batch' = [i \in DOMAIN batch |-> Older(batch[i])]
    /\ UNCHANGED <<egress, timed, H>>
=============================================================================
