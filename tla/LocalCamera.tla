----------------------------- MODULE LocalCamera -----------------------------
(***************************************************************************)
(* The camera plugged into the relay (local_camera.py): a thread has the   *)
(* device open while somebody asks for frames or holds it, and lets go of  *)
(* it after idle_release_s without either (its light goes out).            *)
(***************************************************************************)
VARIABLES
    device,     \* it can be opened and read
    cam         \* the thread, the demand and the frame it holds

Threads == {"none", "opening", "open", "waiting", "leaving"}

CameraTypeOK ==
    /\ device \in BOOLEAN
    /\ cam \in [thread : Threads, held : BOOLEAN,
                asked : BOOLEAN,       \* a demand within idle_release_s
                fresh : BOOLEAN]       \* a frame within stale_after_s

CameraInit ==
    /\ device \in BOOLEAN
    /\ cam = [thread |-> "none", held |-> FALSE, asked |-> FALSE, fresh |-> FALSE]

\* _ensure_running: a thread that is on its way out is alive, too.
EnsureRunning(c) == IF c.thread = "none" THEN [c EXCEPT !.thread = "opening"] ELSE c

\* get_latest_jpeg, get_latest_cv_frame: a look is a demand.
Demand(c) == EnsureRunning([c EXCEPT !.asked = TRUE])

MutProbe(c) == Demand(c)           \* asking for the state is a demand

\* probe: the state only.
Probe(c) == c

\* hold
Hold(c, flag) ==
    IF flag THEN EnsureRunning([c EXCEPT !.held = TRUE]) ELSE [c EXCEPT !.held = FALSE]

\* _idle
Idle == ~cam.held /\ ~cam.asked

\* _run.  Leaving is from the decision to release until _thread is cleared.
Leave ==
    /\ cam.thread \in {"opening", "open"} /\ Idle
    /\ cam' = [cam EXCEPT !.thread = "leaving"]

Left == cam.thread = "leaving" /\ cam' = [cam EXCEPT !.thread = "none"]

Open ==
    /\ cam.thread = "opening" /\ ~Idle
    /\ cam' = [cam EXCEPT !.thread = IF device THEN "open" ELSE "waiting"]

Read ==
    /\ cam.thread = "open" /\ ~Idle
    /\ cam' = IF device THEN [cam EXCEPT !.fresh = TRUE] ELSE [cam EXCEPT !.thread = "waiting"]

Reopen == cam.thread = "waiting" /\ cam' = [cam EXCEPT !.thread = "opening"]

CameraStep == (Leave \/ Left \/ Open \/ Read \/ Reopen) /\ UNCHANGED device

\* Time passes; frames come faster than stale_after_s from an open device.
CameraAges ==
    /\ cam.fresh /\ ~(cam.thread = "open" /\ device)
    /\ cam' = [cam EXCEPT !.fresh = FALSE] /\ UNCHANGED device

DeviceChanges == device' = ~device /\ UNCHANGED cam

CameraConnected == cam.fresh
=============================================================================
