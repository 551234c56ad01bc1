----------------------------- MODULE Calibration -----------------------------
(***************************************************************************)
(* The calibration of one camera by the web gateway: the pins an operator  *)
(* sets, the settlement and its receipt (calibration.py), the reference    *)
(* patches that tell whether the camera moved since (drift.py), the places *)
(* excluded from observation (masks.py), and the floor plan built from a   *)
(* settled picture (vision_world.py, in VisionWorld), with the handlers of *)
(* gateway_web_server.py that drive them and restarts of the gateway.      *)
(*                                                                         *)
(* The picture is a set of places.  Its homography is not computed: a      *)
(* settlement is the pins, the conditions they were set under and the      *)
(* arena they were set for.  A movement of the camera is one that drift.py *)
(* can tell, of DRIFT_CM or more.                                          *)
(***************************************************************************)
EXTENDS VisionWorld

CONSTANTS
    Spots,      \* places of the picture a pin or a mask can be on
    Layouts,    \* sets of places the operator pins
    Plain,      \* places without texture, or at the edge: no reference there
    Maskings,   \* sets of places the operator excludes
    Boxes,      \* places the source declares censored
    Crowds,     \* places robots stand on
    Scenes,     \* pictures of the arena: dark cells, cells in view, the camera's cell
    Under,      \* the cells of the arena under each place
    None

Conditions == 0..1
Entry == [pins : Layouts, lens : Conditions \cup {None}, arena : 0..1]

ASSUME CalibrationAssumption ==
    /\ Rows \in Nat /\ Cols \in Nat /\ MinCells \in Nat
    /\ Layouts \subseteq (SUBSET Spots \ {{}}) /\ Plain \subseteq Spots
    /\ Maskings \cup Boxes \cup Crowds \subseteq SUBSET Spots /\ {} \in Maskings
    /\ Scenes \subseteq [dark : SUBSET Cells, seen : SUBSET Cells, cam : Int \X Int]
    /\ Under \in [Spots -> SUBSET Cells] /\ None \notin Layouts \cup Entry

VARIABLES
    camera,     \* its position, its conditions (lens, frame size, session), whether
                \* frames and their facts arrive, the censor box
    robots,     \* places out of sight behind a robot
    arena,      \* version of arena.json the gateway read when it started
    work,       \* working points: in memory and in working.json
    receipt,    \* the last line of receipts.jsonl, and _settled
    ref,        \* drift_<source>.json and .npz
    cache,      \* GLOBAL_DRIFT_CACHE: a verdict less than DRIFT_MIN_INTERVAL_S old
    masks,      \* masks_<source>.json
    anchoring,  \* settle has answered its receipt, its reference is not taken yet
    entered,    \* the pins the operator last set, and did not clear
    world       \* what the request just served has built

vars == <<camera, robots, arena, work, receipt, ref, cache, masks, anchoring, entered, world>>
files == <<receipt, ref, masks>>

Verdicts == {"ANCHORED", "DRIFTED", "UNKNOWN"}

TypeOK ==
    /\ camera \in [at : 0..1, lens : Conditions, live : BOOLEAN, box : Boxes]
    /\ robots \in Crowds /\ arena \in 0..1
    /\ work \in [mem : Entry \cup {None}, file : Entry \cup {None}]
    /\ receipt \in Entry \cup {None}
    /\ ref \in [mine : BOOLEAN,     \* it was taken for the settlement in force
                at : 0..1, patches : SUBSET (Spots \ Plain), robots : Crowds] \cup {None}
    /\ cache \in Verdicts \cup {None}
    /\ masks \in Maskings /\ anchoring \in BOOLEAN
    /\ entered \in Layouts \cup {None}

Init ==
    /\ camera \in [at : {0}, lens : {0}, live : {TRUE}, box : Boxes]
    /\ robots \in Crowds /\ arena = 0
    /\ work = [mem |-> None, file |-> None] /\ receipt = None /\ ref = None /\ cache = None
    /\ masks = {} /\ anchoring = FALSE /\ entered = None /\ world = None

-----------------------------------------------------------------------------
(***************************************************************************)
(* What the gateway says of the source.                                    *)
(***************************************************************************)
\* _invalidation: what is not known is not compared.
Invalid(r) ==
    \/ r.arena # arena
    \/ camera.live /\ r.lens # None /\ r.lens # camera.lens

\* CalibrationStore.state
StoreState ==
    IF work.mem # None THEN "CALIBRATING"
    ELSE IF receipt = None THEN "UNCALIBRATED"
    ELSE IF Invalid(receipt) THEN "DRIFT" ELSE "SETTLED"

\* find_patch and measure: a patch that looks different is not found, one that
\* is found stands where the camera's position puts it.
Lost == {s \in ref.patches : (s \in robots) # (s \in ref.robots)}

\* classify: lost patches before shifted ones; all lost is no local matter.
Classified ==
    IF ref.patches = {} THEN "UNKNOWN"
    ELSE IF Lost = ref.patches THEN "DRIFTED"
    ELSE IF Lost # {} THEN "UNKNOWN"
    ELSE IF camera.at # ref.at THEN "DRIFTED" ELSE "ANCHORED"

\* _drift_state without its cache.
Measured == IF camera.live THEN Classified ELSE "UNKNOWN"

\* _drift_state; None when there is no reference.
DriftState ==
    IF cache # None THEN cache ELSE IF ref = None THEN None ELSE Measured

\* _calib_state
State == IF StoreState = "SETTLED" /\ DriftState = "DRIFTED" THEN "DRIFT" ELSE StoreState

\* What asking for it leaves in the cache.
CacheAfter == IF StoreState = "SETTLED" THEN DriftState ELSE cache

-----------------------------------------------------------------------------
(***************************************************************************)
(* The handlers, each of one request.                                      *)
(***************************************************************************)
\* GET /api/calibration, and the framing and preview pages.
Ask ==
    /\ cache' = CacheAfter /\ world' = None
    /\ UNCHANGED <<camera, robots, arena, work, receipt, ref, masks, anchoring, entered>>

\* DRIFT_MIN_INTERVAL_S have passed.
CacheExpires ==
    /\ cache # None /\ cache' = None /\ world' = None
    /\ UNCHANGED <<camera, robots, arena, work, receipt, ref, masks, anchoring, entered>>

\* check_corner_quad, point_in_box and _mask_blocking; without a frame size
\* nothing is known to be covered.
PinsCovered(pins) == camera.live /\ pins \cap (camera.box \cup masks) # {}

\* POST /api/calibration/points
SetPoints(pins) ==
    /\ ~PinsCovered(pins)
    /\ work' = LET lens == IF camera.live THEN camera.lens ELSE None
                   entry == [pins |-> pins, lens |-> lens, arena |-> arena]
               IN [mem |-> entry, file |-> entry]
    /\ entered' = pins /\ world' = None
    /\ UNCHANGED <<camera, robots, arena, files, cache, anchoring>>

\* POST /api/calibration/settle: the receipt first, then the points go.
Settle ==
    /\ work.mem # None /\ work.mem.arena = arena /\ ~anchoring
    /\ receipt' = work.mem
    /\ work' = [mem |-> None, file |-> None]
    /\ ref' = IF ref = None THEN ref ELSE [ref EXCEPT !.mine = FALSE]
    /\ anchoring' = TRUE /\ world' = None
    /\ UNCHANGED <<camera, robots, arena, cache, masks, entered>>

\* take_patches: not under a mask, not where nothing is to be seen.
Patches == (receipt.pins \ Plain) \ masks

\* _drift_anchor: with a frame, or not at all; the handler then answers the state.
Anchor ==
    /\ anchoring /\ anchoring' = FALSE /\ world' = None
    /\ IF camera.live
       THEN /\ ref' = [mine |-> TRUE, at |-> camera.at, patches |-> Patches, robots |-> robots]
            /\ cache' = None
       ELSE UNCHANGED <<ref, cache>>
    /\ UNCHANGED <<camera, robots, arena, work, receipt, masks, entered>>

\* POST /api/calibration/clear: the points and the reference, not the receipt.
Clear ==
    /\ work' = [mem |-> None, file |-> None]
    /\ ref' = None /\ cache' = None /\ entered' = None /\ world' = None
    /\ UNCHANGED <<camera, robots, arena, receipt, masks, anchoring>>

\* validate_against_calibration: the pins of the state, if the size is known.
PinsShown ==
    IF work.mem # None THEN work.mem.pins ELSE IF receipt # None THEN receipt.pins ELSE {}

\* POST /api/calibration/masks
SaveMasks(m) ==
    /\ m # masks /\ (camera.live => PinsShown \cap m = {})
    /\ masks' = m /\ cache' = None /\ world' = None
    /\ UNCHANGED <<camera, robots, arena, work, receipt, ref, anchoring, entered>>

\* The plan of every view there can be, computed once.
Hidden(S) == UNION {Under[s] : s \in S}
View(scene, box, mask) ==
    [scene |-> scene, inView |-> InView(scene.seen, Hidden(box), Hidden(mask))]
Views == {View(v[1], v[2], v[3]) : v \in Scenes \X Boxes \X Maskings}
PlanOf == [v \in Views |-> World(v.scene.dark, v.inView, v.scene.cam)]

\* POST /api/vision/world, _vision_build: of a frame and a settled state only.
Build(scene) ==
    /\ camera.live /\ State = "SETTLED"
    /\ cache' = CacheAfter
    /\ world' = View(scene, camera.box, masks)
    /\ UNCHANGED <<camera, robots, arena, work, receipt, ref, masks, anchoring, entered>>

-----------------------------------------------------------------------------
(***************************************************************************)
(* The camera, the robots and the gateway's process.                       *)
(***************************************************************************)
CameraChanges ==
    /\ camera' \in {[camera EXCEPT !.at = 1 - @], [camera EXCEPT !.lens = 1 - @],
                    [camera EXCEPT !.live = ~@]}
    /\ world' = None
    /\ UNCHANGED <<robots, arena, work, files, cache, anchoring, entered>>

RobotsMove ==
    /\ robots' \in Crowds \ {robots} /\ world' = None
    /\ UNCHANGED <<camera, arena, work, files, cache, anchoring, entered>>

\* The process ends at any point and comes back (_load, load_arena).
Restarted(workFile) ==
    /\ work' = [mem |-> workFile, file |-> workFile]
    /\ arena' \in 0..1
    /\ cache' = None /\ anchoring' = FALSE /\ world' = None
    /\ UNCHANGED <<camera, robots, masks, entered>>

Restart == Restarted(work.file) /\ UNCHANGED <<receipt, ref>>

\* It ends inside settle, between the first file and the second.
MutHalfSettled == receipt' = receipt /\ Restarted(None)      \* the points went first

HalfSettled == receipt' = work.mem /\ Restarted(work.file)

CrashInSettle ==
    /\ work.mem # None /\ work.mem.arena = arena
    /\ HalfSettled
    /\ ref' = IF ref = None THEN ref ELSE [ref EXCEPT !.mine = FALSE]

Next ==
    \/ Ask \/ CacheExpires \/ Settle \/ Anchor \/ Clear
    \/ \E pins \in Layouts : SetPoints(pins)
    \/ \E m \in Maskings : SaveMasks(m)
    \/ \E scene \in Scenes : Build(scene)
    \/ CameraChanges \/ RobotsMove \/ Restart \/ CrashInSettle

Spec == Init /\ [][Next]_vars

-----------------------------------------------------------------------------
(***************************************************************************)
(* Pins the operator set and did not clear are never lost to a crash:      *)
(* working.json still has them, or their receipt has been written.         *)
(***************************************************************************)
PinsSurvive ==
    entered # None => \/ work.file # None /\ work.file.pins = entered
                      \/ receipt # None /\ receipt.pins = entered

(***************************************************************************)
(* No floor plan calls a cell free that the camera cannot see: one that is *)
(* masked, censored or out of the frame, or behind a wall inside the arena *)
(* (cast_shadows samples its rays; the reference follows the straight      *)
(* line).                                                                  *)
(***************************************************************************)
Honest == {v \in Views : LET grid == PlanOf[v].grid
                          IN grid # <<>> => FreeIsSeenIn(grid, v.scene.cam, v.inView)}
FreeIsSeen == world # None => world \in Honest

(***************************************************************************)
(* The wall boxes written to the simulator's world are the occupied cells  *)
(* of the plan, each once (merge_rects).                                   *)
(***************************************************************************)
Exact == {v \in Views : LET grid == PlanOf[v].grid
                             walls == {p \in Cells : grid[p] = "occupied"}
                         IN grid # <<>> => ExactCover(PlanOf[v].rects, walls)}
WallsAreExact == world # None => world \in Exact

=============================================================================
