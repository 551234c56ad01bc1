---------------------------- MODULE VideoSources -----------------------------
(***************************************************************************)
(* The pictures the gateway has of the arena (source_registry.py): a       *)
(* pulled phone and the relay's own camera, which count as viewpoints, and *)
(* the slot phones push into, which does not.  The observation session     *)
(* holds the camera while it is on, and /api/safety tells the page whether *)
(* there are viewpoints enough.                                            *)
(*                                                                         *)
(* The slot shares nothing with the viewpoints, and the phone meets the    *)
(* camera only in the count: "moving" names the parts of a behaviour whose *)
(* surroundings change, to keep the instance small.                        *)
(***************************************************************************)
EXTENDS Naturals, Sequences, FiniteSets

CONSTANTS Urls, Lan, Targets, Publishers, MaxSessions, MaxSeq, None,
          Moving        \* the sets of parts that may move in one behaviour

Parts == {"phone", "camera", "slot", "sidecar"}

VARIABLES
    mode, puller,       \* MjpegPuller
    device, cam,        \* LocalCamera
    viewer,             \* somebody watches the camera's stream
    observing,          \* ObservationSession.active
    holds,              \* values set_active has read and not yet passed to hold()
    report,             \* the severity /api/safety last answered
    up, ingest,         \* StreamIngest
    publisher, pulled, heard,   \* Sidecar
    moving              \* the parts that move

Phone == INSTANCE MjpegPuller
Camera == INSTANCE LocalCamera
Slot == INSTANCE StreamIngest
Headers == INSTANCE Sidecar

ASSUME VideoAssumption == Moving \subseteq SUBSET Parts /\ Phone!PullerConstants /\ Headers!SidecarConstants

session == <<viewer, observing, holds, report>>
slot == <<up, ingest>>
headers == <<publisher, pulled, heard>>
vars == <<mode, puller, device, cam, session, slot, headers, moving>>

TypeOK ==
    /\ Phone!PullerTypeOK /\ Camera!CameraTypeOK /\ Slot!IngestTypeOK
    /\ Headers!SidecarTypeOK
    /\ viewer \in BOOLEAN /\ observing \in BOOLEAN /\ holds \subseteq BOOLEAN
    /\ report \in {"ok", "info", "safety"} /\ moving \in Moving

Init ==
    /\ Phone!PullerInit /\ Camera!CameraInit /\ Slot!IngestInit
    /\ Headers!SidecarInit
    /\ viewer \in BOOLEAN /\ observing = FALSE /\ holds = {} /\ report = "info"
    /\ moving \in Moving
    \* what does not move starts in one state only
    /\ "phone" \notin moving => mode = [a \in DOMAIN mode |-> "off"]
    /\ "slot" \notin moving => up = {} /\ ingest.url = None
    /\ moving \cap {"slot", "sidecar"} # {} => ~viewer /\ ~device

-----------------------------------------------------------------------------
\* real_viewpoint_ids: trusted sources of a local or pull transport, connected.
RealViewpoints ==
    (IF Phone!PullerConnected THEN {"phone"} ELSE {})
        \cup (IF Camera!CameraConnected THEN {"camera"} ELSE {})

MIN_REAL_VIEWPOINTS == 2

\* readiness, of the viewpoints.
Severity ==
    IF Cardinality(RealViewpoints) >= MIN_REAL_VIEWPOINTS THEN "ok"
    ELSE IF observing THEN "safety" ELSE "info"

View == UNCHANGED <<slot, headers, moving>> /\ moving \cap {"phone", "camera"} # {}
CameraMoves == View /\ "camera" \in moving

\* GET /api/safety, polled by the page; the state of a source is its probe.
Poll ==
    /\ View /\ UNCHANGED <<mode, puller, device, viewer, observing, holds>>
    /\ report' = Severity /\ cam' = Camera!Probe(cam)

\* The stream of the camera asks for a frame in each turn.
Watch ==
    /\ View /\ UNCHANGED <<mode, puller, device, session>>
    /\ viewer /\ cam' = Camera!Demand(cam)

\* idle_release_s since the last look; a viewer looks more often.
Forget ==
    /\ CameraMoves /\ UNCHANGED <<mode, puller, device, session>>
    /\ ~viewer /\ cam.asked /\ cam' = [cam EXCEPT !.asked = FALSE]

ViewerChanges ==
    /\ CameraMoves /\ UNCHANGED <<mode, puller, device, cam, observing, holds, report>>
    /\ viewer' = ~viewer

\* POST /api/observe: each request has a thread of its own.
SetActive(flag) ==
    /\ CameraMoves /\ UNCHANGED <<mode, puller, device, cam, viewer, report>>
    /\ observing' = flag /\ holds' = holds \cup {flag}

HoldCamera(flag) ==
    /\ CameraMoves /\ UNCHANGED <<mode, puller, device, viewer, observing, report>>
    /\ flag \in holds /\ holds' = holds \ {flag}
    /\ cam' = Camera!Hold(cam, flag)

OfPhone == View /\ "phone" \in moving /\ UNCHANGED <<device, cam, session>>
PhoneRuns == OfPhone /\ Phone!PullerStep
PhoneAges == OfPhone /\ Phone!PullerAges
PhoneChanges == OfPhone /\ Phone!ModeChanges

OfCamera == View /\ UNCHANGED <<mode, puller, session>>
CameraRuns == OfCamera /\ Camera!CameraStep
CameraAges == OfCamera /\ Camera!CameraAges
CameraChanges == OfCamera /\ CameraMoves /\ Camera!DeviceChanges

OfSlot == "slot" \in moving /\ UNCHANGED <<mode, puller, device, cam, session, headers, moving>>
SlotRuns == OfSlot /\ Slot!IngestStep
SlotPushed == OfSlot /\ Slot!Push
SlotChanges ==
    /\ OfSlot
    /\ Slot!PushEnds \/ Slot!UpChanges \/ \E u \in Targets : Slot!Update(u)

SidecarSteps ==
    /\ "sidecar" \in moving
    /\ UNCHANGED <<mode, puller, device, cam, session, slot, moving>>
    /\ Headers!SidecarStep

Next ==
    \/ Poll \/ Watch \/ Forget \/ ViewerChanges
    \/ \E flag \in BOOLEAN : SetActive(flag) \/ HoldCamera(flag)
    \/ PhoneRuns \/ PhoneAges \/ PhoneChanges
    \/ CameraRuns \/ CameraAges \/ CameraChanges
    \/ SlotRuns \/ SlotPushed \/ SlotChanges \/ SidecarSteps

\* The threads run, the page polls, a viewer's stream asks, time passes; pushes
\* of which the last is less than 3 s old go on, or have ended (PushEnds).
Fairness ==
    /\ WF_vars(PhoneRuns) /\ WF_vars(PhoneAges)
    /\ WF_vars(CameraRuns) /\ WF_vars(CameraAges)
    /\ WF_vars(Poll) /\ WF_vars(Watch) /\ WF_vars(Forget) /\ WF_vars(SlotRuns)
    /\ WF_vars(ingest.push /\ SlotPushed)

Spec == Init /\ [][Next]_vars /\ Fairness

-----------------------------------------------------------------------------
(***************************************************************************)
(* No frame is reported lost that was received, or that is received later, *)
(* or that was never numbered (Sidecar; mjpeg_puller.py _note_sidecar).    *)
(***************************************************************************)
LossIsReal == Headers!LossIsReal

(***************************************************************************)
(* With one address that serves, a working camera and a viewer, /api/safety*)
(* comes to answer that there are viewpoints enough, whatever the phone's  *)
(* other addresses do and wherever the ping says the phone is: a silent    *)
(* address is left, one that cannot be opened is tried again, and the list *)
(* growing and shrinking under the index cannot hide the one that serves   *)
(* (mjpeg_puller.py _run, local_camera.py _run).                           *)
(***************************************************************************)
ViewpointsReturn ==
    /\ <>[]("phone" \in moving /\ viewer /\ device /\ \E i \in DOMAIN Urls : mode[Urls[i]] = "serve")
    /\ <>[][mode' = mode]_mode
    => <>[](report = "ok")

(***************************************************************************)
(* The camera's light goes out when nobody watches and nothing holds it,   *)
(* though the page goes on asking for the state of the sources (MCV-1C).   *)
(***************************************************************************)
LightGoesOut == <>[]("camera" \in moving /\ ~viewer /\ ~cam.held) => <>[](cam.thread = "none")

=============================================================================
