--------------------------- MODULE MCVisionMission ----------------------------
(***************************************************************************)
(* One mission on MCVisionDriver's course, of a robot alone that needs no  *)
(* clearance, and the two robots of the fleet at the station.              *)
(***************************************************************************)
EXTENDS VisionMission, TLC

CONSTANTS pinky1, pinky2

MCRobots == {pinky1, pinky2}
MCDomainId == (pinky1 :> 10) @@ (pinky2 :> 11)
MCLinesByOrder == <<2, 1>>

MCOnePlan == << [skip_clearance |-> TRUE, stop_line_count |-> 1] >>
=============================================================================
