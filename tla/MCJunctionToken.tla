--------------------------- MODULE MCJunctionToken ---------------------------
(***************************************************************************)
(* The two robots of the fleet.                                            *)
(***************************************************************************)
EXTENDS JunctionToken

CONSTANTS pinky1, pinky2

MCRobots == {pinky1, pinky2}
MCDomainId == (pinky1 :> 10) @@ (pinky2 :> 11)
MCLinesByOrder == <<2, 1>>
=============================================================================
