--------------------------- MODULE MCFleetControl ---------------------------
(***************************************************************************)
(* Instances of FleetControl for TLC.                                      *)
(***************************************************************************)
EXTENDS FleetControl

CONSTANTS r1, r2

\* A mission file that finds a route for r1, or for no robot.
Either == {{}, {r1}}
=============================================================================
