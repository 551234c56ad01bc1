---------------------------- MODULE MCCoordinates ---------------------------
(***************************************************************************)
(* Two robots before the overhead camera and one goal camera.  A tick is   *)
(* about a second; the limits are shortened and keep their order.          *)
(***************************************************************************)
EXTENDS Coordinates

CONSTANTS p1, p2, here, there

Alone == <<p1>>
Waits == <<1, 1>>
=============================================================================
