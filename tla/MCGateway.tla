------------------------------ MODULE MCGateway -------------------------------
(***************************************************************************)
(* Two laptops and the console.  Three pinned places, one of them without  *)
(* texture; an arena of 11 x 11 cells with walls two cells wide around it  *)
(* and some inside, seen by a camera on its border.  One robot, the titles *)
(* of a preset, of a saved scenario and of one that becomes a preset when  *)
(* the course is edited.                                                   *)
(***************************************************************************)
EXTENDS Gateway, TLC

CONSTANTS laptopA, laptopB, left, right, dull, floor, pinky1, alone, both, before, after

TwoLaptops == {laptopA, laptopB}
Laptops == Permutations(TwoLaptops)

Places == {left, right, dull, floor}
Pinned == {{left, right, dull}}
Excluded == {{}, {floor}}
Censored == {{}}
Standing == {{}, {right}}
CellsUnder == [s \in Places |-> IF s = floor THEN {<<4, 5>>, <<4, 6>>} ELSE {}]

Picture(walls, out, at) == [dark |-> Ring \cup walls, seen |-> Cells \ out, cam |-> at]
Pictures ==
    {Picture({<<5, 6>>, <<6, 6>>, <<7, 6>>}, {}, <<11, 6>>),
     Picture({<<6, 5>>, <<6, 7>>}, {}, <<11, 6>>),
     Picture({<<6, 5>>, <<7, 6>>}, {}, <<9, 1>>),
     Picture({<<5, 5>>, <<5, 6>>, <<6, 5>>, <<6, 6>>, <<7, 7>>}, {}, <<11, 11>>),
     Picture({<<6, 6>>, <<4, 8>>}, (4..8) \X {4}, <<11, 1>>),
     Picture({<<7, 5>>}, (1..11) \X (10..11), <<11, 9>>)}

MCOrder == pinky1 :> 0
MCRobotsIn == [c \in {alone, both} |-> {pinky1}]
MCPossible == (before :> {alone, both}) @@ (after :> {alone})
MCPreset == (before :> ("s1" :> alone @@ "mine" :> Absent @@ "late" :> Absent))
         @@ (after :> ("s1" :> alone @@ "late" :> alone @@ "mine" :> Absent))
=============================================================================
