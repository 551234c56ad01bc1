--------------------------- MODULE MCVisionDriver ---------------------------
(***************************************************************************)
(* The course and the missions TLC drives: a crosswalk, the junction, its  *)
(* exit line, two white lines and the goal marker.  The crosswalk lies as  *)
(* far before the line as a crosswalk re-latch is long.                    *)
(***************************************************************************)
EXTENDS VisionDriver

MCRedAt == {3, 5}
MCCrosswalkAt == {0}
MCWhiteAt == {6, 7}
MCMarkerAt == {8}
MCNearMarkerAt == {7, 8}

\* One mission ends at the marker, the next at the second white line.
MCPlans ==
    << [skip_clearance |-> FALSE, stop_line_count |-> 0],
       [skip_clearance |-> FALSE, stop_line_count |-> 2] >>

=============================================================================
