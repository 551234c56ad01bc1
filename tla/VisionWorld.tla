----------------------------- MODULE VisionWorld -----------------------------
(***************************************************************************)
(* From a picture of the arena to an occupancy grid (vision_world.py): the *)
(* operators build() is made of, on a grid of cells.  A picture says which *)
(* cells are dark and which are in view; the projection that finds the     *)
(* cells in the frame is not modelled.                                     *)
(***************************************************************************)
EXTENDS Integers, FiniteSets

CONSTANTS
    Rows, Cols,     \* the grid; row 1 is the top of the arena
    MinCells        \* fewer cells than this say nothing (16 in the code)

Cells == (1..Rows) \X (1..Cols)
Abs(n) == IF n < 0 THEN -n ELSE n
Larger(a, b) == IF a > b THEN a ELSE b
Greatest(S) == CHOOSE n \in S : \A k \in S : n >= k

\* boundary_ring, two cells wide: the outer wall is there.
Ring == {p \in Cells : \/ p[1] <= 2 \/ p[1] > Rows - 2
                       \/ p[2] <= 2 \/ p[2] > Cols - 2}

\* cv2.dilate with a 3x3 kernel.
Around(p) == ((p[1] - 1)..(p[1] + 1)) \X ((p[2] - 1)..(p[2] + 1))
Dilated(S) == Cells \cap UNION {Around(p) : p \in S}
OuterWall == Dilated(Ring)

\* sample_plane: what is under the censor box or a mask was not seen.
InView(seen, censored, masked) == (seen \ censored) \ masked

\* require_contrast
Contrast(dark, inView) ==
    Cardinality(inView) >= MinCells /\ inView \cap dark # {} /\ inView \ dark # {}

\* detect_wall_polarity: the border is wall, so its median tells.
MostlyDark(S, dark) == 2 * Cardinality(S \cap dark) > Cardinality(S)
Polarity(dark, inView) ==
    LET border == Ring \cap inView
        inner == inView \ Ring
    IN IF Cardinality(border) < MinCells \/ Cardinality(inner) < MinCells THEN "unknown"
       ELSE IF MostlyDark(border, dark) = MostlyDark(inner, dark) THEN "unknown"
       ELSE IF MostlyDark(border, dark) THEN "dark" ELSE "bright"

\* occupancy_from_gray
Occupied(dark, inView, wall) == IF wall = "dark" THEN dark \cap inView ELSE inView \ dark

-----------------------------------------------------------------------------
(***************************************************************************)
(* cast_shadows                                                            *)
(***************************************************************************)
\* round() of n/d, a half to the even side.
Rounded(n, d) ==
    LET low == n \div d
        rest == 2 * (n % d)
    IN IF rest < d \/ (rest = d /\ low % 2 = 0) THEN low ELSE low + 1

\* The i-th of n cells of the ray from the camera to p.
RayCell(cam, p, i, n) ==
    <<Rounded(cam[1] * n + (p[1] - cam[1]) * i, n), Rounded(cam[2] * n + (p[2] - cam[2]) * i, n)>>

MutBlockersThin(occ) == occ \ OuterWall        \* the walls are not grown

\* Walls stop a ray one cell around; the outer wall, seen over, does not.
Blockers(occ) == Dilated(occ) \ OuterWall

RayFree(cam, p, blockers) ==
    LET n == Larger(Abs(p[1] - cam[1]), Abs(p[2] - cam[2]))
    IN \A i \in 1..(n - 1) : RayCell(cam, p, i, n) \notin blockers

Visible(occ, inView, cam) ==
    LET blockers == Blockers(occ)
    IN {p \in inView : p \in occ \/ RayFree(cam, p, blockers)}

\* build_grid: unknown unless seen.
BuildGrid(occ, inView, visible) ==
    [p \in Cells |-> CASE p \in occ \cap inView -> "occupied"
                       [] p \in (inView \cap visible) \ occ -> "free"
                       [] OTHER -> "unknown"]

\* sanity_check
Sane(grid, inView) ==
    LET count(v) == Cardinality({p \in Cells : grid[p] = v})
    IN /\ Cardinality(inView) >= MinCells /\ count("free") > 0
       /\ 4 * count("occupied") <= 3 * Cardinality(inView)

-----------------------------------------------------------------------------
(***************************************************************************)
(* merge_rects: from the top left, a run of a row, then grown downwards.   *)
(***************************************************************************)
Rect(r1, c1, r2, c2) == (r1..r2) \X (c1..c2)

RunEnd(free, p) ==
    Greatest({c \in p[2]..Cols : \A k \in p[2]..c : <<p[1], k>> \in free})

MutGrownAlone(free, p, c2) ==          \* only the first cell of the next row is looked at
    Greatest({r \in p[1]..Rows : \A k \in p[1]..r : <<k, p[2]>> \in free})

GrownTo(free, p, c2) ==
    Greatest({r \in p[1]..Rows : Rect(p[1], p[2], r, c2) \subseteq free})

First(S) == CHOOSE p \in S : \A q \in S : Cols * p[1] + p[2] <= Cols * q[1] + q[2]

MergeRects(mask) ==
    LET merged[free \in SUBSET mask] ==
            IF free = {} THEN {}
            ELSE LET p == First(free)
                     c2 == RunEnd(free, p)
                     rect == Rect(p[1], p[2], GrownTo(free, p, c2), c2)
                 IN {rect} \cup merged[free \ rect]
    IN merged[mask]

-----------------------------------------------------------------------------
\* build, of a settled source: refused, or the grid with its wall boxes.
World(dark, inView, cam) ==
    LET wall == Polarity(dark, inView)
        occ == Occupied(dark, inView, wall)
        grid == BuildGrid(occ, inView, Visible(occ, inView, cam))
    IN IF ~Contrast(dark, inView) \/ wall = "unknown" \/ ~Sane(grid, inView)
       THEN [grid |-> <<>>, rects |-> {}]
       ELSE [grid |-> grid, rects |-> MergeRects(occ)]

-----------------------------------------------------------------------------
(***************************************************************************)
(* A reference for what may be called free: in view, and the straight      *)
(* segment from the middle of the camera's cell to its own does not enter  *)
(* a wall.  Twice the coordinates, to have the corners of cells as         *)
(* integers.                                                               *)
(***************************************************************************)
Side(cam, p, y, x) ==
    (x - 2 * cam[2]) * (2 * p[1] - 2 * cam[1]) - (y - 2 * cam[1]) * (2 * p[2] - 2 * cam[2])

Enters(cam, p, w) ==
    LET sides == {Side(cam, p, 2 * w[1] + a, 2 * w[2] + b) : a \in {-1, 1}, b \in {-1, 1}}
        meets(i) == /\ 2 * Larger(cam[i], p[i]) > 2 * w[i] - 1
                    /\ 2 * (cam[i] + p[i] - Larger(cam[i], p[i])) < 2 * w[i] + 1
    IN /\ meets(1) /\ meets(2)
       /\ (\E s \in sides : s > 0) /\ (\E s \in sides : s < 0)

\* Cells the outer wall is not near.
Inside == {w \in Cells : Around(w) \cap OuterWall = {}}

FreeIsSeenIn(grid, cam, inView) ==
    \A p \in Cells : grid[p] = "free" =>
        /\ p \in inView
        /\ \A w \in Inside : grid[w] = "occupied" /\ w # cam => ~Enters(cam, p, w)

ExactCover(rects, mask) ==
    /\ UNION rects = mask
    /\ \A a \in rects : \A b \in rects \ {a} : a \cap b = {}
=============================================================================
