----------------------------- MODULE GraphEditor -----------------------------
(***************************************************************************)
(* The road graph editor (pinky_lane_station/graph_editor.py) and the file *)
(* it writes (road_graph.py): clicks and keys change a graph that others   *)
(* load from the file only.                                                *)
(*                                                                         *)
(* A click lands on a place: on what is drawn there, or on nothing.  Nodes *)
(* are numbered as add_node names them; an edge is known by its two ends.  *)
(***************************************************************************)
EXTENDS Naturals, Sequences

CONSTANTS
    Places,
    MaxNodes, MaxMiddle, MaxEdits,  \* bounds: nodes, middle points of an edge, changes made
    None

NodeIds == 1..MaxNodes
EdgeIds == {e \in NodeIds \X NodeIds : e[1] # e[2]}

VARIABLES
    at,         \* graph.nodes: where each node is
    edges,      \* graph.edges: the waypoints, and oneway
    ui,         \* mode, selected, dragging, pending_edge, route_a and route_b, dirty
    window,     \* the program: open, closed by the user, or ended by an exception
    disk,       \* the file: a graph, or what a torn write left
    edits       \* the changes made so far

graph == <<at, edges>>
editor == <<at, edges, ui, window, disk, edits>>

Node(n) == [kind |-> "node", id |-> n]
Edge(e) == [kind |-> "edge", id |-> e]      \* with no middle point selected
Middle(e) == [kind |-> "middle", id |-> e]
Things == {Node(n) : n \in NodeIds} \cup {Edge(e) : e \in EdgeIds} \cup {Middle(e) : e \in EdgeIds}
Pending == [from : NodeIds, points : UNION {[1..k -> Places] : k \in 0..MaxMiddle}]
Routes == EdgeIds \cup {None}

GraphEditorTypeOK ==
    /\ at \in [NodeIds -> Places \cup {None}]
    /\ \A e \in EdgeIds : edges[e] # None =>
            edges[e].oneway \in BOOLEAN /\ Len(edges[e].way) \in 2..MaxMiddle + 2
    /\ ui.mode \in {"select", "node", "edge"} /\ ui.dirty \in BOOLEAN
    /\ ui.selected \in Things \cup {None} /\ ui.dragging \in Things \cup {None}
    /\ ui.pending \in Pending \cup {None}
    /\ ui.routeA \in Routes /\ ui.routeB \in Routes
    /\ window \in {"open", "closed", "crashed"} /\ edits \in 0..MaxEdits

Nodes(a) == {n \in NodeIds : a[n] # None}
Edges(es) == {e \in EdgeIds : es[e] # None}

\* validate: both ends exist and are where the way ends; a way has a length.
Sound ==
    \A e \in Edges(edges) :
        LET way == edges[e].way
        IN /\ {e[1], e[2]} \subseteq Nodes(at)
           /\ way[1] = at[e[1]] /\ way[Len(way)] = at[e[2]]
           /\ \E i \in DOMAIN way : way[i] # way[1]

Torn == <<>>
Fresh == [mode |-> "select", selected |-> None, dragging |-> None, pending |-> None,
          routeA |-> None, routeB |-> None, dirty |-> FALSE]

\* The file at the start: two nodes and the road between them.
GraphEditorInit ==
    /\ \E a, b \in Places :
        /\ a # b
        /\ at = [n \in NodeIds |-> IF n = 1 THEN a ELSE IF n = 2 THEN b ELSE None]
        /\ edges = [e \in EdgeIds |->
                IF e = <<1, 2>> THEN [way |-> <<a, b>>, oneway |-> FALSE] ELSE None]
    /\ ui = Fresh /\ window = "open" /\ disk = graph /\ edits = 0

-----------------------------------------------------------------------------
\* The graph has become (a, es), drawn with u; painting looks up what an edge being
\* drawn and two previewed routes refer to, and an unknown name ends the program.
Shared(u) == u.routeA # None /\ u.routeB = <<u.routeA[2], u.routeA[1]>>
Drawable(u, a, es) ==
    /\ u.pending # None => u.pending.from \in Nodes(a)
    /\ Shared(u) => {u.routeA, u.routeB} \cap Edges(es) # {}
Drawn(u, a, es) ==
    /\ ui' = u /\ at' = a /\ edges' = es
    /\ window' = IF Drawable(u, a, es) THEN "open" ELSE "crashed"
    /\ edits' = edits + (IF <<a, es>> = graph THEN 0 ELSE 1) /\ edits' <= MaxEdits
    /\ UNCHANGED disk

MutEdited == ui
Edited == [ui EXCEPT !.dirty = TRUE]
Look(u) == Drawn(u, at, edges)
Open == window = "open"
ButtonUp == Open /\ ui.dragging = None     \* keys work in a drag, a second press does not

\* What is drawn at a place: _pick_node before _pick_waypoint before _pick_edge.
NodesAt(p) == {n \in Nodes(at) : at[n] = p}
MiddlesAt(p) == {e \in Edges(edges) : \E i \in 2..Len(edges[e].way) - 1 : edges[e].way[i] = p}
Pick(u, thing, drag) == [u EXCEPT !.selected = thing, !.dragging = IF drag THEN thing ELSE @]

-----------------------------------------------------------------------------
\* add_node, by a click on nothing.
AddNode(p) ==
    /\ ButtonUp /\ ui.mode = "node" /\ NodesAt(p) = {}
    /\ \E n \in NodeIds \ Nodes(at) :
        /\ 1..(n - 1) \subseteq Nodes(at)
        /\ Drawn([Edited EXCEPT !.selected = Node(n)], [at EXCEPT ![n] = p], edges)

\* A click selects and begins a drag.
Grab(p) ==
    /\ ButtonUp /\ ui.mode \in {"select", "node"}
    /\ \E n \in NodesAt(p) : Look(Pick(ui, Node(n), TRUE))

GrabElsewhere(p) ==
    /\ ButtonUp /\ ui.mode = "select" /\ NodesAt(p) = {}
    /\ IF MiddlesAt(p) # {}
       THEN \E e \in MiddlesAt(p) : Look(Pick(ui, Middle(e), TRUE))
       ELSE \E thing \in {Edge(e) : e \in Edges(edges)} \cup {None} : Look(Pick(ui, thing, FALSE))

\* Edge mode: the first node, points between, the last node.
BeginEdge(n) ==
    /\ ButtonUp /\ ui.mode = "edge" /\ ui.pending = None
    /\ Look([ui EXCEPT !.pending = [from |-> n, points |-> <<>>]])

Point(p) ==
    /\ ButtonUp /\ ui.mode = "edge" /\ ui.pending # None /\ NodesAt(p) = {}
    /\ Len(ui.pending.points) < MaxMiddle
    /\ Look([ui EXCEPT !.pending.points = Append(@, p)])

EndEdge(n) ==
    /\ ButtonUp /\ ui.mode = "edge" /\ ui.pending # None /\ n # ui.pending.from
    /\ LET e == <<ui.pending.from, n>>
           way == <<at[e[1]]>> \o ui.pending.points \o <<at[n]>>
       IN /\ edges[e] = None      \* bound: one edge from a node to another
          /\ Drawn([Edited EXCEPT !.pending = None, !.selected = Edge(e)],
                   at, [edges EXCEPT ![e] = [way |-> way, oneway |-> FALSE]])

\* move_node: the ends of its edges go along.
Moved(n, p) ==
    [e \in EdgeIds |->
        IF edges[e] = None THEN None
        ELSE IF e[1] = n THEN [edges[e] EXCEPT !.way[1] = p]
        ELSE IF e[2] = n THEN [edges[e] EXCEPT !.way[Len(edges[e].way)] = p] ELSE edges[e]]

\* mouseMoveEvent with something held; it may be gone.
Gone(thing) == IF thing.kind = "node" THEN thing.id \notin Nodes(at) ELSE thing.id \notin Edges(edges)
Drag(p) ==
    /\ Open /\ ui.dragging # None
    /\ IF Gone(ui.dragging) THEN window' = "crashed" /\ UNCHANGED <<at, edges, ui, disk, edits>>
       ELSE IF ui.dragging.kind = "node"
       THEN Drawn(Edited, [at EXCEPT ![ui.dragging.id] = p],
                  Moved(ui.dragging.id, p))
       ELSE IF Len(edges[ui.dragging.id].way) = 2 THEN Look(ui)     \* drawn anew without it
       ELSE Drawn(Edited, at, [edges EXCEPT ![ui.dragging.id].way[2] = p])
Drop == Open /\ ui.dragging # None /\ Look([ui EXCEPT !.dragging = None])

\* keyPressEvent
MutWithout(thing) == [e \in EdgeIds |-> IF thing.kind # "node" /\ thing.id = e THEN None ELSE edges[e]]
Without(thing) ==
    [e \in EdgeIds |->
        IF (thing.kind = "node" /\ thing.id \in {e[1], e[2]}) \/ (thing.kind # "node" /\ thing.id = e)
        THEN None ELSE edges[e]]
Delete ==
    /\ Open /\ ui.selected # None
    /\ Drawn([Edited EXCEPT !.selected = None],
             IF ui.selected.kind = "node" THEN [at EXCEPT ![ui.selected.id] = None] ELSE at,
             Without(ui.selected))
Toggled(e) == [edges EXCEPT ![e].oneway = ~@]
ToggleOneway ==
    /\ Open /\ ui.selected # None /\ ui.selected.kind # "node"
    /\ Drawn(Edited, at, Toggled(ui.selected.id))
\* _apply_label on the selected node, _register: neither is drawn from here on.
Annotate == Open /\ Look(Edited)
Escape == Open /\ Look([ui EXCEPT !.pending = None, !.selected = None])

\* A mode by its key keeps the edge being drawn; by the tool bar it does not.
ModeKey(m) == Open /\ Look([ui EXCEPT !.mode = m])
ModeButton(m) == ButtonUp /\ Look([ui EXCEPT !.mode = m, !.pending = None])

\* Shift-click on two nodes, one after the other: shortest_route, if there is one; with Ctrl a
\* second route beside the first.
Road(a, b) ==
    \/ <<a, b>> \in Edges(edges)
    \/ <<b, a>> \in Edges(edges) /\ ~edges[<<b, a>>].oneway
Preview(a, b, second) ==
    /\ ButtonUp /\ ui.mode = "select" /\ Road(a, b)
    /\ IF second /\ ui.routeA # None THEN Look([ui EXCEPT !.routeB = <<a, b>>])
       ELSE Look([ui EXCEPT !.routeA = <<a, b>>, !.routeB = None])

\* save: refused unless the graph is sound; the file is written in place.
Written == disk' = graph /\ ui' = [ui EXCEPT !.dirty = FALSE]
Save == Open /\ Sound /\ Written /\ UNCHANGED <<at, edges, window, edits>>
SaveTorn == Open /\ Sound /\ disk' = Torn /\ window' = "crashed" /\ UNCHANGED <<at, edges, ui, edits>>

\* closeEvent: a clean editor is not asked; what a refused save leaves is lost.
Close(answer) ==
    /\ Open /\ window' = "closed"
    /\ IF ui.dirty /\ answer = "yes" /\ Sound THEN Written ELSE UNCHANGED <<disk, ui>>
    /\ UNCHANGED <<graph, edits>>

\* The editor is started on the file; what it cannot read it does not open.
Start ==
    /\ ~Open /\ disk # Torn
    /\ at' = disk[1] /\ edges' = disk[2] /\ ui' = Fresh /\ window' = "open"
    /\ UNCHANGED <<disk, edits>>

EditorStep ==
    \/ \E p \in Places : AddNode(p) \/ Grab(p) \/ GrabElsewhere(p) \/ Point(p) \/ Drag(p)
    \/ \E n \in Nodes(at) : BeginEdge(n) \/ EndEdge(n)
    \/ \E e \in EdgeIds, second \in BOOLEAN : Preview(e[1], e[2], second)
    \/ \E m \in {"select", "node", "edge"} : ModeKey(m) \/ ModeButton(m)
    \/ Drop \/ Delete \/ ToggleOneway \/ Annotate \/ Escape
    \/ Save \/ SaveTorn
    \/ \E answer \in {"yes", "no"} : Close(answer)
    \/ Start

-----------------------------------------------------------------------------
CleanIsSaved == Open /\ ~ui.dirty => disk = graph
EdgesStand ==
    \A e \in Edges(edges) :
        /\ {e[1], e[2]} \subseteq Nodes(at)
        /\ edges[e].way[1] = at[e[1]] /\ edges[e].way[Len(edges[e].way)] = at[e[2]]
=============================================================================
