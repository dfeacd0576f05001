------------------------------- MODULE GraphCanvas -------------------------------
(* The canvas of GraphViewer.vue over time: which modules are open, where     *)
(* each drawn node is, and the arrangement the visitor builds by dragging.    *)
(* The draft is the layout the canvas is drawn from, NoLayout for the         *)
(* automatic arrangement; `stored` is the store's, which the page hands to a  *)
(* viewer it mounts, and hands back after each save.                          *)
EXTENDS GraphPlacement

CONSTANTS Moves,    \* bound: how far a drag may take a node
          MaxEdits, \* bound: drags of one visit, and saves
          NoLayout

VARIABLES
    shown,      \* the graph the viewer was given, NoGraph before it is mounted
    openDetail, \* should modules start out open?
    draft,      \* module -> [at, collapsed, items]
    collapsed,  \* names of the collapsed modules
    drawn,      \* node -> position, of the nodes on the canvas
    overrides,  \* the positions remembered for a canvas without a draft
    stored,     \* the layout the store holds
    arranged,   \* ghost: node -> where the visitor last saw or put it in a draft
    edits       \* how many of each kind of edit, for the bound

canvasVars == <<shown, openDetail, draft, collapsed, drawn, overrides, stored, arranged, edits>>

CanvasInit ==
    /\ shown = NoGraph /\ openDetail = FALSE
    /\ draft = NoLayout /\ stored = NoLayout
    /\ collapsed = {} /\ drawn = <<>> /\ overrides = <<>> /\ arranged = <<>>
    /\ edits = [drag |-> 0, save |-> 0]

--------------------------------------------------------------------------------
(* What is drawn                                                              *)

Names(g) == {m.name : m \in Range(g.modules)}

PermanentlyCollapsed(g) == {n \in Names(g) : ~HasModuleComponents(ModuleNamed(g, n))}

InitialCollapsed(g, detail) == IF detail THEN PermanentlyCollapsed(g) ELSE Names(g)

(* As the layout says; a module it has never seen, or that has nothing        *)
(* inside, as it starts out.                                                  *)
LayoutCollapsed(g, layout, detail) ==
    LET told == IF layout = NoLayout THEN {}
                ELSE (Names(g) \cap DOMAIN layout) \ PermanentlyCollapsed(g)
    IN  (InitialCollapsed(g, detail) \ told) \cup {n \in told : layout[n].collapsed}

OpenItems(g, closed) ==
    UNION {Range(ItemIds(m)) : m \in {x \in Range(g.modules) : ~IsModuleCollapsed(g, closed, x.name)}}

DrawnNodes(g, closed) == {ModuleNode(n) : n \in Names(g)} \cup OpenItems(g, closed)

(* What is remembered comes before where the arrangement has it. *)
ResolvedNodes(nodes, resolved, remembered) ==
    [node \in nodes |-> IF node \in DOMAIN remembered THEN remembered[node]
                        ELSE IF node[1] = "module" THEN resolved.modules[node[2]]
                        ELSE resolved.items[node[2]][node]]

NodesInRows(g, closed, remembered, rows) ==
    ResolvedNodes(DrawnNodes(g, closed),
                  [modules |-> AutomaticPositions(g, [n \in Names(g) |-> CalcModuleSize(rows[n], n \in closed)]),
                   items   |-> [n \in Names(g) |-> PlaceInRows(rows[n])]],
                  remembered)

AutomaticNodes(g, closed, remembered) ==
    NodesInRows(g, closed, remembered, [n \in Names(g) |-> HierarchyRows(g, ModuleNamed(g, n))])

LaidOutNodes(g, closed, layout) ==
    ResolvedNodes(DrawnNodes(g, closed), ResolveIncrementalLayout(g, layout, closed), <<>>)

BuildGraph(g, closed, layout, remembered) ==
    IF layout = NoLayout THEN AutomaticNodes(g, closed, remembered)
    ELSE LaidOutNodes(g, closed, layout)

--------------------------------------------------------------------------------
(* The canvas as a layout.  A collapsed module draws no items: it keeps the   *)
(* ones it had.                                                               *)

CarriedItemsLost(layout, n) == <<>>
CarriedItems(layout, n) ==
    IF layout # NoLayout /\ n \in DOMAIN layout THEN layout[n].items ELSE <<>>

SnapshotCanvasLayout(g, closed, nodes, layout) ==
    LET IsClosed(n) == HasModuleComponents(ModuleNamed(g, n)) /\ n \in closed
        Items(n)    == [i \in {x \in DOMAIN nodes : x[1] # "module" /\ x[2] = n} |-> nodes[i]]
    IN  [n \in Names(g) |->
            [at        |-> nodes[ModuleNode(n)],
             collapsed |-> IsClosed(n),
             items     |-> IF IsClosed(n) THEN CarriedItems(layout, n) ELSE Items(n)]]

LayoutNodes(layout) ==
    IF layout = NoLayout THEN <<>>
    ELSE LET items == UNION {DOMAIN layout[n].items : n \in DOMAIN layout}
         IN  [node \in {ModuleNode(n) : n \in DOMAIN layout} \cup items |->
                 IF node[1] = "module" THEN layout[node[2]].at ELSE layout[node[2]].items[node]]

(* Takes the canvas, as it is after the step, as the new draft. *)
CaptureLayoutFromCanvas ==
    /\ draft' = SnapshotCanvasLayout(shown, collapsed', drawn', draft)

(* Positions come from the draft when there is one, and what is remembered    *)
(* is of no use until it is cleared.  The automatic canvas keeps its nodes    *)
(* where they are only if it is told to.                                      *)
RefreshGraph(preserve) ==
    /\ overrides' = IF preserve /\ draft = NoLayout THEN drawn @@ overrides ELSE <<>>
    /\ drawn' = BuildGraph(shown, collapsed', draft, overrides')

--------------------------------------------------------------------------------
(* The page mounts a viewer for each graph it loads                           *)

Mount(g, detail) ==
    /\ shown' = g /\ openDetail' = detail
    /\ draft' = stored
    /\ collapsed' = LayoutCollapsed(g, stored, detail)
    /\ drawn' = BuildGraph(g, collapsed', stored, <<>>)
    /\ overrides' = <<>>
    /\ arranged' = LET known == LayoutNodes(stored)
                   IN  [n \in DOMAIN known \cap DrawnNodes(g, {}) |-> known[n]]
    /\ UNCHANGED <<stored, edits>>

--------------------------------------------------------------------------------
(* The visitor                                                                *)

IsShown == shown # NoGraph

(* Collapsing is part of an arrangement, and is captured like a drag.  Without *)
(* one, the nodes stay where they are unless the visitor has the view adjust. *)
Recollapse(closed) ==
    /\ collapsed' = closed
    /\ \E autoAdjust \in IF draft = NoLayout THEN BOOLEAN ELSE {FALSE} : RefreshGraph(~autoAdjust)
    /\ IF draft = NoLayout THEN UNCHANGED <<draft, arranged>>
       ELSE CaptureLayoutFromCanvas /\ arranged' = arranged @@ drawn'
    /\ UNCHANGED <<shown, openDetail, stored, edits>>

ToggleModule(n) ==
    /\ IsShown /\ n \in Names(shown) \ PermanentlyCollapsed(shown)
    /\ Recollapse(IF n \in collapsed THEN collapsed \ {n} ELSE collapsed \cup {n})

SetAllModulesOpen(isOpen) ==
    /\ IsShown
    /\ Recollapse(IF isOpen THEN PermanentlyCollapsed(shown) ELSE Names(shown))

(* An item stays inside its module. *)
HandleNodeDragStop(node, move) ==
    /\ IsShown /\ node \in DOMAIN drawn /\ edits.drag < MaxEdits
    /\ drawn' = [drawn EXCEPT ![node] = IF node[1] = "module" THEN Sum2(@, move)
                                        ELSE Position(Larger(0, @.x - move.x), @.y)]
    /\ drawn' # drawn
    /\ UNCHANGED collapsed
    /\ CaptureLayoutFromCanvas
    /\ arranged' = (node :> drawn'[node]) @@ arranged @@ drawn'
    /\ overrides' = <<>>
    /\ edits' = [edits EXCEPT !.drag = @ + 1]
    /\ UNCHANGED <<shown, openDetail, stored>>

(* The store hands the layout back as another object, so the viewer draws it  *)
(* anew from it.                                                              *)
SaveCurrentLayout ==
    /\ IsShown /\ edits.save < MaxEdits
    /\ LET layout == SnapshotCanvasLayout(shown, collapsed, drawn, draft)
       IN  /\ stored' = layout
           /\ draft' = layout
           /\ collapsed' = LayoutCollapsed(shown, layout, openDetail)
           /\ drawn' = BuildGraph(shown, collapsed', layout, <<>>)
    /\ overrides' = <<>>
    /\ arranged' = arranged @@ drawn
    /\ edits' = [edits EXCEPT !.save = @ + 1]
    /\ UNCHANGED <<shown, openDetail>>

ResetToAutoLayout ==
    /\ IsShown
    /\ draft' = NoLayout
    /\ collapsed' = InitialCollapsed(shown, openDetail)
    /\ overrides' = <<>>
    /\ drawn' = BuildGraph(shown, collapsed', NoLayout, <<>>)
    /\ arranged' = <<>>
    /\ UNCHANGED <<shown, openDetail, stored, edits>>

(* Showing or hiding a kind of line builds the canvas again. *)
ToggleLines ==
    /\ IsShown
    /\ UNCHANGED collapsed
    /\ RefreshGraph(TRUE)
    /\ UNCHANGED <<shown, openDetail, draft, stored, arranged, edits>>

CanvasNext ==
    \/ \E n \in IF IsShown THEN Names(shown) ELSE {} : ToggleModule(n)
    \/ \E isOpen \in BOOLEAN : SetAllModulesOpen(isOpen)
    \/ \E node \in DOMAIN drawn, move \in Moves : HandleNodeDragStop(node, move)
    \/ SaveCurrentLayout \/ ResetToAutoLayout \/ ToggleLines
=============================================================================
