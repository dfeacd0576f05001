----------------------------- MODULE GraphPlacement -----------------------------
(* Where the nodes of a graph go on the canvas: the automatic arrangement of  *)
(* GraphViewer.vue, and graph-layout-placement.ts, which keeps to a saved     *)
(* layout and fits what it has never seen around it.                          *)
(*                                                                            *)
(*   layout  module name -> [at, collapsed, items]; items: item -> position   *)
(*   position [x, y]; items' are relative to their module                     *)
EXTENDS GraphEdges

NodeWidth             == 200
NodeHeight            == 32
NodeGapX              == 52
NodeLevelGapY         == 72
ModulePadding         == 20
ModuleTitleHeight     == 36
ModuleCollapsedHeight == 40
ModuleMinWidth        == NodeWidth + ModulePadding * 2
ModuleGapX            == 320
ModuleGapY            == 100
ItemClearance         == 16
ModuleClearance       == 40
MaxSearchRings        == 3 \* bound; the code gives up after 10000

Position(x, y) == [x |-> x, y |-> y]
Sum2(p, q)     == Position(p.x + q.x, p.y + q.y)
Larger(a, b)   == IF a > b THEN a ELSE b
Largest(S)     == CHOOSE a \in S : \A b \in S : a >= b
Smallest(S)    == CHOOSE a \in S : \A b \in S : a <= b
At0            == Position(0, 0)

Rect(p, size) == [x |-> p.x, y |-> p.y, width |-> size.width, height |-> size.height]
ItemRect(p)   == Rect(p, [width |-> NodeWidth, height |-> NodeHeight])

(* Do two rectangles come closer than the clearance on both axes? *)
Overlaps(a, b, clearance) ==
    /\ a.x < b.x + b.width + clearance
    /\ b.x < a.x + a.width + clearance
    /\ a.y < b.y + b.height + clearance
    /\ b.y < a.y + a.height + clearance

IsClearTouching(r, others, clearance) == \A o \in others : ~Overlaps(r, o, 0)
IsClear(r, others, clearance) == \A o \in others : ~Overlaps(r, o, clearance)

--------------------------------------------------------------------------------
(* Rows of a module's items: each below what it injects in its module, items  *)
(* that inject each other side by side                                        *)

OwnEdges(g, m) == {e \in ItemEdges(g) : e[1][2] = m.name /\ e[2][2] = m.name}

RECURSIVE Below(_, _)
Below(R, S) ==
    LET next == S \cup {e[1] : e \in {f \in R : f[2] \in S}}
    IN  IF next = S THEN S ELSE Below(R, next)

(* The longest way down to an item that injects nothing outside its cycle. *)
RECURSIVE ItemDepth(_, _)
ItemDepth(R, item) ==
    LET component == {i \in Below(R, {item}) : item \in Below(R, {i})}
        deeper    == {e[1] : e \in {f \in R : f[2] \in component}} \ component
    IN  IF deeper = {} THEN 0 ELSE 1 + Largest({ItemDepth(R, i) : i \in deeper})

(* Providers before controllers in a row, each kind in the graph's order. *)
RowsByDepth(ids, depth) ==
    Map(LAMBDA d : SelectSeq(ids, LAMBDA i : depth[i] = d),
        SelectSeq([n \in 1..8 |-> n - 1], LAMBDA d : d \in Range(depth)))

RowsOf(ids, R) == RowsByDepth(ids, [i \in Range(ids) |-> ItemDepth(R, i)])

HierarchyRows(g, m) == RowsOf(ItemIds(m), OwnEdges(g, m))

RowWidth(count) == count * NodeWidth + Larger(count - 1, 0) * NodeGapX

WidthOfRows(rows) ==
    Larger(ModuleMinWidth, ModulePadding * 2 + RowWidth(Largest({1} \cup {Len(r) : r \in Range(rows)})))

SpotInRow(width, row, r, i) ==
    Position(Larger(ModulePadding, (width - RowWidth(Len(row))) \div 2) + (i - 1) * (NodeWidth + NodeGapX),
             ModuleTitleHeight + ModulePadding + (r - 1) * (NodeHeight + NodeLevelGapY))

PlaceInRows(rows) ==
    LET RowOf(id)  == CHOOSE r \in DOMAIN rows : Contains(rows[r], id)
        Place(id, width, r) == SpotInRow(width, rows[r], r, CHOOSE i \in DOMAIN rows[r] : rows[r][i] = id)
    IN  [id \in UNION {Range(r) : r \in Range(rows)} |-> Place(id, WidthOfRows(rows), RowOf(id))]

CollapsedSize == [width |-> ModuleMinWidth, height |-> ModuleCollapsedHeight]

SizeForRows(rows) ==
    [width  |-> WidthOfRows(rows),
     height |-> ModuleTitleHeight + ModulePadding * 2 + Len(rows) * NodeHeight
                + (Len(rows) - 1) * NodeLevelGapY]

CalcModuleSize(rows, isCollapsed) == IF isCollapsed \/ rows = <<>> THEN CollapsedSize ELSE SizeForRows(rows)

--------------------------------------------------------------------------------
(* The automatic arrangement: layers below the root, each centred             *)

RECURSIVE LayersBelow(_, _, _)
LayersBelow(g, layer, visited) ==
    LET seen == visited \cup Range(layer)
        next == Once(SelectSeq(FlattenSeq(Map(LAMBDA n : ModuleNamed(g, n).imports, layer)),
                               LAMBDA n : n \notin seen /\ HasModule(g, n)))
    IN  IF layer = <<>> THEN <<>> ELSE <<layer>> \o LayersBelow(g, next, seen)

(* What the root does not reach gets a layer each, below the others. *)
AssignLayers(g) ==
    LET layers == LayersBelow(g, <<g.root>>, {})
        seen   == UNION {Range(l) : l \in Range(layers)}
        rest   == SelectSeq(Map(LAMBDA m : m.name, g.modules), LAMBDA n : n \notin seen)
    IN  layers \o Map(LAMBDA n : <<n>>, rest)

Total(numbers) == FoldLeft(LAMBDA sum, n : sum + n, 0, numbers)

\* how far right of its layer's left end the widths before a place reach
LayerX(widths, place) ==
    Total(SubSeq(widths, 1, place - 1)) + (place - 1) * ModuleGapX
    - (Total(widths) + (Len(widths) - 1) * ModuleGapX) \div 2

CentredLayers(layers, sizes) ==
    LET heights == Map(LAMBDA l : Largest({sizes[n].height : n \in Range(l)}), layers)
        Y(i)    == Total(SubSeq(heights, 1, i - 1)) + (i - 1) * ModuleGapY
        X(l, n) == LayerX(Map(LAMBDA o : sizes[o].width, l), SelectInSeq(l, LAMBDA o : o = n))
        At(n, i) == Position(X(layers[i], n), Y(i))
    IN  [n \in DOMAIN sizes |-> At(n, CHOOSE i \in DOMAIN layers : Contains(layers[i], n))]

AutomaticPositions(g, sizes) == CentredLayers(AssignLayers(g), sizes)

--------------------------------------------------------------------------------
(* Around a saved layout                                                      *)

(* Saved items stay; each of the others takes the first free slot of a grid   *)
(* as wide as the saved ones.                                                 *)
ResolveItems(m, saved, rows) ==
    LET ids      == ItemIds(m)
        locked   == Range(ids) \cap DOMAIN saved
        new      == SelectSeq(ids, LAMBDA i : i \notin locked)
        right    == Largest({saved[i].x + NodeWidth : i \in locked})
        columns  == Larger(1, (right - ModulePadding + NodeGapX) \div (NodeWidth + NodeGapX))
        Slot(n)  == Position(ModulePadding + (n % columns) * (NodeWidth + NodeGapX),
                             ModuleTitleHeight + ModulePadding + (n \div columns) * (NodeHeight + NodeLevelGapY))
        Free(placed, n) == IsClear(ItemRect(Slot(n)), {ItemRect(placed[i]) : i \in DOMAIN placed}, ItemClearance)
        Place(placed, id) == placed @@ (id :> Slot(Smallest({n \in 0..30 : Free(placed, n)})))
    IN  IF locked = {} THEN PlaceInRows(rows)
        ELSE FoldLeft(Place, [i \in locked |-> saved[i]], new)

SizeForItems(items) ==
    [width  |-> Larger(ModuleMinWidth, Largest({items[i].x + NodeWidth : i \in DOMAIN items}) + ModulePadding),
     height |-> Larger(ModuleTitleHeight + ModulePadding * 2 + NodeHeight,
                       Largest({items[i].y + NodeHeight : i \in DOMAIN items}) + ModulePadding)]

ConnectedModules(g, name) ==
    SelectSeq(Once(ModuleNamed(g, name).imports
                   \o Map(LAMBDA m : m.name, SelectSeq(g.modules, LAMBDA m : Contains(m.imports, name)))),
              LAMBDA n : n # name)

(* Rings of cells around the anchor, nearest first, then by row and column. *)
NearestFreeSlot(anchor, step, size, taken) ==
    LET Ring(n)  == {c \in (-n..n) \X (-n..n) : Largest({c[1], -c[1], c[2], -c[2]}) = n}
        Spot(c)  == Position(anchor.x + c[1] * step.width, anchor.y + c[2] * step.height)
        Free(n)  == {c \in Ring(n) : IsClear(Rect(Spot(c), size), taken, ModuleClearance)}
        Rank(c)  == (c[1] * c[1] + c[2] * c[2]) * 10000 + (c[2] + 50) * 100 + c[1] + 50
        ring     == Smallest({n \in 0..MaxSearchRings : Free(n) # {}})
    IN  Spot(CHOOSE c \in Free(ring) : \A d \in Free(ring) : Rank(c) <= Rank(d))

(* Beside a module it is connected to if there is room, else nearby.  Two     *)
(* things that were placed never come too close to one another.               *)
FindModulePosition(g, name, size, placed) ==
    LET taken      == {placed[n] : n \in DOMAIN placed}
        IsFree(p)  == IsClear(Rect(p, size), taken, ModuleClearance)
        Beside(r)  == <<Position(r.x + r.width + ModuleGapX, r.y),
                        Position(r.x, r.y + r.height + ModuleGapY),
                        Position(r.x - size.width - ModuleGapX, r.y),
                        Position(r.x, r.y - size.height - ModuleGapY)>>
        neighbors  == SelectSeq(ConnectedModules(g, name), LAMBDA n : n \in DOMAIN placed)
        beside     == SelectSeq(FlattenSeq(Map(LAMBDA n : Beside(placed[n]), neighbors)), IsFree)
        anchor     == IF neighbors # <<>> THEN Position(placed[neighbors[1]].x, placed[neighbors[1]].y)
                      ELSE Position(Smallest({placed[n].x : n \in DOMAIN placed}),
                                    Smallest({placed[n].y : n \in DOMAIN placed}))
        step       == [width |-> size.width + ModuleGapX, height |-> size.height + ModuleGapY]
    IN  IF DOMAIN placed = {} THEN At0
        ELSE IF beside # <<>> THEN Head(beside)
        ELSE NearestFreeSlot(anchor, step, size, taken)

(* Positions of the modules, and of every module's items. *)
ModuleItems(g, layout) ==
    LET Saved(n) == IF n \in DOMAIN layout THEN layout[n].items ELSE <<>>
        Items(m) == IF HasModuleComponents(m) THEN ResolveItems(m, Saved(m.name), HierarchyRows(g, m)) ELSE <<>>
    IN  [n \in {m.name : m \in Range(g.modules)} |-> Items(ModuleNamed(g, n))]

ModuleSizes(items, collapsed) ==
    [n \in DOMAIN items |-> IF n \in collapsed \/ items[n] = <<>> THEN CollapsedSize ELSE SizeForItems(items[n])]

(* The modules of the layout where it has them, then the others, one by one.  *)
ModuleRects(g, layout, sizes) ==
    LET kept == [n \in DOMAIN sizes \cap DOMAIN layout |-> Rect(layout[n].at, sizes[n])]
        new  == SelectSeq(Map(LAMBDA m : m.name, g.modules), LAMBDA n : n \notin DOMAIN layout)
        Place(placed, n) == placed @@ (n :> Rect(FindModulePosition(g, n, sizes[n], placed), sizes[n]))
    IN  FoldLeft(Place, kept, new)

ResolvedLayout(items, sizes, rects) ==
    [modules |-> [n \in DOMAIN rects |-> Position(rects[n].x, rects[n].y)], items |-> items, sizes |-> sizes]

LayoutAround(g, layout, items, sizes) == ResolvedLayout(items, sizes, ModuleRects(g, layout, sizes))

LayoutWith(g, layout, collapsed, items) == LayoutAround(g, layout, items, ModuleSizes(items, collapsed))

ResolveIncrementalLayout(g, layout, collapsed) ==
    LayoutWith(g, layout, collapsed, ModuleItems(g, layout))
=============================================================================
