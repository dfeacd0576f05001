------------------------------- MODULE GraphEdges -------------------------------
(* The edges GraphViewer.vue and graph-viewer-edges.ts draw for a graph, and  *)
(* the cycles each of them is labelled with.  A node is <<kind, module,       *)
(* name>>; the node of a module is <<"module", name, "">>.  An edge points    *)
(* from what is imported or injected to what receives it.                     *)
EXTENDS GraphOutput

ModuleNode(name) == <<"module", name, "">>
NoNode           == <<>>

HasModuleComponents(m) == MembersOf(m) # <<>>

(* A module's items, providers first. *)
ItemIds(m) == Map(LAMBDA x : <<"provider", m.name, x.name>>, m.providers)
              \o Map(LAMBDA x : <<"controller", m.name, x.name>>, m.controllers)

ItemNamed(m, name) == FirstOf(ItemIds(m), LAMBDA i : i[3] = name, NoNode)

(* What a module says is its own may be any module's. *)
ResolveDepNodeId(g, d, current) ==
    LET there    == IF HasModule(g, d.module) THEN ItemNamed(ModuleNamed(g, d.module), d.token) ELSE NoNode
        anywhere == FirstOf(Map(LAMBDA m : ItemNamed(m, d.token), g.modules), LAMBDA i : i # NoNode, NoNode)
    IN  IF there # NoNode \/ d.module # current THEN there ELSE anywhere

(* The item edges of a graph: each dependency that has a node. *)
ItemEdges(g) ==
    LET Of(m, id, x) == {<<ResolveDepNodeId(g, d, m.name), id>> : d \in Range(x.dependencies)}
        all == UNION {Of(m, ItemIds(m)[i], MembersOf(m)[i]) :
                      <<m, i>> \in {p \in Range(g.modules) \X (1..8) : p[2] \in DOMAIN ItemIds(p[1])}}
    IN  {e \in all : e[1] # NoNode}

--------------------------------------------------------------------------------
(* Which cycles an edge closes: pairs <<edge, id>>                            *)

(* A key may name a provider and a controller: the preferred one is taken. *)
ResolveCycleNodeId(g, key, preferred) ==
    LET m == ModuleNamed(g, key[1])
        ids == IF HasModule(g, key[1]) THEN SelectSeq(ItemIds(m), LAMBDA i : i[3] = key[2]) ELSE <<>>
    IN  FirstOf(ids, LAMBDA i : i[1] = preferred, IF ids = <<>> THEN NoNode ELSE Head(ids))

Steps(path) == {<<path[i], path[i + 1]>> : i \in 1..(Len(path) - 1)}

CyclesOf(g, kinds) == {x \in Range(g.cycles) : x.kind \in kinds}

GetCircularDependencyEdges(g) ==
    UNION {{<<<<ResolveCycleNodeId(g, s[2], "provider"), ResolveCycleNodeId(g, s[1], x.kind)>>, x.id>> :
            s \in Steps(x.path)} : x \in CyclesOf(g, {"provider", "controller"})}

GetCircularModuleEdges(g) ==
    UNION {{<<<<ModuleNode(s[2]), ModuleNode(s[1])>>, x.id>> : s \in Steps(x.path)} :
           x \in CyclesOf(g, {"module"})}

IdsOn(circular, edges) == {c[2] : c \in {d \in circular : d[1] \in edges}}

(* Of the two edges of a pair of nodes, the one with more cycles is labelled, *)
(* with the cycles of both.  Which of two equal ones is a matter of names.    *)
DeduplicateCircularEdgeLabels(circular) ==
    LET edges     == {c[1] : c \in circular}
        Pair(e)   == {f \in edges : Range(f) = Range(e)}
        Size(e)   == Cardinality(IdsOn(circular, {e}))
        Shown(e)  == CHOOSE f \in Pair(e) : \A h \in Pair(e) : Size(f) >= Size(h)
    IN  UNION {{<<Shown(e), id>> : id \in IdsOn(circular, Pair(e))} : e \in edges}

--------------------------------------------------------------------------------
(* Collapsed modules                                                          *)

IsModuleCollapsed(g, collapsed, name) ==
    ~HasModule(g, name) \/ name \in collapsed \/ ~HasModuleComponents(ModuleNamed(g, name))

PlaceDependencyEdgeByEnds(g, collapsed, e) ==
    LET End(node) == IF IsModuleCollapsed(g, collapsed, node[2]) THEN ModuleNode(node[2]) ELSE node
    IN  [source |-> End(e[1]), target |-> End(e[2]), relationship |-> e[2][1], item |-> <<End(e[1]), End(e[2])>>]

(* An item edge as it is drawn; several redirected onto one are one edge, and *)
(* `items` are the edges whose cycles it carries.                             *)
PlaceDependencyEdge(g, collapsed, e) ==
    LET End(node) == IF IsModuleCollapsed(g, collapsed, node[2]) THEN ModuleNode(node[2]) ELSE node
    IN  [source |-> End(e[1]), target |-> End(e[2]), relationship |-> e[2][1], item |-> e]

(* Nothing is drawn inside a collapsed module. *)
IsDrawn(g, collapsed, e) == e[1][2] # e[2][2] \/ ~IsModuleCollapsed(g, collapsed, e[1][2])

DependencyEdges(g, collapsed) ==
    LET placed == {PlaceDependencyEdge(g, collapsed, e) : e \in {f \in ItemEdges(g) : IsDrawn(g, collapsed, f)}}
        Same(p, q) == p.source = q.source /\ p.target = q.target /\ p.relationship = q.relationship
        labels == DeduplicateCircularEdgeLabels(GetCircularDependencyEdges(g))
    IN  {[source |-> p.source, target |-> p.target, relationship |-> p.relationship,
          ids |-> IdsOn(labels, {q.item : q \in {r \in placed : Same(p, r)}})] : p \in placed}

ModuleEdges(g) ==
    LET labels == DeduplicateCircularEdgeLabels(GetCircularModuleEdges(g))
        Edge(m, i) == <<ModuleNode(i), ModuleNode(m.name)>>
    IN  UNION {{[source |-> ModuleNode(i), target |-> ModuleNode(m.name), relationship |-> "module",
                 ids |-> IdsOn(labels, {Edge(m, i)})] :
                i \in {j \in Range(m.imports) : HasModule(g, j)}} : m \in Range(g.modules)}

DrawnEdges(g, collapsed) == ModuleEdges(g) \cup DependencyEdges(g, collapsed)
=============================================================================
