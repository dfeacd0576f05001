------------------------------ MODULE GraphJourney ------------------------------
(* A graph from the container to the canvas: an application's graph is        *)
(* exported by the CLI, and a viewer opens the file it left, or the endpoint  *)
(* of the application itself, which is restarted with other modules while the *)
(* visitor arranges it.                                                       *)
EXTENDS ExportCommand, GraphCanvas, GraphIssues, ModuleDeepDive

VARIABLE source \* what the viewer shows: "none", "file" or "endpoint"

journeyVars == <<cliVars, canvasVars, source>>

Init == CliInit /\ CanvasInit /\ source = "none"

(* What the running application serves. *)
RuntimeGraphs ==
    [a \in DOMAIN Applications |-> GraphOf(Booted(Applications[a].container, "runtime"),
                                          Applications[a].options)]

(* Bound: a viewer is opened after a plain export of a viewed application.    *)
ReadyToView == Exported /\ app \in Viewed /\ saved["cwd"] = "graph" /\ copy = "none" /\ ~ownEnd

(* A viewer on the file has no layout of the application's. *)
OpenFile(detail) ==
    /\ ReadyToView /\ source = "none"
    /\ source' = "file"
    /\ Mount(graph, detail)

(* The application is started with the modules it has now; its viewer, the    *)
(* first time or after a refresh, is mounted anew.  Bound: its modules start  *)
(* out closed.                                                                *)
OpenEndpoint(a) ==
    /\ ReadyToView /\ source \in {"none", "endpoint"}
    /\ source' = "endpoint"
    /\ \E g \in {RuntimeGraphs[a]} : g # NoGraph /\ Mount(g, FALSE)

Next ==
    \/ CliNext /\ UNCHANGED <<canvasVars, source>>
    \/ CanvasNext /\ UNCHANGED <<cliVars, source>>
    \/ /\ (\E detail \in BOOLEAN : OpenFile(detail)) \/ (\E a \in Viewed : OpenEndpoint(a))
       /\ UNCHANGED cliVars

Spec == Init /\ [][Next]_journeyVars /\ CliFairness

--------------------------------------------------------------------------------
(* Properties                                                                 *)

(* A graph, once built, stays as it is. *)
IsJustBuilt == \E p \in DOMAIN procs : At(p, "close")

MadeByFactory(c) ==
    {MemberName(c, w) : w \in {x \in UNION {Range(m.providers) : m \in Range(c.modules)} : IsFactoryWrapper(x)}}

AreOptionsRead(a) == a.configured = "value" /\ \E m \in Range(a.container.modules) : m.inspector

WithoutFactoryMethods(g, made) ==
    LET Plain(x) == IF x.name \in made THEN [x EXCEPT !.directRun = {}] ELSE x
    IN  [g EXCEPT !.modules = Map(LAMBDA m : [m EXCEPT !.providers = Map(Plain, m.providers)], g.modules)]

IsSameGraph(g, h, made) == WithoutFactoryMethods(g, made) = WithoutFactoryMethods(h, made)

(* An export whose options can be read gives the graph the running            *)
(* application would serve, save for the methods of what factories make,      *)
(* which preview mode does not call (export-graph.ts:88, discovery.ts:937).   *)
ExportMatchesRuntime ==
    IsJustBuilt /\ AreOptionsRead(Applications[app]) =>
        IsSameGraph(graph, RuntimeGraphs[app], MadeByFactory(Applications[app].container))

ImportEdges(g) == {<<m.name, i>> : m \in Range(g.modules), i \in Names(g)}
                  \cap UNION {{<<m.name, i>> : i \in Range(m.imports)} : m \in Range(g.modules)}

InjectionEdges(g) ==
    LET nodes == Range(DependencyKeys(g.modules))
    IN  UNION {UNION {{<<<<m.name, x.name>>, <<d.module, d.token>>>> : d \in Range(x.dependencies)} :
                      x \in Range(MembersOf(m))} : m \in Range(g.modules)} \cap (nodes \X nodes)

OnCycle(edges, e) ==
    LET After(S) == S \cup {f[2] : f \in {h \in edges : h[1] \in S}}
        Reach[S \in SUBSET UNION {Range(f) : f \in edges}] == IF After(S) = S THEN S ELSE Reach[After(S)]
    IN  e[1] \in Reach[{e[2]}]

SoundCycles(edges, cycles) ==
    /\ \A x \in cycles :
           /\ Len(x.path) > 1 /\ Head(x.path) = Last(x.path)
           /\ Steps(x.path) \subseteq edges
           /\ IsInjective(Front(x.path))
    /\ \A e \in edges : OnCycle(edges, e) <=> \E x \in cycles : e \in Steps(x.path)
    /\ \A x, y \in cycles : Steps(x.path) = Steps(y.path) => x = y

HasSoundCycles(g) ==
    /\ SoundCycles(ImportEdges(g), CyclesOf(g, {"module"}))
    /\ SoundCycles(InjectionEdges(g), CyclesOf(g, {"provider", "controller"}))
    /\ \A x, y \in Range(g.cycles) : x.id = y.id => x = y

(* Every import or injection that lies on a cycle is on a cycle that is       *)
(* reported, and every cycle that is reported is one, passes no node twice,   *)
(* and is told once (graph-output.builder.ts:1033).                           *)
CyclesSound == IsJustBuilt => HasSoundCycles(graph)

Delivered == IF target = "file" THEN saved["cwd"] = "graph" ELSE "graph" \in stdout

(* Nothing but the graph is written, and only where it was asked for.         *)
NothingElseWritten ==
    /\ "other" \notin stdout
    /\ saved["project"] = "old"
    /\ graph = NoGraph => saved["cwd"] = "old"

CodeTells == Exported /\ ~ownEnd => (Delivered <=> procs[1].code = 0)

(* Whatever the application writes or leaves running, standard output carries *)
(* the graph or nothing, the project's directory is left alone, and an exit   *)
(* code of 0 means delivered, unless the application or a signal chose it     *)
(* (export-command.ts:288).  The export ends, however many copies of the CLI  *)
(* there are, and although the application leaves timers running (bin.ts:10). *)
ExportsDeliver == [](NothingElseWritten /\ CodeTells) /\ <>Exported

HasEdgeToDraw(x) ==
    \/ x.kind = "module"
    \/ \E s \in Steps(x.path) : s[1][1] # s[2][1] \/ ~IsModuleCollapsed(shown, collapsed, s[1][1])

(* While modules are opened and closed, each cycle that has an edge on the    *)
(* canvas is flagged on an edge of the canvas (graph-viewer-edges.ts:217).    *)
CollapsedCyclesFlagged ==
    shown # NoGraph =>
        \A x \in Range(shown.cycles) :
            HasEdgeToDraw(x) => \E e \in DrawnEdges(shown, collapsed) : x.id \in e.ids

(* What the visitor arranged stays where it was put, while modules are opened *)
(* and closed, the layout is saved, and the application comes back with other *)
(* modules (GraphViewer.vue:2449, graph-layout-placement.ts:110).             *)
ArrangementKept ==
    draft # NoLayout => \A node \in DOMAIN arranged \cap DOMAIN drawn : drawn[node] = arranged[node]

(* What a layout has never seen is placed clear of everything else            *)
(* (graph-layout-placement.ts:110).                                           *)
NewcomersFit ==
    draft # NoLayout =>
        LET resolved == ResolveIncrementalLayout(shown, draft, collapsed)
            Spot(n)  == Rect(resolved.modules[n], resolved.sizes[n])
            Known(n) == IF n \in DOMAIN draft THEN DOMAIN draft[n].items ELSE {}
        IN  /\ \A n \in Names(shown) \ DOMAIN draft : \A o \in Names(shown) \ {n} :
                   ~Overlaps(Spot(n), Spot(o), ModuleClearance)
            /\ \A n \in Names(shown) :
                   \A i \in DOMAIN resolved.items[n] \ Known(n) : \A j \in DOMAIN resolved.items[n] \ {i} :
                   ~Overlaps(ItemRect(resolved.items[n][i]), ItemRect(resolved.items[n][j]), ItemClearance)

HasTwins(c) == \E i, j \in DOMAIN c.modules : i # j /\ c.modules[i].name = c.modules[j].name

Registrations(c, name) ==
    {m \in Range(c.modules) : \E w \in Range(m.providers) : MemberName(c, w) = name}

(* What the issues page reports is so, whatever Nest makes of the modules,    *)
(* where it could tell (architecture-issues.ts:191, :258, :329, :386): an     *)
(* import called unused is one that the importer takes nothing from, and a    *)
(* class called exported in vain is taken by no module of the graph, unless one *)
(* re-exports another, for what is lent that way is not told from what the    *)
(* importer has itself; a provider called duplicate is registered by two      *)
(* modules; a module is called disconnected only if another has its name; and *)
(* a cycle is told of with the modules on it.                                 *)
IssuesAreReal ==
    IsJustBuilt =>
        LET c == Applications[app].container
        IN  /\ ReExportsModules(c) \/ \A r \in DOMAIN c.modules : \A i \in Range(c.modules[r].imports) :
                   LET taken == TakenFrom(c, r, i)
                   IN  /\ <<c.modules[r].name, c.modules[i].name>> \in UnusedImports(graph) => taken = {}
                       /\ \A e \in DeadExports(graph) :
                              e[1] = c.modules[i].name /\ HasModule(graph, c.modules[r].name) => ClassToken(e[2]) \notin taken
            /\ \A name \in DuplicateProviders(graph) : Cardinality(Registrations(c, name)) > 1
            /\ OrphanModules(graph) # {} => HasTwins(c)
            /\ \A x \in Range(graph.cycles) : \E issue \in CircularIssues(graph) :
                   /\ issue.id = x.id /\ issue.module \in Names(graph) \ issue.related
                   /\ \A s \in Steps(x.path) :
                          (IF x.kind = "module" THEN s[1] ELSE s[1][1]) \in {issue.module} \cup issue.related

(* A module's own page: what is injected ranks before what injects it, unless *)
(* the two are on a cycle; an injection carries the cycles it is a step of    *)
(* and no other, each step of a member of the module is on one; its own edges  *)
(* are those of the canvas; and no two nodes are drawn over one another,      *)
(* whichever way the ranks run.                                               *)
IsRankedBefore(ranks, a, b) ==
    \E i, j \in DOMAIN ranks : i < j /\ a \in Range(ranks[i]) /\ b \in Range(ranks[j])

IsPlacedApart(ranks, places) ==
    LET Boxes == {[x |-> places[k][i].x, y |-> places[k][i].y, width |-> 2 * DeepDiveItemWidth,
                   height |-> 2 * DeepDiveHeight(ranks[k][i]), node |-> ranks[k][i]] :
                  <<k, i>> \in {p \in (1..8) \X (1..8) : p[1] \in DOMAIN ranks /\ p[2] \in DOMAIN ranks[p[1]]}}
    IN  \A a, b \in Boxes : a # b => ~Overlaps(a, b, 0)

PageIsSound(g, m) ==
    LET edges == PageEdges(m)
        ranks == Ranks(m)
        ReachedBy(id) == {s \in DependencyCycleSteps(g) : s[1] = id /\ s[2][1][1] = m.name}
    IN  /\ \A e \in edges : e[1][1] # "controller" =>
               IsRankedBefore(ranks, e[1], e[2]) \/ OnCycle(edges, e)
        /\ \A e \in edges : \A id \in CycleIdsOn(g, m, e) :
               \E s \in ReachedBy(id) : s[2][1][2] = e[2][3] /\ s[2][2][2] = e[1][3]
        /\ \A x \in CyclesOf(g, {"provider", "controller"}) : \A s \in ReachedBy(x.id) :
               \E e \in edges : e[2][3] = s[2][1][2] /\ x.id \in CycleIdsOn(g, m, e)
        /\ {e \in edges : e[1][1] # "external"} = OwnEdges(g, m)
        /\ UNION {Range(r) : r \in Range(ranks)} = PageNodes(m)
        /\ IsPlacedApart(ranks, PlaceRanksInColumns(ranks))
        /\ IsPlacedApart(ranks, PlaceRanksInRows(ranks))

PagesSound == IsJustBuilt => \A m \in Range(graph.modules) : PageIsSound(graph, m)

(* Cycles are found, told once, and seen on the canvas however it is folded   *)
(* and on each module's page (graph-output.builder.ts:1033,                   *)
(* graph-viewer-edges.ts:217, module-deep-dive.ts:305).                       *)
CyclesAreSeen == CyclesSound /\ CollapsedCyclesFlagged /\ PagesSound

(* What was arranged stays put, and what is new fits in between.              *)
LayoutsRespected == ArrangementKept /\ NewcomersFit
=============================================================================
