------------------------------ MODULE GraphOutput ------------------------------
(* The graph GraphOutputBuilder (lib/src/graph-output.builder.ts) makes of    *)
(* what the discovery found: modules by name, references that say where a     *)
(* dependency comes from, the methods Direct Run offers, and the cycles.      *)
(*                                                                            *)
(*   graph  [root, modules, cycles]; modules is in the order of the scan      *)
(*   module [name, imports, exports, providers, controllers]                  *)
(*   member [name, dependencies, directRun]; a dependency is [module, token]  *)
(*   cycle  [id, type, kind, path]; a module cycle's path holds names, a      *)
(*          dependency cycle's the keys <<module, name>>                      *)
EXTENDS Discovery

CONSTANT NoGraph

(* The first module of each name; the others are dropped with their members.  *)
FlattenModuleTree(nodes) ==
    LET IsFirst(i) == \A j \in 1..(i - 1) : nodes[j].name # nodes[i].name
    IN  Map(LAMBDA i : nodes[i], SelectSeq([i \in DOMAIN nodes |-> i], IsFirst))

ModuleNamed(g, name) == FirstOf(g.modules, LAMBDA m : m.name = name, [name |-> ""])
HasModule(g, name)   == \E m \in Range(g.modules) : m.name = name
MembersOf(m)         == m.providers \o m.controllers

(* A bare name is cut at its first colon, even when the colon is the token's. *)
EnrichDependency(c, d, current) ==
    IF d.module # "" THEN [module |-> d.module, token |-> d.name]
    ELSE IF d.name \in DOMAIN c.colons THEN c.colons[d.name]
    ELSE [module |-> current, token |-> d.name]

(* The public methods of the instance's class, when its sources are known.    *)
GetDirectRunMethods(c, class) ==
    IF class \in DOMAIN c.documented THEN c.documented[class] ELSE {}

DirectRun(c, instances, name) ==
    IF name \in DOMAIN instances THEN GetDirectRunMethods(c, instances[name]) ELSE {}

EnrichModule(c, node) ==
    LET Enriched(instances, m) ==
            [name         |-> m.name,
             dependencies |-> Map(LAMBDA d : EnrichDependency(c, d, node.name), m.dependencies),
             directRun    |-> DirectRun(c, instances, m.name)]
    IN  [name        |-> node.name,
         imports     |-> node.imports,
         exports     |-> node.exports,
         providers   |-> Map(LAMBDA m : Enriched(node.providerInstances, m), node.providers),
         controllers |-> Map(LAMBDA m : Enriched(node.controllerInstances, m), node.controllers)]

--------------------------------------------------------------------------------
(* Cycles.  A digraph is a function from its nodes to the sequence of their   *)
(* successors; `keys` lists the nodes in the order they were added.           *)

RECURSIVE ReachableKeys(_, _, _)
ReachableKeys(g, pending, found) ==
    IF pending \subseteq found THEN found
    ELSE ReachableKeys(g, UNION {Range(g[k]) : k \in pending \ found}, found \cup pending)

FindReachableKeys(g, source) == ReachableKeys(g, Range(g[source]), {})

(* The first path a breadth-first search meets. *)
RECURSIVE FindPath(_, _, _, _)
FindPath(g, pending, visited, target) ==
    LET path    == Head(pending)
        current == Last(path)
        longer  == Map(LAMBDA next : Append(path, next), g[current])
    IN  IF current \in visited THEN FindPath(g, Tail(pending), visited, target)
        ELSE IF current = target THEN path
        ELSE FindPath(g, Tail(pending) \o longer, visited \cup {current}, target)

(* A closed path, told apart from others only up to where it starts. *)
CycleKeyFromStart(path) == {Front(path)}

GetCanonicalCycleKey(path) ==
    LET open == Front(path)
    IN  {SubSeq(open, i, Len(open)) \o SubSeq(open, 1, i - 1) : i \in DOMAIN open}

GetCycleType(g, source, target) ==
    IF source = target \/ Contains(g[target], source) THEN "direct" ELSE "indirect"

(* The cycle through one edge, and what is known of the ones before it. *)
CycleThrough(g, source, target) ==
    IF source = target THEN <<source, source>>
    ELSE <<source>> \o FindPath(g, <<<<target>>>>, {}, source)

FindCycles(g, keys, firstId) ==
    LET edges      == FlattenSeq(Map(LAMBDA s : Map(LAMBDA t : <<s, t>>, g[s]), keys))
        closed     == SelectSeq(edges, LAMBDA e : e[1] \in FindReachableKeys(g, e[2]) \cup {e[2]})
        Add(all, e) ==
            LET path == CycleThrough(g, e[1], e[2])
            IN  IF \E known \in Range(all) : GetCanonicalCycleKey(known.path) = GetCanonicalCycleKey(path)
                THEN all
                ELSE Append(all, [id |-> firstId + Len(all), path |-> path,
                                  type |-> GetCycleType(g, e[1], e[2])])
    IN  FoldLeft(Add, <<>>, closed)

(* A module's imports that are in the graph. *)
ModuleGraph(modules) ==
    [n \in {m.name : m \in Range(modules)} |->
        LET m == CHOOSE x \in Range(modules) : x.name = n
        IN  Once(SelectSeq(m.imports, LAMBDA i : \E x \in Range(modules) : x.name = i))]

DependencyKeys(modules) ==
    Once(FlattenSeq(Map(LAMBDA m : Map(LAMBDA x : <<m.name, x.name>>, MembersOf(m)), modules)))

(* A provider and a controller of one name in one module are one node. *)
DependencyGraph(modules) ==
    LET keys == DependencyKeys(modules)
    IN  [k \in Range(keys) |->
            LET m    == CHOOSE x \in Range(modules) : x.name = k[1]
                same == SelectSeq(MembersOf(m), LAMBDA x : x.name = k[2])
                refs == FlattenSeq(Map(LAMBDA x : x.dependencies, same))
            IN  Once(SelectSeq(Map(LAMBDA d : <<d.module, d.token>>, refs),
                               LAMBDA t : t \in Range(keys)))]

(* A cycle is a controller's when the node it was first met from is. *)
CycleKind(modules, key) ==
    LET m == CHOOSE x \in Range(modules) : x.name = key[1]
    IN  IF \E x \in Range(m.controllers) : x.name = key[2] THEN "controller" ELSE "provider"

FindGraphCycles(modules) ==
    LET names   == Map(LAMBDA m : m.name, modules)
        imports == FindCycles(ModuleGraph(modules), names, 1)
        injects == FindCycles(DependencyGraph(modules), DependencyKeys(modules), 1 + Len(imports))
        Kinded(kind, x) == [id |-> x.id, type |-> x.type, path |-> x.path, kind |-> kind]
    IN  Map(LAMBDA x : Kinded("module", x), imports)
        \o Map(LAMBDA x : Kinded(CycleKind(modules, x.path[1]), x), injects)

GraphWith(root, modules) == [root |-> root, modules |-> modules, cycles |-> FindGraphCycles(modules)]

GetGraphOutput(c, o) ==
    GraphWith(c.modules[RootModule(c, o)].name,
              Map(LAMBDA n : EnrichModule(c, n), FlattenModuleTree(Scan(c, o))))
=============================================================================
