------------------------------- MODULE GraphIssues -------------------------------
(* What the viewer's issues page reports of a graph                           *)
(* (site/app/utils/architecture-issues.ts, circular-dependency-issues.ts),    *)
(* and what Nest itself would say of it.                                      *)
EXTENDS GraphOutput

(* Following imports from the root, all but one of them. *)
RECURSIVE ModulesBelow(_, _, _, _)
ModulesBelow(g, skipped, pending, found) ==
    LET next == {e \in UNION {{<<n, i>> : i \in Range(ModuleNamed(g, n).imports)} : n \in pending} :
                    e # skipped /\ HasModule(g, e[2])}
    IN  IF pending = {} THEN found
        ELSE ModulesBelow(g, skipped, {e[2] : e \in next} \ (found \cup pending), found \cup pending)

ReachableModules(g, skipped) ==
    ModulesBelow(g, skipped, IF HasModule(g, g.root) THEN {g.root} ELSE {}, {})

IsInjectedByProvider(m, imported) ==
    \E x \in Range(m.providers) : \E d \in Range(x.dependencies) :
        d.module = imported.name \/ d.token \in Range(imported.exports)
IsInjected(m, imported) ==
    \E x \in Range(MembersOf(m)) : \E d \in Range(x.dependencies) :
        d.module = imported.name \/ d.token \in Range(imported.exports)

IsReExported(m, imported) ==
    Range(m.exports) \cap ({imported.name} \cup Range(imported.exports)) # {}

(* The framework's providers are no module of the application's. *)
ModuleEntries(g) == {m \in Range(g.modules) : m.name # "NestJSCoreModule"}

(* Never the root's imports, nor the only way to a module. *)
UnusedImports(g) ==
    LET reported == {m \in ModuleEntries(g) : m.name # g.root /\ m.name \in ReachableModules(g, <<>>)}
        known(m) == {i \in Range(g.modules) : /\ i.name \in Range(m.imports)
                                              /\ i.name \notin {m.name, "NestJSCoreModule"}}
    IN  UNION {{<<m.name, i.name>> : i \in {x \in known(m) :
                    /\ ~IsInjected(m, x) /\ ~IsReExported(m, x)
                    /\ x.name \in ReachableModules(g, <<m.name, x.name>>)}} : m \in reported}

(* Names of providers that several modules register. *)
DuplicateProviders(g) ==
    LET Registering(name) == {m \in ModuleEntries(g) : \E x \in Range(m.providers) : x.name = name}
    IN  {name \in UNION {{x.name : x \in Range(m.providers)} : m \in ModuleEntries(g)} :
            Cardinality(Registering(name)) > 1}

(* Another module injects the token, or passes it on. *)
ConsumesExport(consumer, exporter, token) ==
    /\ consumer.name # exporter
    /\ \/ \E x \in Range(MembersOf(consumer)) : \E d \in Range(x.dependencies) :
              d.token = token /\ d.module # consumer.name
       \/ exporter \in Range(consumer.imports) /\ token \in Range(consumer.exports)

DeadExports(g) ==
    UNION {{<<m.name, e>> : e \in {t \in Range(m.exports) :
                ~HasModule(g, t) /\ \A x \in Range(g.modules) : ~ConsumesExport(x, m.name, t)}} : m \in ModuleEntries(g)}

OrphanModules(g) ==
    IF HasModule(g, g.root) THEN {m.name : m \in ModuleEntries(g)} \ ReachableModules(g, <<>>) ELSE {}

(* Each cycle is told of where it starts; what else lies on it is related. *)
ModuleOnPath(x, i) == IF x.kind = "module" THEN x.path[i] ELSE x.path[i][1]

CircularIssues(g) ==
    {[id |-> x.id, from |-> x.path[1], to |-> x.path[2], module |-> ModuleOnPath(x, 1),
      related |-> {ModuleOnPath(x, i) : i \in DOMAIN x.path} \ {ModuleOnPath(x, 1)}] : x \in Range(g.cycles)}

--------------------------------------------------------------------------------
(* Nest's injector: an import lends what it provides and exports, and what a  *)
(* module that it re-exports lends.  The module takes what it does not        *)
(* provide from the first of its imports that lends it.                       *)
Provides(m, token) == \E w \in Range(m.providers) : w.token = token
Lends(m, token)    == token \in Range(m.exports) /\ Provides(m, token)

ReExportsModules(c) == \E m \in Range(c.modules) : \E e \in Range(m.exports) : e.kind = "module"

(* The tokens that a module takes from one of its imports. *)
TakenFrom(c, r, i) ==
    {token \in UNION {Range(w.injects) : w \in Range(c.modules[r].providers \o c.modules[r].controllers)} :
        /\ ~Provides(c.modules[r], token)
        /\ i = FirstOf(c.modules[r].imports, LAMBDA j : Lends(c.modules[j], token), 0)}
=============================================================================
