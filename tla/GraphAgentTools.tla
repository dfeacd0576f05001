----------------------------- MODULE GraphAgentTools -----------------------------
(***************************************************************************)
(* What a model may ask about a graph: the queries of                      *)
(* site/app/utils/graph-agent-tools.ts, as far as the names they answer    *)
(* about and the tree of dependencies they walk.                           *)
(*                                                                         *)
(* A name is a sequence of words.  A graph is the sequence of its modules' *)
(* names and a record for each: sets of imports and exports, and sequences *)
(* of [name, dependencies], a dependency being [token, providedBy].        *)
(***************************************************************************)
EXTENDS Integers, FiniteSets, SequencesExt

CONSTANTS
    Fold,          \* a word without its case and punctuation: "" when nothing is left
    WordLength,    \* the length of each folded word
    MaxTreeLines,  \* MAX_TREE_LINES
    MaxTraceDepth  \* MAX_TRACE_DEPTH

MinPartialMatchLength == 3
NoModule == <<>>

ListModules(g)      == ToSet(g.order)
Declared(g, m)      == ToSet(g.modules[m].providers) \cup ToSet(g.modules[m].controllers)
InjectableNames(g)  == UNION {{i.name : i \in Declared(g, m)} : m \in ListModules(g)}
LookupNames(g) ==
    InjectableNames(g) \cup
    UNION {g.modules[m].exports \cup UNION {{d.token : d \in ToSet(i.dependencies)} : i \in Declared(g, m)} :
               m \in ListModules(g)}

--------------------------------------------------------------------------------
(* Names                                                                      *)

Normalize(name) == SelectSeq([i \in DOMAIN name |-> Fold[name[i]]], LAMBDA w : w # "")

(* Spaces at the ends are no part of what was asked. *)
AskedName(query) ==
    LET start == SelectInSeq(query, LAMBDA w : w # " ")
        end   == SelectLastInSeq(query, LAMBDA w : w # " ")
    IN  IF start = 0 THEN <<>> ELSE SubSeq(query, start, end)

Includes(long, short) == \E i \in 0..(Len(long) - Len(short)) : SubSeq(long, i + 1, i + Len(short)) = short
LengthOf(name)        == FoldLeft(LAMBDA n, w : n + WordLength[w], 0, name)

(* An exact hit, or one that only differs in case and punctuation: the set of *)
(* it.                                                                        *)
ExactName(query, names) ==
    LET same == {n \in names : Normalize(n) = Normalize(query)}
    IN  IF AskedName(query) \in names THEN {AskedName(query)}
        ELSE IF Cardinality(same) = 1 THEN same ELSE {}

PartialNames(query, names) ==
    {n \in names : \/ Includes(Normalize(n), Normalize(query))
                   \/ /\ LengthOf(Normalize(n)) >= MinPartialMatchLength
                      /\ Includes(Normalize(query), Normalize(n))}

(* A miss may be answered with any of the names that are there. *)
Match(kind, names) == [kind |-> kind, names |-> names]

MatchNear(query, names) ==
    LET partial == PartialNames(query, names)
    IN  IF partial = {} THEN Match("none", names)
        ELSE IF Cardinality(partial) = 1 THEN Match("one", partial) ELSE Match("many", partial)

MatchNameHere(query, names, elsewhere) ==
    IF Normalize(query) = <<>> THEN Match("none", names)
    ELSE IF ExactName(query, names) # {} THEN Match("one", ExactName(query, names))
    ELSE MatchNear(query, names)

MatchName(query, names, elsewhere) ==
    IF Normalize(query) = <<>> THEN Match("none", names)
    ELSE IF ExactName(query, names) # {} THEN Match("one", ExactName(query, names))
    ELSE IF ExactName(query, elsewhere) # {} THEN Match("elsewhere", ExactName(query, elsewhere))
    ELSE MatchNear(query, names)

(* The name of the other half that a miss was meant for, if there is just one.*)
Resolve(query, names) == LET m == MatchName(query, names, {}) IN IF m.kind = "one" THEN m.names ELSE {}

--------------------------------------------------------------------------------
(* Lookups.  A reply is about some names, or names what to ask `tool` next.   *)

Says(kind, tool, names) == [kind |-> kind, tool |-> tool, names |-> names]

(* What a match is answered with: a name of the other half, when a miss was   *)
(* meant for one, is said to be asked of its own tool.                        *)
KindOf == [one |-> "answer", many |-> "ambiguous", elsewhere |-> "redirect"]
Answered(tool, m, elsewhereTool, other, otherTool) ==
    IF m.kind = "none" THEN IF other = {} THEN Says("unknown", tool, m.names) ELSE Says("redirect", otherTool, other)
    ELSE Says(KindOf[m.kind], IF m.kind = "elsewhere" THEN elsewhereTool ELSE tool, m.names)

DescribeModule(g, query) ==
    Answered("describe_module", MatchName(query, ListModules(g), LookupNames(g)), "find_provider",
             Resolve(query, LookupNames(g)), "find_provider")

(* A name that only a re-export leaves is a module's. *)
FindProvider(g, query) ==
    LET r == Answered("find_provider", MatchName(query, LookupNames(g), ListModules(g)), "describe_module",
                      Resolve(query, ListModules(g)), "describe_module")
    IN  IF r.kind = "answer" /\ r.names \subseteq ListModules(g) \ InjectableNames(g)
        THEN Says("redirect", "describe_module", r.names) ELSE r

ToolOf(g, names) == IF names \subseteq ListModules(g) THEN "describe_module" ELSE "find_provider"
TraceFrom(g, query) ==
    LET m     == MatchName(query, InjectableNames(g), ListModules(g) \cup (LookupNames(g) \ InjectableNames(g)))
        other == IF Resolve(query, ListModules(g)) # {} THEN Resolve(query, ListModules(g))
                 ELSE Resolve(query, LookupNames(g))
    IN  IF InjectableNames(g) = {} THEN Says("unknown", "trace_dependencies", {})
        ELSE Answered("trace_dependencies", m, ToolOf(g, m.names), other, ToolOf(g, other))

(* Every name that contains the word; what was exported and is not declared   *)
(* is named as well.                                                          *)
SearchGraph(g, query) ==
    LET found == {n \in ListModules(g) \cup InjectableNames(g) \cup UNION {g.modules[m].exports : m \in ListModules(g)} :
                      Includes(Normalize(n), Normalize(query))}
    IN  IF Normalize(query) = <<>> \/ found = {} THEN Says("unknown", "list_modules", {})
        ELSE Says("found", "find_provider", found)

Reply(g, tool, query) ==
    CASE g.order = <<>> -> Says("no graph", tool, {})
      [] g.order # <<>> /\ tool = "list_modules" -> Says("found", "describe_module", ListModules(g))
      [] g.order # <<>> /\ tool = "describe_module" -> DescribeModule(g, query)
      [] g.order # <<>> /\ tool = "find_provider" -> FindProvider(g, query)
      [] g.order # <<>> /\ tool = "trace_dependencies" -> TraceFrom(g, query)
      [] g.order # <<>> /\ tool = "search_graph" -> SearchGraph(g, query)

--------------------------------------------------------------------------------
(* trace_dependencies                                                         *)

Truncated(depth) == IF depth < 1 THEN 1 ELSE IF depth > MaxTraceDepth THEN MaxTraceDepth ELSE depth

Named(seq, name) == SelectSeq(seq, LAMBDA i : i.name = name)

(* The first that carries the name: providers of all modules come before      *)
(* controllers.                                                               *)
FindInjectors(g, name) ==
    FlattenSeq([i \in DOMAIN g.order |->
        [j \in DOMAIN Named(g.modules[g.order[i]].providers, name) |->
            [module |-> g.order[i], injector |-> Named(g.modules[g.order[i]].providers, name)[j]]]]) \o
    FlattenSeq([i \in DOMAIN g.order |->
        [j \in DOMAIN Named(g.modules[g.order[i]].controllers, name) |->
            [module |-> g.order[i], injector |-> Named(g.modules[g.order[i]].controllers, name)[j]]]])

(* The providers a dependency is resolved to: none, or one. *)
Target(g, d) ==
    IF d.providedBy \in ListModules(g) THEN Named(g.modules[d.providedBy].providers, d.token) ELSE <<>>

Line(t, node, from, note) == [t EXCEPT !.lines = Append(@, [node |-> node, from |-> from, note |-> note])]

NoteOfSeen(t, node, isDeclared, dependencies, level, depth, path) ==
    CASE node \in t.expanded -> "expanded above"
      [] node \notin t.expanded /\ node \in path -> "circular"
      [] node \notin t.expanded \cup path /\ ~isDeclared -> "not declared"
      [] node \notin t.expanded \cup path /\ isDeclared /\ dependencies = <<>> -> "no dependencies"
      [] node \notin t.expanded \cup path /\ isDeclared /\ dependencies # <<>> /\ level >= depth -> "depth limit"
      [] OTHER -> "followed"

NoteOf(t, node, isDeclared, dependencies, level, depth, path) ==
    CASE node \in path -> "circular"
      [] node \notin path /\ node \in t.expanded -> "expanded above"
      [] node \notin t.expanded \cup path /\ ~isDeclared -> "not declared"
      [] node \notin t.expanded \cup path /\ isDeclared /\ dependencies = <<>> -> "no dependencies"
      [] node \notin t.expanded \cup path /\ isDeclared /\ dependencies # <<>> /\ level >= depth -> "depth limit"
      [] OTHER -> "followed"

RECURSIVE Walk(_, _, _, _, _, _, _, _, _)
WalkBelow(g, t, node, dependencies, level, depth, path) ==
    FoldLeft(LAMBDA u, d : LET target == Target(g, d)
                           IN  Walk(g, u, <<d.providedBy, d.token>>, node, target # <<>>,
                                    IF target = <<>> THEN <<>> ELSE target[1].dependencies,
                                    level + 1, depth, path \cup {node}),
             [t EXCEPT !.expanded = @ \cup {node}], dependencies)

Walk(g, t, node, from, isDeclared, dependencies, level, depth, path) ==
    LET note == NoteOf(t, node, isDeclared, dependencies, level, depth, path)
    IN  IF Len(t.lines) >= MaxTreeLines THEN [t EXCEPT !.truncated = TRUE]
        ELSE IF note # "followed" THEN Line(t, node, from, note)
        ELSE WalkBelow(g, Line(t, node, from, note), node, dependencies, level, depth, path)

TraceDependencies(g, name, maxDepth) ==
    LET start == FindInjectors(g, name)[1]
    IN  Walk(g, [lines |-> <<>>, expanded |-> {}, truncated |-> FALSE],
             <<start.module, start.injector.name>>, <<>>, TRUE, start.injector.dependencies,
             0, Truncated(maxDepth), {})
=============================================================================
