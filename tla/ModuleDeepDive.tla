----------------------------- MODULE ModuleDeepDive -----------------------------
(* A module's own page (site/app/utils/module-deep-dive.ts): what it declares *)
(* and what its members inject, ranked so that a dependency comes before      *)
(* whatever injects it, each injection marked with the cycles that run        *)
(* through it.  Nodes are those of GraphEdges; what comes from elsewhere is   *)
(* <<"external", module, token>>.                                             *)
EXTENDS GraphEdges

(* The item of the module a dependency resolves to, or a node of its own. *)
DependencyNode(m, d) ==
    LET own == IF d.module = m.name THEN ItemNamed(m, d.token) ELSE NoNode
    IN  IF own # NoNode THEN own ELSE <<"external", d.module, d.token>>

(* PageInjections in the order of the members: [target, dependency]. *)
PageInjections(m) ==
    FlattenSeq([i \in DOMAIN ItemIds(m) |->
        Map(LAMBDA d : [target |-> ItemIds(m)[i], dependency |-> d], MembersOf(m)[i].dependencies)])

PageEdge(m, i)   == <<DependencyNode(m, i.dependency), i.target>>
PageEdges(m)     == {PageEdge(m, i) : i \in Range(PageInjections(m))}
PageNodes(m)     == Range(ItemIds(m)) \cup {e[1] : e \in PageEdges(m)}

(* A cycle names an injection by its two ends; a provider and a controller of *)
(* one name are the same end, and the controller is met last.                 *)
EdgesOfStep(m, step) ==
    LET named == SelectSeq(PageInjections(m), LAMBDA i :
                     /\ step[1] = <<m.name, i.target[3]>>
                     /\ step[2] = <<i.dependency.module, i.dependency.token>>)
    IN  IF named = <<>> THEN {} ELSE {PageEdge(m, Last(named))}

DependencyCycleSteps(g) ==
    UNION {{<<x.id, s>> : s \in Steps(x.path)} : x \in CyclesOf(g, {"provider", "controller"})}
CycleIdsOn(g, m, e) == {step[1] : step \in {s \in DependencyCycleSteps(g) : e \in EdgesOfStep(m, s[2])}}

--------------------------------------------------------------------------------
(* Ranks                                                                      *)

(* The providers of its module that each provider injects. *)
ProviderDependencies(m) ==
    LET edges == Map(LAMBDA i : PageEdge(m, i), PageInjections(m))
    IN  [id \in {n \in Range(ItemIds(m)) : n[1] = "provider"} |->
            Map(LAMBDA e : e[1], SelectSeq(edges, LAMBDA e : e[2] = id /\ e[1][1] = "provider"))]

(* The levels known once `id` is visited.  What is being visited lies on the  *)
(* path that led here, and is skipped.                                        *)
RECURSIVE Leveled(_, _, _, _)
Leveled(dependencies, levels, visiting, id) ==
    LET Add(sofar, d) ==
            IF d \in visiting \cup {id} THEN sofar
            ELSE LET known == Leveled(dependencies, sofar.levels, visiting \cup {id}, d)
                 IN  [levels |-> known, level |-> Max({sofar.level, known[d] + 1})]
        below == FoldLeft(Add, [levels |-> levels, level |-> 0], dependencies[id])
    IN  IF id \in DOMAIN levels THEN levels ELSE (id :> below.level) @@ below.levels

ResolveDependencyLevels(ids, dependencies) ==
    FoldLeft(LAMBDA levels, id : Leveled(dependencies, levels, {}, id), [n \in {} |-> 0], ids)

ProviderLevels(m) ==
    ResolveDependencyLevels(SelectSeq(ItemIds(m), LAMBDA n : n[1] = "provider"), ProviderDependencies(m))

Distinct(s) == FoldLeft(LAMBDA seen, n : IF n \in Range(seen) THEN seen ELSE Append(seen, n), <<>>, s)

(* What comes from elsewhere first, providers by level, controllers last;     *)
(* empty ranks close up.  The order within the first rank is by name, which   *)
(* nothing depends on: here it is the order met.                              *)
Ranks(m) ==
    LET levels    == ProviderLevels(m)
        Items(kind) == SelectSeq(ItemIds(m), LAMBDA n : n[1] = kind)
        externals == SelectSeq(Map(LAMBDA i : PageEdge(m, i)[1], PageInjections(m)), LAMBDA n : n[1] = "external")
        columns   == <<Distinct(externals)>>
                     \o [l \in 1..Max({0} \cup {levels[n] + 1 : n \in DOMAIN levels}) |->
                            SelectSeq(Items("provider"), LAMBDA n : levels[n] = l - 1)]
                     \o <<Items("controller")>>
    IN  SelectSeq(columns, LAMBDA c : c # <<>>)

--------------------------------------------------------------------------------
(* Places, doubled, for the ranks are centred on a line they share            *)

DeepDiveItemWidth     == 220
DeepDiveItemHeight    == 36
DeepDiveExternalHeight == 52
ColumnGap  == 120
RowGap     == 20
RankRowGap == 80
SiblingGap == 20

DeepDiveHeight(n) == IF n[1] = "external" THEN DeepDiveExternalHeight ELSE DeepDiveItemHeight

OnTheLine(rank, i, step) == (2 * i - 1 - Len(rank)) * step

PlaceRanksInColumns(ranks) ==
    [k \in DOMAIN ranks |->
        [i \in DOMAIN ranks[k] |->
            [x |-> 2 * (k - 1) * (DeepDiveItemWidth + ColumnGap),
             y |-> OnTheLine(ranks[k], i, DeepDiveHeight(Head(ranks[k])) + RowGap)]]]

PlaceRanksInRows(ranks) ==
    LET RowHeight(rank) == Max({DeepDiveHeight(n) : n \in Range(rank)}) + RankRowGap
        Top(k) == FoldLeft(LAMBDA top, rank : top + 2 * RowHeight(rank), 0, SubSeq(ranks, 1, k - 1))
    IN  [k \in DOMAIN ranks |->
            [i \in DOMAIN ranks[k] |->
                [x |-> OnTheLine(ranks[k], i, DeepDiveItemWidth + SiblingGap), y |-> Top(k)]]]
=============================================================================
