---------------------------- MODULE DirectRunScreens ----------------------------
(***************************************************************************)
(* What the viewer makes of data on the two pages of a direct run: a form  *)
(* of the text of a method's parameter types (site/app/utils/              *)
(* direct-run-provider.ts), and rows of a trace (site/app/utils/           *)
(* trace-waterfall.ts).                                                    *)
(***************************************************************************)
EXTENDS DirectRun, TypeText

(* The form: a field for each parameter its text shows, checked by its type.  *)
ParameterFields(params) == Len(ParameterInfos(ParameterTypes(params)))
ParametersAccept(params, args) == ArgumentsAccepted(ParameterTypes(params), args)

AllFit(method, args) ==
    Len(args) = Len(method.params) /\ \A p \in DOMAIN args : Fits(method.params[p].type, args[p])


--------------------------------------------------------------------------------
(* buildSpanHierarchy: the rows of a trace, parents before their children.    *)
RECURSIVE Visit(_, _, _, _, _, _)
Visit(trace, collapsed, drawn, span, depth, hidden) ==
    IF span.id \in drawn.visited THEN drawn
    ELSE LET children == ChildrenOf(trace, span)
             isCollapsed == children # <<>> /\ span.id \in collapsed
             row == [id |-> span.id, depth |-> depth, isCollapsed |-> isCollapsed]
             here == [visited |-> drawn.visited \cup {span.id},
                      rows |-> IF hidden THEN drawn.rows ELSE Append(drawn.rows, row)]
         IN  FoldLeft(LAMBDA d, child : Visit(trace, collapsed, d, child, depth + 1, hidden \/ isCollapsed), here, children)

SpanHierarchyOfRoots(trace, collapsed) ==
    FoldLeft(LAMBDA d, span : Visit(trace, collapsed, d, span, 0, FALSE), [visited |-> {}, rows |-> <<>>], Roots(trace)).rows

(* Roots first; then whatever a loop of parents leaves unreachable. *)
SpanHierarchy(trace, collapsed) ==
    FoldLeft(LAMBDA d, span : Visit(trace, collapsed, d, span, 0, FALSE),
             [visited |-> {}, rows |-> <<>>], Roots(trace) \o Spans(trace)).rows

Ancestors(trace, span) ==
    LET ParentsOf(spans) == {s.parent : s \in {c \in spans : IsChild(trace, c)}}
    IN  FoldSet(LAMBDA s, ids : ids \cup ParentsOf({c \in trace : c.id \in ids}), ParentsOf({span}), trace)

(* Every span of the trace shown has one row, except below a folded row; a    *)
(* row's parent is the row it is drawn under.  A span whose parents are in a  *)
(* loop, or not in the trace, is drawn all the same.                          *)
SpansDrawnOnce ==
    IsDrawn =>
        \A trace \in {Trace(waterfall.active)} : \A rows \in {SpanHierarchy(trace, waterfall.folded)} :
            /\ \A a, b \in DOMAIN rows : rows[a].id = rows[b].id => a = b
            /\ \A s \in trace :
                   LET above == Ancestors(trace, s) \ {s.id}
                       isDrawn == \E r \in DOMAIN rows : rows[r].id = s.id
                   IN  /\ ~isDrawn => above \cap waterfall.folded # {}
                       /\ isDrawn /\ s.id \notin Ancestors(trace, s) => above \cap waterfall.folded = {}
            /\ \A r \in DOMAIN rows : rows[r].depth > 0 =>
                   \E q \in 1..(r - 1) : /\ rows[q].depth = rows[r].depth - 1 /\ ~rows[q].isCollapsed
                                         /\ \A k \in (q + 1)..(r - 1) : rows[k].depth > rows[q].depth
                                         /\ \E s \in trace : s.id = rows[r].id /\ s.parent = rows[q].id
================================================================================
