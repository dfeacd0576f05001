--------------------------- MODULE RouteDispatch ---------------------------
(***************************************************************************)
(* The routes of one server of HttpServeAdapter and how it picks the one   *)
(* that answers a request (lib/src/adapters/http-serve.adapter.ts), with   *)
(* the routes that the graph output and direct run register there.         *)
(*                                                                         *)
(* A path is the sequence of its segments; "*" at its end stands for any   *)
(* rest, and AnyPath for any path at all.  A table is the sequence of      *)
(* routes in the order they were registered.  No route of the library asks *)
(* for a header, so requestHeadersMatch never turns one down.              *)
(***************************************************************************)
EXTENDS Naturals, SequencesExt

AnyPath == <<"*">>

(* get, post: `end' names the handler, `out' the output it belongs to.     *)
Get(path, end, out)  == [type |-> "GET", path |-> path, end |-> end, out |-> out]
Post(path, end, out) == [type |-> "POST", path |-> path, end |-> end, out |-> out]

(* routeKey and the group of routes that are registered under one key.     *)
RouteKey(route) == <<route.type, route.path>>
Group(table, key) == SelectSeq(table, LAMBDA route : RouteKey(route) = key)

(* A wildcard covers what begins with its prefix, and the prefix itself.   *)
IsUnder(path, pattern) ==
    /\ Len(pattern) > 1 /\ Last(pattern) = "*"
    /\ IsPrefix(Front(pattern), path)

(* wildcardPathCandidates: group by group, in the order of their keys.     *)
WildcardPathCandidates(table, method, path) ==
    FlattenSeq([i \in DOMAIN table |->
        IF /\ table[i].type = method /\ IsUnder(path, table[i].path)
           /\ \A j \in 1..(i - 1) : RouteKey(table[j]) # RouteKey(table[i])
        THEN Group(table, RouteKey(table[i]))
        ELSE <<>>])

(* route: an exact path before a wildcard, a method before any method.     *)
Candidates(table, method, path) ==
    Group(table, <<method, path>>) \o WildcardPathCandidates(table, method, path)
    \o Group(table, <<method, AnyPath>>)
    \o Group(table, <<"*", path>>) \o WildcardPathCandidates(table, "*", path)
    \o Group(table, <<"*", AnyPath>>)

(* isCorsPreflightRequest: the headers of one, and its method.             *)
IsPreflight(request) == request.method = "OPTIONS" /\ request.asks

(* handleRequest: who answers, or why nobody does.  A preflight carries no *)
(* token of its own; of all other requests the guard is asked first.       *)
Nobody(why) == [end |-> why, out |-> 0]
HandleRequest(table, request) ==
    LET found == Candidates(table, request.method, request.path) IN
    IF found = <<>> THEN Nobody(IF IsPreflight(request) THEN "preflight" ELSE "missing")
    ELSE IF ~IsPreflight(request) /\ ~request.allowed THEN Nobody("refused")
    ELSE [end |-> Head(found).end, out |-> Head(found).out]

-----------------------------------------------------------------------------
(* joinPath                                                                *)
JoinPath(base, child) == Append(base, child)

(* HttpOutputAdapter.execute: the routes of a graph and its layout, under  *)
(* the output's own path.                                                  *)
GraphRoutes(base, out) ==
    << Get(JoinPath(base, "information.json"), "information", out),
       Get(JoinPath(base, "output.json"), "graph", out),
       Get(JoinPath(base, "output.schema.json"), "schema", out),
       Get(JoinPath(base, "output.md"), "markdown", out),
       Get(JoinPath(base, "layout.json"), "load", out),
       Post(JoinPath(base, "layout.json"), "save", out),
       Get(JoinPath(base, "layout"), "load", out),
       Post(JoinPath(base, "layout"), "save", out) >>

(* createRoute, createHistoriesRoute, createHistoryIndexRoute and          *)
(* createHistoryTraceRoute, under the path of direct run.                  *)
DirectRunRoutes(base, out) ==
    << Post(base, "run", out),
       Get(JoinPath(base, "histories"), "histories", out),
       Get(JoinPath(JoinPath(base, "history"), "index.json"), "index", out),
       Get(JoinPath(JoinPath(base, "history"), "*"), "trace", out) >>
=============================================================================
