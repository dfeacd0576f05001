--------------------------- MODULE OutputInstall ---------------------------
(***************************************************************************)
(* Installing the configured outputs while the host application starts:    *)
(* NestGraphInspectorSetup.onModuleInit, the viewer and HTTP outputs, and  *)
(* the servers they share in HttpServeAdapter (lib/src).                   *)
(*                                                                         *)
(* Everything between two I/O events runs as one burst of continuations,   *)
(* in the order the outputs are configured in (Quiet); what the operating  *)
(* system and the network answer comes in any order.  A server state of    *)
(* the adapter is named by the registration that created it.               *)
(***************************************************************************)
EXTENDS FiniteSets, RouteDispatch

CONSTANTS
    N,          \* how many outputs are configured
    Origins,    \* the origins they may name
    Dynamic,    \* the origins whose port is 0
    Resolved,   \* the origin of a server whose dynamic port is known
    Path,       \* the path of each output
    RunPath     \* the path of direct run, the same for every viewer by default

ASSUME InstallAssumption ==
    /\ N \in Nat \ {0}
    /\ Dynamic \subseteq Origins /\ Resolved \notin Origins
    /\ Path \in [1..N -> Seq(STRING)] /\ RunPath \in Seq(STRING)

Outputs == 1..N
States  == 1..(2 * N)

VARIABLES
    kind, origin,   \* the configuration: type and origin of each output
    busy,           \* the origins whose port another process holds
    info,           \* whether the memoised version lookup has settled
    pc,             \* where the installation of each output is
    tracked, key,   \* servers: the states in the map, and their keys
    promise,        \* listenPromise of each state
    up,             \* the states whose server is bound
    home, run,      \* the states that hold an output's graph and direct-run routes
    awaits,         \* the states whose promises its serve() waits for
    stopped         \* onModuleDestroy has run

config  == <<kind, origin, busy>>
servers == <<tracked, key, promise, up>>
vars == <<config, info, pc, servers, home, run, awaits, stopped>>

Settled == {"installed", "failed"}

TypeOK ==
    /\ kind \in [Outputs -> {"viewer", "http", "file"}]
    /\ origin \in [Outputs -> Origins] /\ busy \subseteq Origins \ Dynamic
    /\ info \in BOOLEAN /\ stopped \in BOOLEAN
    /\ pc \in [Outputs -> {"waiting", "info", "registered", "serving", "writing"} \cup Settled]
    /\ tracked \subseteq States /\ key \in [States -> Origins \cup {Resolved}]
    /\ \A s, t \in tracked : key[s] = key[t] => s = t \/ key[s] = Resolved
    /\ promise \in [States -> {"none", "pending", "resolved", "rejected"}]
    /\ up \subseteq {s \in States : promise[s] = "resolved"}
    /\ home \in [Outputs -> States] /\ run \in [Outputs -> States]
    /\ awaits \in [Outputs -> SUBSET States]

Init ==
    /\ kind \in [Outputs -> {"viewer", "http", "file"}]
    /\ origin \in [Outputs -> Origins] /\ busy \in SUBSET (Origins \ Dynamic)
    /\ info = FALSE /\ stopped = FALSE
    /\ pc = [o \in Outputs |-> "waiting"]
    /\ tracked = {} /\ key = [s \in States |-> Resolved]
    /\ promise = [s \in States |-> "none"] /\ up = {}
    /\ home = [o \in Outputs |-> o] /\ run = [o \in Outputs |-> o]
    /\ awaits = [o \in Outputs |-> {}]

Viewers == {o \in Outputs : kind[o] = "viewer"}
Goes(o, from, to) == pc[o] = from /\ pc' = [pc EXCEPT ![o] = to]

-----------------------------------------------------------------------------
(* Mutant: every registration has a server of its own.                     *)
StateOfItsOwn(id, og) == id

(* serverState: the tracked state of an origin, or a new one.              *)
StateFor(id, og) ==
    IF \E s \in tracked : key[s] = og THEN CHOOSE s \in tracked : key[s] = og ELSE id

(* register                                                                *)
Register(id, og) ==
    /\ tracked' = tracked \cup {StateFor(id, og)}
    /\ key' = [key EXCEPT ![StateFor(id, og)] = og]

(* Mutant: serve starts the servers and waits for none of them.            *)
ServeWithoutWaiting(o) ==
    /\ promise' = [s \in States |-> IF s \in tracked' /\ promise[s] = "none"
                                       THEN "pending" ELSE promise[s]]
    /\ awaits' = awaits

(* serve: starts every tracked server not started yet, and waits for all.  *)
Serve(o) ==
    /\ promise' = [s \in States |-> IF s \in tracked' /\ promise[s] = "none"
                                       THEN "pending" ELSE promise[s]]
    /\ awaits' = [awaits EXCEPT ![o] = tracked']

(* close(origin) and close().  A server that is still looking its host up  *)
(* has no handle to close: it goes on, and binds later.                    *)
CloseStates(closed) == up' = up \ closed /\ tracked' = tracked \ closed

-----------------------------------------------------------------------------
(* onModuleInit installs the viewers, all at once.                         *)
InstallViewers ==
    /\ \A o \in Outputs : pc[o] = "waiting"
    /\ Viewers # {}
    /\ pc' = [o \in Outputs |-> IF o \in Viewers THEN "info" ELSE pc[o]]
    /\ UNCHANGED <<config, info, servers, home, run, awaits, stopped>>

(* publishOutputs: once the viewers have settled, the other outputs.       *)
PublishOutputs ==
    /\ \A o \in Viewers : pc[o] \in Settled
    /\ \E o \in Outputs : pc[o] = "waiting"
    /\ pc' = [o \in Outputs |->
                 IF pc[o] # "waiting" THEN pc[o]
                 ELSE IF kind[o] = "file" THEN "writing" ELSE "info"]
    /\ UNCHANGED <<config, info, servers, home, run, awaits, stopped>>

(* HttpOutputAdapter.execute for a viewer: registers its routes.           *)
RegisterViewer(o) ==
    /\ info /\ kind[o] = "viewer" /\ Goes(o, "info", "registered")
    /\ \A p \in Outputs : p < o => pc[p] # "info"
    /\ Register(o, origin[o]) /\ home' = [home EXCEPT ![o] = StateFor(o, origin[o])]
    /\ UNCHANGED <<config, info, promise, up, run, awaits, stopped>>

(* Mutant: direct run registers on an origin that is not the viewer's.     *)
DirectRunOriginDefault(o) == origin[1]

DirectRunOrigin(o) == origin[o]

(* The rest of ViewerOutputAdapter.execute: direct run's routes, and serve.*)
ServeViewer(o) ==
    /\ Goes(o, "registered", "serving")
    /\ \A p \in Outputs : pc[p] # "info" /\ (p < o => pc[p] # "registered")
    /\ Register(N + o, DirectRunOrigin(o))
    /\ run' = [run EXCEPT ![o] = StateFor(N + o, DirectRunOrigin(o))]
    /\ Serve(o)
    /\ UNCHANGED <<config, info, up, home, stopped>>

(* HttpOutputAdapter.execute for an http output: registers and serves.     *)
InstallHttp(o) ==
    /\ info /\ kind[o] = "http" /\ Goes(o, "info", "serving")
    /\ \A p \in Outputs : p < o => pc[p] # "info"
    /\ Register(o, origin[o]) /\ home' = [home EXCEPT ![o] = StateFor(o, origin[o])]
    /\ Serve(o)
    /\ UNCHANGED <<config, info, up, run, stopped>>

AllListen(o)   == pc[o] = "serving" /\ \A s \in awaits[o] : promise[s] = "resolved"
SomeFailed(o)  == pc[o] = "serving" /\ \E s \in awaits[o] : promise[s] = "rejected"

(* Every server listens: the output logs where it is.                      *)
Installed(o) ==
    /\ AllListen(o) /\ pc' = [pc EXCEPT ![o] = "installed"]
    /\ UNCHANGED <<config, info, servers, home, run, awaits, stopped>>

(* Mutant: the rejection of a listen goes unnoticed.                       *)
FailUnnoticed(o) == FALSE /\ UNCHANGED vars

(* Some server failed: a viewer closes every server, an http output the    *)
(* one of its origin, and the failure is logged.                           *)
Fail(o) ==
    /\ SomeFailed(o) /\ pc' = [pc EXCEPT ![o] = "failed"]
    /\ CloseStates({s \in tracked : kind[o] = "viewer" \/ key[s] = origin[o]})
    /\ UNCHANGED <<config, info, key, promise, home, run, awaits, stopped>>

-----------------------------------------------------------------------------
(* I/O is answered only once no continuation is left to run.               *)
Quiet ==
    /\ \A o \in Outputs :
          /\ pc[o] # "registered" /\ (info => pc[o] # "info")
          /\ ~AllListen(o) /\ ~SomeFailed(o)
    /\ (\A o \in Viewers : pc[o] \in Settled) => \A o \in Outputs : pc[o] # "waiting"

(* The version lookup answers, fails, or times out: one for all outputs.   *)
LookupSettles ==
    /\ Quiet /\ ~info /\ (\E o \in Outputs : pc[o] = "info") /\ info' = TRUE
    /\ UNCHANGED <<config, pc, servers, home, run, awaits, stopped>>

(* json and markdown outputs write their file, or fail to.                 *)
WriteSettles(o) ==
    /\ Quiet /\ (Goes(o, "writing", "installed") \/ Goes(o, "writing", "failed"))
    /\ UNCHANGED <<config, info, servers, home, run, awaits, stopped>>

CanBind(s) ==
    \/ key[s] \in Dynamic
    \/ key[s] \notin busy /\ \A t \in up : key[t] # key[s]

(* Mutant: the state of a dynamic port is dropped from the map.            *)
ResolvePortDropped(s) ==
    IF key[s] \in Dynamic
       THEN key' = [key EXCEPT ![s] = Resolved] /\ tracked' = tracked \ {s}
       ELSE UNCHANGED <<key, tracked>>

(* resolveDynamicPort: the state moves to the key of its real port.        *)
ResolvePort(s) ==
    IF key[s] \in Dynamic
       THEN key' = [key EXCEPT ![s] = Resolved] /\ tracked' = tracked \cup {s}
       ELSE UNCHANGED <<key, tracked>>

Listens(s) ==
    /\ Quiet /\ promise[s] = "pending" /\ CanBind(s)
    /\ promise' = [promise EXCEPT ![s] = "resolved"] /\ up' = up \cup {s}
    /\ ResolvePort(s)
    /\ UNCHANGED <<config, info, pc, home, run, awaits, stopped>>

CannotListen(s) ==
    /\ Quiet /\ promise[s] = "pending" /\ ~CanBind(s)
    /\ promise' = [promise EXCEPT ![s] = "rejected"]
    /\ UNCHANGED <<config, info, pc, tracked, key, up, home, run, awaits, stopped>>

(* onModuleDestroy of the adapter, once the application has started.       *)
Shutdown ==
    /\ \A o \in Outputs : pc[o] \in Settled
    /\ ~stopped /\ stopped' = TRUE
    /\ CloseStates(tracked)
    /\ UNCHANGED <<config, info, pc, key, promise, home, run, awaits>>

Starting ==
    \/ InstallViewers \/ PublishOutputs \/ LookupSettles
    \/ \E o \in Outputs : \/ RegisterViewer(o) \/ ServeViewer(o) \/ InstallHttp(o)
                          \/ Installed(o) \/ Fail(o) \/ WriteSettles(o)
    \/ \E s \in States : Listens(s) \/ CannotListen(s)

Next == Starting \/ Shutdown

Spec == Init /\ [][Next]_vars

(* Continuations run, and the network and the file system answer: the      *)
(* lookup is bounded by LATEST_VERSION_TIMEOUT_MS.                         *)
FairSpec == Spec /\ WF_vars(Starting)

-----------------------------------------------------------------------------
(* What an output has registered, and the table of a server: the viewers'  *)
(* graphs, then their direct-run routes, then the http outputs, each in    *)
(* the order of the configuration.                                         *)
HasGraph(o) == kind[o] # "file" /\ pc[o] \in {"registered", "serving"} \cup Settled
HasRun(o)   == kind[o] = "viewer" /\ pc[o] \in {"serving"} \cup Settled
GraphRoutesOf(o, s, type) ==
    IF kind[o] = type /\ HasGraph(o) /\ home[o] = s THEN GraphRoutes(Path[o], o) ELSE <<>>
RunRoutesOf(o, s) == IF HasRun(o) /\ run[o] = s THEN DirectRunRoutes(RunPath, o) ELSE <<>>

Table(s) ==
    FlattenSeq([o \in Outputs |-> GraphRoutesOf(o, s, "viewer")])
    \o FlattenSeq([o \in Outputs |-> RunRoutesOf(o, s)])
    \o FlattenSeq([o \in Outputs |-> GraphRoutesOf(o, s, "http")])

-----------------------------------------------------------------------------
(* "A failing output never fails the application": whatever fails, every   *)
(* output settles, and with them onModuleInit.                             *)
StartupCompletes == <>(\A o \in Outputs : pc[o] \in Settled)

(* An output that logs where its endpoints are has a server bound there,   *)
(* even if other outputs failed while it was starting; only an http output *)
(* of its own origin that failed, over another's port, may have closed it. *)
InstalledMeansUp ==
    [][\A o \in Outputs : pc[o] = "serving" /\ pc'[o] = "installed" =>
          \/ home[o] \in up'
          \/ \E p \in Outputs : kind[p] = "http" /\ pc[p] = "failed" /\ origin[p] = origin[o]]_vars

(* "Everything a viewer output installs, on one server": the routes that   *)
(* run methods are registered beside the graph they belong to, and what    *)
(* guards and closes one guards and closes the other.                      *)
OneServerPerViewer ==
    \A o \in Viewers : pc[o] \in {"serving"} \cup Settled => run[o] = home[o]

Concrete(path) == IF Last(path) = "*" THEN JoinPath(Front(path), "a trace") ELSE path
Ask(table, route, method, allowed) ==
    HandleRequest(table, [method |-> method, path |-> Concrete(route.path),
                          asks |-> TRUE, allowed |-> allowed])

(* Each endpoint an installed output announces is answered by a handler of *)
(* its kind and, where outputs share a server and a path, all endpoints    *)
(* under that path by one of them; never without the guard's consent,      *)
(* which a browser's preflight does not need (http-serve.adapter.ts:236).  *)
AnnouncedIsServed ==
    \A o \in Outputs : kind[o] # "file" /\ pc[o] = "installed" /\ home[o] \in up =>
        LET table  == Table(home[o])
            graph  == ToSet(GraphRoutes(Path[o], o))
            direct == IF kind[o] = "viewer" THEN ToSet(DirectRunRoutes(RunPath, o)) ELSE {}
        IN  /\ \A route \in graph \cup direct :
                  /\ Ask(table, route, route.type, TRUE).end = route.end
                  /\ Ask(table, route, route.type, FALSE) = Nobody("refused")
                  /\ Ask(table, route, "OPTIONS", FALSE) = Nobody("preflight")
            /\ \A routes \in {graph, direct} :
                  Cardinality({Ask(table, route, route.type, TRUE).out : route \in routes}) <= 1
            /\ \A route \in graph : Path[Ask(table, route, route.type, TRUE).out] = Path[o]

(* When every output was installed, shutting down leaves no port bound.    *)
ShutdownReleasesPorts ==
    stopped /\ (\A o \in Outputs : kind[o] = "file" \/ pc[o] = "installed") => up = {}

(* "No output may depend on another having run": an output whose own port  *)
(* is free is installed, and stays up until the application shuts down.    *)
OutputsAreIndependent ==
    \A o \in Outputs :
        kind[o] # "file" /\ pc[o] \in Settled /\ ~stopped /\ origin[o] \notin busy =>
            pc[o] = "installed" /\ home[o] \in up

(* A viewer's routes are on one server, what is announced is answered, and *)
(* what is logged as installed is up unless its own origin was closed.     *)
ViewersInstalled == [](TypeOK /\ OneServerPerViewer /\ AnnouncedIsServed) /\ InstalledMeansUp
=============================================================================
