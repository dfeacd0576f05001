--------------------------- MODULE InspectorStore ---------------------------
(***************************************************************************)
(* The viewer's store, site/app/stores/graph-inspector.ts: which graph the *)
(* tab is on and with which credential, loads of the graph from its        *)
(* endpoint, and saves of its layout.  Requests are answered in any order, *)
(* and the visitor goes on while they are.                                 *)
(*                                                                         *)
(* What runs between two answers is one burst (Quiet).  A credential is    *)
(* named by the endpoint it was printed for, a layout by the save that     *)
(* made it.  Loads and saves are numbered in the order they are asked for. *)
(***************************************************************************)
EXTENDS Naturals

CONSTANTS
    Endpoints,      \* the inspectors a link may name
    Mismatched,     \* those whose library version has to be acknowledged
    File,           \* the graph file
    None,
    MaxLoads, MaxSaves, MaxMoves    \* bounds of a run

ASSUME StoreAssumption ==
    /\ Mismatched \subseteq Endpoints /\ File \notin Endpoints /\ None \notin Endpoints \cup {File}
    /\ {MaxLoads, MaxSaves, MaxMoves} \subseteq Nat
    /\ None \notin Nat \cup [e : Endpoints, t : Endpoints \cup {None}]

Loads == 1..MaxLoads
Saves == 1..MaxSaves
Kinds == {"info", "legacy", "json"}     \* the useFetch of each kind

VARIABLES
    endpoint, token,    \* endpoint and accessToken
    file, expired,      \* a graph file is open; one too large has to be asked for again
    session, fileSession, \* what the tab's storage keeps of them
    data, err, cur,     \* of each useFetch: its data, its error, the request in flight
    pc, page,           \* where each load is, and the load of the page on screen
    asked, acked, waiter, \* the version prompt, its answer, its resolver
    requiresToken, isLoading,
    layout, dirty, saving, missing, \* layoutData, isLayoutDirty, ...
    latest, tail,       \* the save whose number is layoutSaveSequence; the end of the chain
    spc, at, prev, to,  \* saves: where each is, the graph it is for, what it is
                        \* chained to, the endpoint it was sent to
    lreq,               \* for a load: the endpoint whose layout it asked for
    server,             \* the layout each application keeps
    cached, stored,     \* the layouts the tab keeps: in memory, and in storage
    moves

sourceVars == <<endpoint, token, file, expired, session, fileSession>>
fetchVars  == <<data, err, cur>>
loadVars   == <<pc, page, lreq, isLoading>>
ackVars    == <<asked, acked, waiter>>
shownVars  == <<layout, dirty, saving, missing>>
saveVars   == <<latest, tail, spc, at, prev, to>>
keptVars   == <<server, cached, stored>>
vars == <<sourceVars, fetchVars, loadVars, ackVars, requiresToken, shownVars, saveVars,
          keptVars, moves>>

Graphs  == Endpoints \cup {File}
Automatic == 0      \* the automatic layout: none is saved
Layouts == Saves \cup {Automatic}
Waiting == Kinds \cup {"ack", "layout"}
Ready   == {"infoRead", "legacyRead", "jsonRead", "acked", "refused"}
InFlight == {"posting", "landed"}
Ended   == {"saved", "failed", "skipped", "dead"}

SourceTypes ==
    /\ endpoint \in Endpoints \cup {None} /\ token \in Endpoints \cup {None}
    /\ file \in BOOLEAN /\ expired \in BOOLEAN
    /\ session \in [e : Endpoints, t : Endpoints \cup {None}] \cup {None}
    /\ fileSession \in {"none", "name", "graph"}

LoadTypes ==
    /\ data \in [Kinds -> Endpoints \cup {None}]
    /\ err \in [Kinds -> {"none", "401", "failed"}]
    /\ cur \in [Kinds -> Endpoints \cup {None}]
    /\ pc \in [Loads -> {"idle", "done"} \cup Waiting \cup Ready] /\ page \in Loads \cup {None}
    /\ asked \in BOOLEAN /\ acked \in Endpoints \cup {None} /\ waiter \in Loads \cup {None}
    /\ requiresToken \in BOOLEAN /\ isLoading \in BOOLEAN
    /\ lreq \in [Loads -> Endpoints \cup {None}]

SaveTypes ==
    /\ layout \in Layouts /\ dirty \in BOOLEAN /\ saving \in BOOLEAN /\ missing \in BOOLEAN
    /\ latest \in Saves \cup {None} /\ tail \in Saves \cup {None}
    /\ spc \in [Saves -> {"idle", "queued"} \cup InFlight \cup Ended]
    /\ at \in [Saves -> Graphs \cup {None}]
    /\ prev \in [Saves -> Saves \cup {None}]
    /\ to \in [Saves -> Endpoints \cup {None}]
    /\ server \in [Endpoints -> Layouts]
    /\ cached \in [Graphs -> Layouts] /\ stored \in [Graphs -> Layouts]
    /\ moves \in 0..MaxMoves

TypeOK == SourceTypes /\ LoadTypes /\ SaveTypes

Init ==
    /\ endpoint = None /\ token = None /\ file = FALSE /\ expired = FALSE
    /\ session = None /\ fileSession = "none"
    /\ data = [k \in Kinds |-> None] /\ err = [k \in Kinds |-> "none"]
    /\ cur = [k \in Kinds |-> None]
    /\ pc = [l \in Loads |-> "idle"] /\ page = None
    /\ asked = FALSE /\ acked = None /\ waiter = None
    /\ requiresToken = FALSE /\ isLoading = FALSE
    /\ layout = Automatic /\ dirty = FALSE /\ saving = FALSE /\ missing = FALSE
    /\ latest = None /\ tail = None
    /\ spc = [s \in Saves |-> "idle"] /\ at = [s \in Saves |-> None]
    /\ prev = [s \in Saves |-> None] /\ to = [s \in Saves |-> None]
    /\ lreq = [l \in Loads |-> None]
    /\ server = [e \in Endpoints |-> Automatic]
    /\ cached = [g \in Graphs |-> Automatic] /\ stored = [g \in Graphs |-> Automatic]
    /\ moves = 0

-----------------------------------------------------------------------------
(* graphKey                                                                *)
Key == IF file THEN File ELSE endpoint

(* layoutPersistence: a file's layout, and that of a library without layout*)
(* routes, is kept by the tab.                                             *)
KeptInTab == file \/ missing

(* Mutant: without the catch, a failed save stops the chain.               *)
SaveReadyIfSaved(s) == spc[s] = "queued" /\ (prev[s] # None => spc[prev[s]] \in {"saved", "skipped"})

(* The chain goes on when the save before has ended, whichever way.        *)
SaveReady(s) == spc[s] = "queued" /\ (prev[s] # None => spc[prev[s]] \in Ended)

(* No continuation is left to run: the next event is taken.                *)
Quiet == /\ \A l \in Loads : pc[l] \notin Ready
         /\ \A s \in Saves : ~SaveReady(s)

Move == Quiet /\ moves < MaxMoves /\ moves' = moves + 1

(* The canvas is on screen: neither the loading nor the error state is.    *)
Shown ==
    /\ ~isLoading /\ ~requiresToken
    /\ \/ file
       \/ /\ page # None /\ pc[page] = "done"
          /\ data["info"] # None /\ data["json"] # None

(* Mutant: whoever waits for the prompt is let through.                    *)
ClearGraphReleasing ==
    /\ data' = [k \in Kinds |-> None] /\ err' = [k \in Kinds |-> "none"]
    /\ cur' = [k \in Kinds |-> None]
    /\ pc' = [l \in Loads |-> IF l = waiter THEN "acked" ELSE pc[l]]
    /\ asked' = FALSE /\ acked' = None /\ waiter' = None
    /\ requiresToken' = FALSE
    /\ dirty' = FALSE /\ saving' = FALSE /\ missing' = FALSE
    /\ latest' = None

(* clearGraph and clearLayout.  Requests in flight are forgotten: useFetch *)
(* drops their answers.  Whoever waits for the prompt is told no.          *)
ClearGraph ==
    /\ data' = [k \in Kinds |-> None] /\ err' = [k \in Kinds |-> "none"]
    /\ cur' = [k \in Kinds |-> None]
    /\ pc' = [l \in Loads |-> IF l = waiter THEN "refused" ELSE pc[l]]
    /\ asked' = FALSE /\ acked' = None /\ waiter' = None
    /\ requiresToken' = FALSE
    /\ dirty' = FALSE /\ saving' = FALSE /\ missing' = FALSE
    /\ latest' = None

(* Mutant: the refused credential stays in the tab's storage.              *)
DiscardTokenInMemory ==
    /\ requiresToken' = TRUE
    /\ token' = None
    /\ session' = session

(* discardRejectedAccessToken                                              *)
DiscardToken ==
    /\ requiresToken' = TRUE
    /\ token' = None
    /\ session' = IF token = None THEN session ELSE [e |-> endpoint, t |-> None]

-----------------------------------------------------------------------------
(* setSession, by a printed link: applyEndpoint.                           *)
SetSession(e, t) ==
    /\ Move
    /\ IF file \/ endpoint # e
          THEN ClearGraph /\ layout' = Automatic
          ELSE UNCHANGED <<fetchVars, pc, ackVars, requiresToken, shownVars, latest>>
    /\ endpoint' = e /\ token' = t /\ file' = FALSE /\ expired' = FALSE
    /\ session' = [e |-> e, t |-> t] /\ fileSession' = "none"
    /\ UNCHANGED <<page, lreq, isLoading, tail, spc, at, prev, to, keptVars>>

(* openGraphFile: a graph too large for the tab's storage leaves its name. *)
OpenGraphFile(fits) ==
    /\ Move
    /\ ClearGraph /\ layout' = cached[File]
    /\ endpoint' = None /\ token' = None /\ file' = TRUE /\ expired' = FALSE
    /\ session' = (IF endpoint = None THEN session ELSE None)
    /\ fileSession' = (IF fits THEN "graph" ELSE "name")
    /\ UNCHANGED <<page, lreq, isLoading, tail, spc, at, prev, to, keptVars>>

(* closeGraphFile                                                          *)
CloseGraphFile ==
    /\ Move /\ file
    /\ ClearGraph /\ layout' = Automatic
    /\ file' = FALSE /\ expired' = FALSE /\ fileSession' = "none"
    /\ UNCHANGED <<endpoint, token, session, page, lreq, isLoading, tail, spc, at, prev, to,
                   keptVars>>

(* A reload: what is in memory goes, and restoreGraphSource brings back    *)
(* what storage holds.  A save under way may have reached the application. *)
Reload(lands) ==
    /\ Move
    /\ endpoint' = (IF session # None THEN session.e ELSE None)
    /\ token' = (IF session # None THEN session.t ELSE None)
    /\ file' = (session = None /\ fileSession = "graph")
    /\ expired' = (session = None /\ fileSession = "name")
    /\ fileSession' = (IF file' THEN "graph" ELSE "none")
    /\ data' = [k \in Kinds |-> None] /\ err' = [k \in Kinds |-> "none"]
    /\ cur' = [k \in Kinds |-> None]
    /\ pc' = [l \in Loads |-> IF pc[l] = "idle" THEN "idle" ELSE "done"] /\ page' = None
    /\ asked' = FALSE /\ acked' = None /\ waiter' = None
    /\ requiresToken' = FALSE /\ isLoading' = FALSE
    /\ layout' = (IF file' THEN stored[File] ELSE Automatic)
    /\ dirty' = FALSE /\ saving' = FALSE /\ missing' = FALSE
    /\ latest' = None /\ tail' = None
    /\ spc' = [s \in Saves |-> IF spc[s] \in {"queued"} \cup InFlight THEN "dead" ELSE spc[s]]
    /\ server' = [e \in Endpoints |->
                    IF lands /\ \E s \in Saves : spc[s] = "posting" /\ to[s] = e
                    THEN CHOOSE s \in Saves : spc[s] = "posting" /\ to[s] = e
                    ELSE server[e]]
    /\ cached' = stored
    /\ UNCHANGED <<session, lreq, at, prev, to, stored>>

-----------------------------------------------------------------------------
(* useFetch, execute: a newer request takes the place of the one in flight.*)
Execute(l, k) ==
    /\ cur' = [cur EXCEPT ![k] = endpoint]
    /\ pc' = [pc EXCEPT ![l] = k]

(* fetchGraph, as far as the first request of validateEndpoint.            *)
BeginLoad(l) ==
    /\ Quiet /\ endpoint # None
    /\ pc[l] = "idle" /\ \A m \in Loads : m < l => pc[m] # "idle"
    /\ isLoading' = TRUE /\ requiresToken' = FALSE
    /\ Execute(l, "info")
    /\ UNCHANGED <<endpoint, token, file, data, err, lreq, ackVars, layout, dirty, saving,
                   missing, saveVars, keptVars, moves>>

(* A viewer page is mounted: setEndpoint with the endpoint in memory.      *)
MountPage(l) ==
    /\ BeginLoad(l) /\ page' = l
    /\ session' = [e |-> endpoint, t |-> token]
    /\ expired' = FALSE /\ fileSession' = "none"

(* The reload button of the header, disabled while a load is in flight.    *)
Refresh(l) ==
    /\ page # None /\ ~isLoading /\ BeginLoad(l)
    /\ UNCHANGED <<page, expired, session, fileSession>>

ReadOf(k) == CASE k = "info" -> "infoRead" [] k = "legacy" -> "legacyRead" [] k = "json" -> "jsonRead"

(* The request in flight is answered: every load that waits for this kind  *)
(* reads the same answer, whoever asked.                                   *)
Answer(k, a) ==
    /\ Quiet /\ cur[k] # None
    /\ data' = [data EXCEPT ![k] = IF a = "none" THEN cur[k] ELSE None]
    /\ err' = [err EXCEPT ![k] = a]
    /\ cur' = [cur EXCEPT ![k] = None]
    /\ pc' = [l \in Loads |-> IF pc[l] = k THEN ReadOf(k) ELSE pc[l]]
    /\ UNCHANGED <<sourceVars, page, lreq, isLoading, ackVars, requiresToken, shownVars, saveVars,
                   keptVars, moves>>

(* A load whose request was forgotten goes on with what is there.          *)
Forgotten(l) ==
    /\ Quiet /\ pc[l] \in Kinds /\ cur[pc[l]] = None
    /\ pc' = [pc EXCEPT ![l] = ReadOf(pc[l])]
    /\ UNCHANGED <<sourceVars, fetchVars, page, lreq, isLoading, ackVars, requiresToken, shownVars,
                   saveVars, keptVars, moves>>

EndLoad(l) == pc' = [pc EXCEPT ![l] = "done"] /\ isLoading' = FALSE
Rest == <<endpoint, file, expired, fileSession, page, saveVars, keptVars, moves>>

(* validateEndpoint has its answer: an inspector, a refusal, or something  *)
(* else, which may be an older library.                                    *)
InspectorAnswered(l) ==
    /\ pc[l] = "infoRead" /\ data["info"] # None
    /\ IF data["info"] \notin Mismatched \/ acked = endpoint
          THEN Execute(l, "json") /\ UNCHANGED <<asked, waiter>>
          ELSE /\ pc' = [pc EXCEPT ![l] = "ack"] /\ asked' = TRUE /\ waiter' = l
               /\ UNCHANGED cur
    /\ UNCHANGED <<Rest, token, session, data, err, lreq, isLoading, acked, requiresToken, shownVars>>

InspectorRefused(l) ==
    /\ pc[l] = "infoRead" /\ data["info"] = None /\ err["info"] = "401"
    /\ DiscardToken /\ EndLoad(l)
    /\ UNCHANGED <<Rest, fetchVars, lreq, ackVars, shownVars>>

InspectorMissing(l) ==
    /\ pc[l] = "infoRead" /\ data["info"] = None /\ err["info"] # "401"
    /\ Execute(l, "legacy")
    /\ UNCHANGED <<Rest, token, session, data, err, lreq, isLoading, ackVars, requiresToken, shownVars>>

LegacyAnswered(l) ==
    /\ pc[l] \in {"legacyRead", "refused"} /\ EndLoad(l)
    /\ UNCHANGED <<Rest, token, session, fetchVars, lreq, ackVars, requiresToken, shownVars>>

(* acknowledgeEndpointVersion: Continue in the prompt.                     *)
Acknowledge ==
    /\ Quiet /\ asked /\ asked' = FALSE /\ acked' = endpoint /\ waiter' = None
    /\ pc' = [l \in Loads |-> IF l = waiter THEN "acked" ELSE pc[l]]
    /\ UNCHANGED <<Rest, token, session, fetchVars, lreq, isLoading, requiresToken, shownVars>>

Acknowledged(l) ==
    /\ pc[l] = "acked" /\ Execute(l, "json")
    /\ UNCHANGED <<Rest, token, session, data, err, lreq, isLoading, ackVars, requiresToken, shownVars>>

(* fetchJson has its answer: the layout is fetched, or read from the tab.  *)
GraphAnswered(l) ==
    /\ pc[l] = "jsonRead" /\ data["json"] # None
    /\ dirty' = FALSE
    /\ IF KeptInTab
          THEN layout' = cached[Key]
               /\ EndLoad(l) /\ UNCHANGED lreq
          ELSE /\ lreq' = [lreq EXCEPT ![l] = endpoint]
               /\ pc' = [pc EXCEPT ![l] = "layout"] /\ UNCHANGED <<layout, isLoading>>
    /\ UNCHANGED <<Rest, token, session, fetchVars, ackVars, requiresToken, saving, missing>>

GraphFailed(l) ==
    /\ pc[l] = "jsonRead" /\ data["json"] = None
    /\ IF err["json"] = "401" THEN DiscardToken ELSE UNCHANGED <<token, session, requiresToken>>
    /\ EndLoad(l)
    /\ UNCHANGED <<Rest, fetchVars, lreq, ackVars, shownVars>>

(* Mutant: the answer is not checked against the endpoint it is for.       *)
LayoutAnsweredUnchecked(l, a) ==
    /\ Quiet /\ pc[l] = "layout" /\ EndLoad(l)
    /\ layout' = CASE a = "none" -> server[lreq[l]]
                   [] a = "404" -> cached[lreq[l]]
                   [] OTHER -> Automatic
    /\ missing' = (missing \/ a = "404")
    /\ IF a = "401" THEN DiscardToken ELSE UNCHANGED <<token, session, requiresToken>>
    /\ UNCHANGED <<Rest, fetchVars, lreq, ackVars, dirty, saving>>

(* fetchLayout has its answer.  One for an endpoint that was left is       *)
(* dropped; a 404 comes from a library without layout routes.              *)
LayoutAnswered(l, a) ==
    /\ Quiet /\ pc[l] = "layout" /\ EndLoad(l)
    /\ IF endpoint # lreq[l]
          THEN UNCHANGED <<token, session, requiresToken, layout, missing>>
          ELSE /\ layout' = CASE a = "none" -> server[endpoint]
                              [] a = "404" -> cached[endpoint]
                              [] OTHER -> Automatic
               /\ missing' = (missing \/ a = "404")
               /\ IF a = "401" THEN DiscardToken ELSE UNCHANGED <<token, session, requiresToken>>
    /\ UNCHANGED <<Rest, fetchVars, lreq, ackVars, dirty, saving>>

-----------------------------------------------------------------------------
LoadsRest == <<sourceVars, fetchVars, loadVars, ackVars, requiresToken>>

(* markLayoutDirty: the visitor moves something on the canvas.             *)
Drag ==
    /\ Quiet /\ Shown /\ dirty' = TRUE
    /\ UNCHANGED <<LoadsRest, layout, saving, missing, saveVars, keptVars, moves>>

(* Mutant: the save is chained to nothing.                                 *)
SaveLayoutUnchained(s) ==
    /\ Quiet /\ Shown /\ ~saving
    /\ spc[s] = "idle" /\ \A r \in Saves : r < s => spc[r] # "idle"
    /\ layout' = s /\ dirty' = TRUE
    /\ latest' = s /\ tail' = s
    /\ spc' = [spc EXCEPT ![s] = "queued"]
    /\ at' = [at EXCEPT ![s] = Key] /\ prev' = [prev EXCEPT ![s] = None]
    /\ UNCHANGED <<LoadsRest, saving, missing, to, keptVars, moves>>

(* saveLayout: the save is chained to the one before.  Its button is       *)
(* disabled while isLayoutSaving.                                          *)
SaveLayout(s) ==
    /\ Quiet /\ Shown /\ ~saving
    /\ spc[s] = "idle" /\ \A r \in Saves : r < s => spc[r] # "idle"
    /\ layout' = s /\ dirty' = TRUE
    /\ latest' = s /\ tail' = s
    /\ spc' = [spc EXCEPT ![s] = "queued"]
    /\ at' = [at EXCEPT ![s] = Key] /\ prev' = [prev EXCEPT ![s] = tail]
    /\ UNCHANGED <<LoadsRest, saving, missing, to, keptVars, moves>>

(* A save superseded before it started is skipped.                         *)
SkipSave(s) ==
    /\ SaveReady(s) /\ s # latest
    /\ spc' = [spc EXCEPT ![s] = "skipped"]
    /\ UNCHANGED <<LoadsRest, shownVars, latest, tail, at, prev, to, keptVars, moves>>

(* Mutant: the sequence is not checked when the save's turn comes.         *)
PostLayoutUnchecked(s) ==
    /\ SaveReady(s) /\ endpoint # None /\ ~KeptInTab
    /\ spc' = [spc EXCEPT ![s] = "posting"] /\ to' = [to EXCEPT ![s] = endpoint]
    /\ saving' = TRUE
    /\ UNCHANGED <<LoadsRest, layout, dirty, missing, latest, tail, at, prev, keptVars, moves>>

(* persistLayout                                                           *)
PostLayout(s) ==
    /\ SaveReady(s) /\ s = latest /\ ~KeptInTab
    /\ spc' = [spc EXCEPT ![s] = "posting"] /\ to' = [to EXCEPT ![s] = endpoint]
    /\ saving' = TRUE
    /\ UNCHANGED <<LoadsRest, layout, dirty, missing, latest, tail, at, prev, keptVars, moves>>

KeepLayout(s, fits) ==
    /\ SaveReady(s) /\ s = latest /\ KeptInTab
    /\ spc' = [spc EXCEPT ![s] = IF fits THEN "saved" ELSE "failed"]
    /\ cached' = [cached EXCEPT ![at[s]] = s]
    /\ stored' = (IF fits THEN [stored EXCEPT ![at[s]] = s] ELSE stored)
    /\ dirty' = (dirty /\ ~fits) /\ saving' = FALSE
    /\ UNCHANGED <<LoadsRest, layout, missing, latest, tail, at, prev, to, server, moves>>

(* The application takes the layout.                                       *)
PostLands(s) ==
    /\ Quiet /\ spc[s] = "posting"
    /\ spc' = [spc EXCEPT ![s] = "landed"] /\ server' = [server EXCEPT ![to[s]] = s]
    /\ UNCHANGED <<LoadsRest, shownVars, latest, tail, at, prev, to, cached, stored, moves>>

IsCurrent(s) == s = latest /\ Key = at[s]

PostAnswered(s) ==
    /\ Quiet /\ spc[s] = "landed"
    /\ spc' = [spc EXCEPT ![s] = "saved"]
    /\ IF IsCurrent(s) THEN dirty' = FALSE /\ saving' = FALSE ELSE UNCHANGED <<dirty, saving>>
    /\ UNCHANGED <<LoadsRest, layout, missing, latest, tail, at, prev, to, keptVars, moves>>

(* The request fails, or its answer is lost.                               *)
PostFails(s, a) ==
    /\ Quiet /\ (spc[s] = "posting" \/ (spc[s] = "landed" /\ a = "failed"))
    /\ spc' = [spc EXCEPT ![s] = "failed"]
    /\ IF a = "401" THEN DiscardToken ELSE UNCHANGED <<token, session, requiresToken>>
    /\ saving' = (saving /\ ~IsCurrent(s))
    /\ UNCHANGED <<endpoint, file, expired, fileSession, fetchVars, loadVars, ackVars, layout,
                   dirty, missing, latest, tail, at, prev, to, keptVars, moves>>

-----------------------------------------------------------------------------
Failures == {"401", "failed"}
LoadSteps(l) ==
    \/ Forgotten(l) \/ InspectorAnswered(l) \/ InspectorRefused(l) \/ InspectorMissing(l)
    \/ LegacyAnswered(l) \/ Acknowledged(l) \/ GraphAnswered(l) \/ GraphFailed(l)
SaveSteps(s) ==
    \/ SkipSave(s) \/ PostLayout(s) \/ \E fits \in BOOLEAN : KeepLayout(s, fits)
    \/ PostLands(s) \/ PostAnswered(s) \/ \E a \in Failures : PostFails(s, a)

Next ==
    \/ \E e \in Endpoints : \E t \in {e, None} : SetSession(e, t)
    \/ \E fits \in BOOLEAN : OpenGraphFile(fits)
    \/ CloseGraphFile \/ \E lands \in BOOLEAN : Reload(lands)
    \/ \E l \in Loads : MountPage(l) \/ Refresh(l) \/ LoadSteps(l)
    \/ \E l \in Loads, a \in {"none", "404"} \cup Failures : LayoutAnswered(l, a)
    \/ \E k \in Kinds, a \in {"none"} \cup Failures : Answer(k, a)
    \/ Acknowledge \/ Drag
    \/ \E s \in Saves : SaveLayout(s) \/ SaveSteps(s)

Spec == Init /\ [][Next]_vars

(* The browser ends every request, one way or the other, and runs every    *)
(* continuation.  The visitor owes nothing.                                *)
Fairness == /\ \A l \in Loads : WF_vars(LoadSteps(l))
            /\ \A s \in Saves : WF_vars(SaveSteps(s))
FairSpec == Spec /\ Fairness

-----------------------------------------------------------------------------
(* What is drawn belongs to the graph the tab is on: no answer to a load,  *)
(* and no layout, outlives a switch to another endpoint or file.           *)
DrawnIsCurrent ==
    /\ data["json"] \in {None, endpoint}
    /\ layout # Automatic => at[layout] = Key

(* The graph of a library version that has to be acknowledged is loaded    *)
(* only once it was, for this endpoint, whichever loads overlap.           *)
UnacknowledgedNeverLoaded ==
    data["json"] \in Mismatched => acked = data["json"]

(* "What makes a reload survivable": storage holds the graph the tab is on *)
(* and the credential still in use, never one given up or refused.         *)
ReloadKeepsGraph ==
    [][\A lands \in BOOLEAN : Reload(lands) =>
          /\ endpoint' = endpoint /\ token' = token
          /\ file => file' \/ expired']_vars

(* A layout is sent to the application whose graph it arranges, although   *)
(* the address is read only when the save's turn comes.                    *)
SavesGoHome == \A s \in Saves : to[s] \in {None, at[s]}

(* "Saves run one at a time, in order": a save reported as done is what    *)
(* its graph's keeper holds, until a later save of that graph is sent.     *)
SavedStands ==
    \A s \in Saves :
        LET g == at[s]
            later == {r \in Saves : r > s /\ at[r] = g /\ spc[r] \notin {"queued", "skipped"}}
        IN spc[s] = "saved" /\ later = {} =>
              s = stored[g] \/ (g \in Endpoints /\ s = server[g])

(* A save that fails does not hold up the saves chained behind it.         *)
EverySaveEnds == \A s \in Saves : spc[s] = "queued" ~> spc[s] \in Ended

(* clearLayout: "A save still in flight belongs to the previous graph";    *)
(* it is made to "drop its result instead of reporting it here".           *)
LeftSaveDropsItsResult ==
    [][\A s \in Saves : spc[s] \in InFlight /\ spc'[s] \in {"saved", "failed"} /\ Key # at[s] =>
          UNCHANGED <<token, session, requiresToken, dirty, saving>>]_vars

(* What is drawn is of the current graph, and of one that may be loaded.   *)
DrawnIsWanted == TypeOK /\ DrawnIsCurrent /\ UnacknowledgedNeverLoaded

(* Each save goes to its own graph's keeper, stands there once it is       *)
(* reported, and ends whatever becomes of the saves before it.             *)
SavesLand == [](SavesGoHome /\ SavedStands) /\ EverySaveEnds
=============================================================================
