----------------------------- MODULE ViewerPages -----------------------------
(***************************************************************************)
(* The pages under /view and who takes the tab's graph over: the landing   *)
(* card (site/app/pages/view/index.vue), the bootstrap middleware, the     *)
(* session check of a viewer page and the graph-file opener, over the demo *)
(* of DemoPod.  A visit is one mounted instance of the landing page; what  *)
(* it awaits goes on after the visitor has left it.                        *)
(*                                                                         *)
(* Request counters are abstracted to whether the request still counts: a  *)
(* visit holds at most one demo request and one example load that do.      *)
(***************************************************************************)
EXTENDS DemoPod

CONSTANTS
    MaxVisits,  \* bound on the visits of /view
    MaxMoves    \* bound on what the visitor does

ASSUME PagesAssumption == MaxVisits \in Nat \ {0} /\ MaxMoves \in Nat

Visits == 1..MaxVisits

VARIABLES
    page,       \* where the visitor is: "away", "landing", "viewer"
    visit,      \* the last visit of /view, 0 before the first
    tab,        \* the graph the tab is on, and the pod its token is of
    refused,    \* endpointRequiresAccessToken: the pod that refused, 0 for none
    expired,    \* the pods that have stopped accepting their token
    view,       \* what the viewer page is doing
    viewP,      \* the promise its session check awaits
    card,       \* the landing card of each visit
    openedOn,   \* the visit the tab's file was opened on, 0 for none
    moves       \* how often the visitor has acted

pages == <<page, visit, tab, refused, expired, view, viewP, card, openedOn>>
vars  == <<demoVars, pages, moves>>

Nothing == MaxRuns + 2     \* no promise is awaited
Own     == MaxRuns + 3     \* the token of the visitor's own application

Cards == [waits   : 0..Nothing,  \* the promise its demo request awaits
          asked   : BOOLEAN,     \* wasDemoRequested
          auto    : BOOLEAN,     \* isAutoOpening
          nav     : BOOLEAN,     \* isNavigating
          polling : BOOLEAN,     \* pollingTimer
          probe   : {"none", "counts", "retired"},
          example : BOOLEAN]     \* an example load that still counts

TypeOK ==
    /\ DemoTypeOK
    /\ page \in {"away", "landing", "viewer"} /\ visit \in Visits \cup {0}
    /\ tab \in [source : {"none", "example", "file", "demo", "application"},
                token : Runs \cup {0, Own}]
    /\ refused \in Runs \cup {0, Own} /\ expired \subseteq Runs
    /\ view \in {"idle", "joining", "loading", "shown", "failed"}
    /\ viewP \in 0..Nothing /\ card \in [Visits -> Cards]
    /\ openedOn \in Visits \cup {0} /\ moves \in 0..MaxMoves

Tab(source, token) == [source |-> source, token |-> token]
NoTab == Tab("none", 0)
Blank == [waits |-> Nothing, asked |-> FALSE, auto |-> FALSE, nav |-> FALSE,
          polling |-> FALSE, probe |-> "none", example |-> FALSE]

(* The tab may hold a session an earlier document left.                    *)
Init ==
    /\ DemoInit
    /\ page = "away" /\ visit = 0 /\ refused = 0 /\ expired = {}
    /\ tab \in {NoTab, Tab("demo", 0), Tab("application", Own)}
    /\ view = "idle" /\ viewP = Nothing
    /\ card = [v \in Visits |-> Blank] /\ openedOn = 0 /\ moves = 0

File(t)  == t.source \in {"file", "example"}
IsActive == IsRunning \/ IsBusy

(* liveDemoTakesOver *)
TakenOver(t) == IsActive /\ t.source \in {"none", "example", "demo"}

-----------------------------------------------------------------------------
(* What a card becomes.  Retiring a poll leaves its probe to come back.    *)
RetirePoll(c) == [c EXCEPT !.polling = FALSE, !.probe = IF @ = "none" THEN @ ELSE "retired"]

(* onBeforeUnmount: the poll is retired, and nothing else.                 *)
Left(cards) == IF page = "landing" THEN [cards EXCEPT ![visit] = RetirePoll(@)] ELSE cards

(* startPolling, the tab being on t.                                       *)
Polling(c, t) ==
    IF File(t) THEN c
    ELSE [c EXCEPT !.nav = FALSE, !.polling = TRUE,
                   !.probe = IF @ = "none" THEN "counts" ELSE "retired"]

(* resolveViewerLandingAction *)
LandingAction(t, query) ==
    CASE query = "preview" -> IF IsActive THEN "join-demo" ELSE "open-example"
      [] query = "autoload=false" -> "manual"
      [] OTHER -> IF TakenOver(t) THEN "join-demo"
                  ELSE IF File(t) \/ (t.source = "application" /\ t.token # 0)
                  THEN "open-session" ELSE "manual"

(* Opening: what openOnArrival makes of the card of a fresh visit.         *)
Opening(action, t) ==
    CASE action = "join-demo" -> [Blank EXCEPT !.auto = TRUE, !.asked = TRUE, !.waits = JoinGives]
      [] action = "open-example" -> [Blank EXCEPT !.auto = TRUE, !.nav = TRUE, !.example = TRUE]
      [] OTHER -> Polling(Blank, t)

GoTo(p, cards) == page' = p /\ card' = Left(cards) /\ UNCHANGED visit

(* The visitor reaches /view with the tab on t, and cards the cards so far. *)
Land(t, action, cards) ==
    /\ tab' = t
    /\ IF action = "open-session"
       THEN GoTo("viewer", cards) /\ view' = IF File(t) THEN "shown" ELSE "loading"
       ELSE /\ visit < MaxVisits /\ visit' = visit + 1
            /\ page' = "landing" /\ view' = "idle"
            /\ card' = [Left(cards) EXCEPT ![visit + 1] = Opening(action, t)]

(* resolveDemoSessionAction *)
SessionAction(t, ref) ==
    CASE t.source # "demo" -> "pass-through"
      [] t.source = "demo" /\ IsBusy -> "join"
      [] t.source = "demo" /\ ~IsActive -> "release"
      [] OTHER -> IF ref # 0 THEN "stop" ELSE "reuse"

(* loadGraphResources with ensureEndpoint: the page of a viewer mounts, or *)
(* is refreshed, with the tab on t.                                        *)
LoadPage(t, ref, cards) ==
    LET action == SessionAction(t, ref)
    IN  \/ /\ File(t) /\ GoTo("viewer", cards)
           /\ tab' = t /\ view' = "shown" /\ refused' = ref
           /\ UNCHANGED <<demoVars, viewP>>
        \/ /\ ~File(t) /\ action \in {"pass-through", "reuse"}
           /\ GoTo("viewer", cards) /\ view' = "loading" /\ refused' = 0
           /\ tab' = IF action = "reuse" THEN Tab("demo", endpoint) ELSE t
           /\ UNCHANGED <<demoVars, viewP>>
        \/ /\ ~File(t) /\ action = "join"
           /\ GoTo("viewer", cards) /\ view' = "joining" /\ refused' = 0
           /\ tab' = NoTab /\ viewP' = JoinGives
           /\ UNCHANGED demoVars
        \/ /\ ~File(t) /\ action = "release"
           /\ Land(NoTab, "manual", cards) /\ refused' = 0
           /\ UNCHANGED <<demoVars, viewP>>
        \/ /\ ~File(t) /\ action = "stop" /\ Stop
           /\ Land(NoTab, "manual", cards) /\ refused' = 0
           /\ UNCHANGED viewP

(* The bootstrap middleware on the way to a viewer page, then the page.    *)
EnterViewer(t, ref, cards) ==
    IF TakenOver(t) /\ t.source # "demo" /\ IsRunning
    THEN LoadPage(Tab("demo", endpoint), 0, cards)
    ELSE IF \/ TakenOver(t) /\ t.source # "demo"
            \/ t.source = "none" \/ (t.source = "application" /\ t.token = 0)
    THEN /\ Land(t, LandingAction(t, "none"), cards) /\ refused' = ref
         /\ UNCHANGED <<demoVars, viewP>>
    ELSE LoadPage(t, ref, cards)

-----------------------------------------------------------------------------
(* The visitor moves.                                                      *)
Queries == {"none", "preview", "autoload=false"}

OpenLanding(query) ==
    /\ page # "landing"
    /\ Land(tab, LandingAction(tab, query), card)
    /\ refused' = IF page' = "viewer" THEN 0 ELSE refused
    /\ UNCHANGED <<demoVars, expired, viewP, openedOn>>

OpenViewer ==
    /\ page = "away" /\ EnterViewer(tab, refused, card)
    /\ UNCHANGED <<expired, openedOn>>

Refresh ==
    /\ page = "viewer" /\ view \in {"shown", "failed"} /\ tab.source # "none"
    /\ LoadPage(tab, refused, card)
    /\ UNCHANGED <<expired, openedOn>>

GoAway ==
    /\ page # "away" /\ GoTo("away", card) /\ view' = "idle"
    /\ UNCHANGED <<demoVars, tab, refused, expired, viewP, openedOn>>

(* A new document in the same tab: the pod dies with the old one, and the  *)
(* session storage brings the tab's graph back.                            *)
Reload ==
    /\ page # "away" /\ Interruptible
    /\ status' = "idle" /\ owner' = 0 /\ startP' = 0
    /\ at' = [r \in Runs |-> IF at[r] = "unused" THEN "unused" ELSE "lost"]
    /\ pod' = 0 /\ live' = {} /\ fetchIs' = 0 /\ processes' = {} /\ printed' = {}
    /\ exited' = FALSE /\ endpoint' = 0 /\ graphP' = 0 /\ graph' = 0
    /\ read' = [i \in Reads |-> IF read[i] = "unused" THEN "unused" ELSE "done"]
    /\ UNCHANGED <<under, readP, tab, expired, visit>>
    /\ page' = "away" /\ view' = "idle" /\ viewP' = Nothing /\ refused' = 0
    /\ card' = [v \in Visits |-> Blank] /\ openedOn' = 0

(* setEndpoint answers: the graph, a refused token, or nothing.            *)
GraphLoads ==
    /\ page = "viewer" /\ view = "loading"
    /\ \/ /\ tab.source = "demo" => fetchIs = tab.token /\ tab.token \notin expired \cup {0}
          /\ view' = "shown" /\ UNCHANGED <<tab, refused>>
       \/ /\ view' = "failed" /\ tab' = [tab EXCEPT !.token = 0]
          /\ \/ tab.source = "demo" /\ fetchIs \in expired /\ refused' = fetchIs
             \/ tab.source # "demo" /\ refused' = Own
       \/ view' = "failed" /\ UNCHANGED <<tab, refused>>
    /\ UNCHANGED <<demoVars, page, visit, expired, viewP, card, openedOn>>

(* Mutant: a demo that never came up leaves the page waiting.               *)
JoinEndsQuietly ==
    /\ viewP # Nothing /\ Settled(viewP) /\ viewP' = Nothing
    /\ IF Won(viewP)
       THEN /\ tab' = Tab("demo", endpoint) /\ refused' = 0
            /\ view' = IF page = "viewer" THEN "loading" ELSE view
            /\ UNCHANGED <<page, visit, card>>
       ELSE UNCHANGED <<page, visit, card, tab, refused, view>>
    /\ UNCHANGED <<demoVars, expired, openedOn>>

(* A page's wait for the demo ends, wherever the visitor has gone since.   *)
JoinEnds ==
    /\ viewP # Nothing /\ Settled(viewP) /\ viewP' = Nothing
    /\ IF Won(viewP)
       THEN /\ tab' = Tab("demo", endpoint) /\ refused' = 0    \* and setEndpoint asks anew
            /\ view' = IF page = "viewer" THEN "loading" ELSE view
            /\ UNCHANGED <<page, visit, card>>
       ELSE Land(tab, LandingAction(tab, "none"), card) /\ UNCHANGED refused
    /\ UNCHANGED <<demoVars, expired, openedOn>>

Expire(r) ==
    /\ r = pod /\ r \notin expired /\ expired' = expired \cup {r}
    /\ UNCHANGED <<demoVars, page, visit, tab, refused, view, viewP, card, openedOn>>

-----------------------------------------------------------------------------
(* The landing card.                                                       *)
Card == card[visit]
SameVisitor == UNCHANGED <<page, visit, tab, refused, expired, view, viewP, openedOn>>

(* requestDemo('start'), which is the click on Load Example.               *)
LoadExample ==
    /\ page = "landing" /\ ~Card.nav /\ ~Card.auto /\ ~IsBusy
    /\ \E p \in Runs \cup {Yes} :
         /\ StartGives(p)
         /\ card' = [card EXCEPT ![visit] = [RetirePoll(@) EXCEPT !.asked = TRUE, !.waits = p]]
    /\ UNCHANGED readVars /\ SameVisitor

(* openDemo of visit v, cards being the cards so far: nothing when it is   *)
(* on its way already.  From a viewer page the same page may stay, with    *)
(* the graph moved under it.                                               *)
OpenDemo(v, cards) ==
    IF cards[v].nav
    THEN card' = cards /\ UNCHANGED <<demoVars, page, visit, tab, refused, view, viewP>>
    ELSE LET after == [cards EXCEPT ![v] = [RetirePoll(@) EXCEPT !.nav = TRUE]]
             ref == IF tab.source = "demo" THEN refused ELSE 0    \* the same address
         IN  \/ EnterViewer(Tab("demo", endpoint), ref, after)
             \/ /\ page = "viewer" /\ tab' = Tab("demo", endpoint) /\ view' = "failed"
                /\ card' = after /\ refused' = ref
                /\ UNCHANGED <<demoVars, page, visit, viewP>>

(* The demo a visit asked for has come up, or has not; the visit may have  *)
(* been left since.                                                        *)
DemoAnswers(v) ==
    LET p == card[v].waits
        cards == [card EXCEPT ![v].waits = Nothing]
    IN  /\ p # Nothing /\ Settled(p)
        /\ IF Won(p) THEN OpenDemo(v, cards)
           ELSE /\ card' = [cards EXCEPT ![v] = Polling([@ EXCEPT !.auto = FALSE], tab)]
                /\ UNCHANGED <<demoVars, page, visit, tab, refused, view, viewP>>
        /\ UNCHANGED <<expired, openedOn>>

(* The watch on the demo's status, which a retry brings up. *)
DemoComesUp ==
    /\ page = "landing" /\ Card.asked /\ ~Card.nav /\ IsRunning
    /\ OpenDemo(visit, card)
    /\ UNCHANGED <<expired, openedOn>>

CancelDemo ==
    /\ page = "landing" /\ Card.asked /\ IsBusy /\ Stop
    /\ card' = [card EXCEPT ![visit] =
                  Polling([@ EXCEPT !.waits = Nothing, !.asked = FALSE, !.auto = FALSE], tab)]
    /\ SameVisitor

(* Mutant: a file opened on the card leaves the demo it waits for alone.   *)
PreparedLessDemo(c) == [RetirePoll(c) EXCEPT !.example = FALSE]

(* prepareForGraphFile *)
Prepared(c) == [RetirePoll(c) EXCEPT !.waits = Nothing, !.asked = FALSE, !.example = FALSE]

(* A file the visitor chose has proved to be a graph. *)
OpenGraphFile ==
    /\ page \in {"landing", "viewer"}
    /\ tab' = Tab("file", 0) /\ refused' = 0
    /\ IF page = "landing" THEN GoTo("viewer", [card EXCEPT ![visit] = Prepared(@)])
       ELSE UNCHANGED <<page, visit, card>>
    /\ openedOn' = (IF page = "landing" THEN visit ELSE 0) /\ view' = "shown"
    /\ UNCHANGED <<demoVars, expired, viewP>>

CloseGraphFile ==
    /\ page = "viewer" /\ File(tab) /\ Land(NoTab, "manual", card)
    /\ refused' = 0 /\ openedOn' = 0
    /\ UNCHANGED <<demoVars, expired, viewP>>

(* openExampleOnArrival, once the static graph has loaded or failed.       *)
ExampleAnswers(v) ==
    LET cards == [card EXCEPT ![v].example = FALSE]
    IN  /\ card[v].example
        /\ \/ /\ tab' = Tab("example", 0) /\ refused' = 0 /\ view' = "shown"
              /\ GoTo("viewer", cards)
           \/ /\ card' = [cards EXCEPT ![v] = Polling([@ EXCEPT !.nav = FALSE, !.auto = FALSE], tab)]
              /\ UNCHANGED <<page, visit, tab, refused, view>>
        /\ UNCHANGED <<demoVars, expired, viewP, openedOn>>

(* tryLoadGraph: the timer's next probe, and a probe that comes back.      *)
Probe(v) ==
    /\ card[v].polling /\ card[v].probe = "none" /\ ~card[v].nav
    /\ card' = [card EXCEPT ![v].probe = "counts"]
    /\ UNCHANGED demoVars /\ SameVisitor

ProbeAnswered(v) ==
    /\ card[v].probe # "none"
    /\ \/ /\ card' = [card EXCEPT ![v].probe = "none"] /\ UNCHANGED <<tab, refused>>
       \/ /\ card[v].probe = "counts"
          /\ card' = [card EXCEPT ![v].probe = "none", ![v].polling = FALSE]
          /\ \/ UNCHANGED <<tab, refused>>                \* legacy, or a token is required
             \/ tab' = Tab("application", 0) /\ refused' = 0
    /\ UNCHANGED <<demoVars, page, visit, expired, view, viewP, openedOn>>

(* The failure dialog and the previews, which are not on any one page.     *)
Elsewhere ==
    /\ \/ status = "error" /\ (Retry \/ DismissError)
       \/ page = "away" /\ ~IsBusy /\ LoadGraphOutput
    /\ UNCHANGED pages

-----------------------------------------------------------------------------
Moves ==
    \/ \E q \in Queries : OpenLanding(q)
    \/ OpenViewer \/ Refresh \/ GoAway \/ Reload \/ LoadExample \/ CancelDemo
    \/ OpenGraphFile \/ CloseGraphFile \/ Elsewhere

Answers ==
    \/ Demo /\ UNCHANGED pages
    \/ GraphLoads \/ JoinEnds \/ DemoComesUp
    \/ \E v \in Visits : DemoAnswers(v) \/ ExampleAnswers(v) \/ Probe(v) \/ ProbeAnswered(v)
    \/ \E r \in Runs : Expire(r)

(* Promises that have settled resume before the next event.                *)
Quiet ==
    /\ \A v \in Visits : card[v].waits # Nothing => ~Settled(card[v].waits)
    /\ viewP # Nothing => ~Settled(viewP)
    /\ \A i \in Reads : read[i] = "starting" => ~Settled(readP[i])

Next ==
    \/ Quiet /\ moves < MaxMoves /\ moves' = moves + 1 /\ Moves
    \/ Answers /\ UNCHANGED moves

Spec == Init /\ [][Next]_vars

(* Every download and boot ends, one way or the other, and every settled   *)
(* promise resumes who awaits it.                                          *)
Fairness ==
    /\ \A r \in Runs : WF_vars(Startup(r) /\ UNCHANGED <<pages, moves>>)
    /\ \A v \in Visits : WF_vars((DemoAnswers(v) \/ ExampleAnswers(v)) /\ UNCHANGED moves)
    /\ WF_vars((GraphLoads \/ JoinEnds) /\ UNCHANGED moves)

FairSpec == Spec /\ Fairness
-----------------------------------------------------------------------------
(* One pod at most: what is up is published with its bridge, its endpoint  *)
(* and its token, or is held by the startup that will publish it or tear   *)
(* it down.  Nothing booted is lost, and nothing torn down is reachable.   *)
OnePod ==
    /\ \A r \in live : pod = r \/ at[r] \in Unpublished
    /\ fetchIs = pod /\ pod \in live \cup {0}
    /\ endpoint \in {0, pod}
    /\ IsRunning => pod # 0 /\ endpoint = pod /\ Current(pod)

(* The graph the previews draw is the graph of the pod that is up. *)
GraphOfThePod == graph # 0 => graph = pod

(* A graph file outlives whatever the card it was opened on was waiting    *)
(* for.                                                                    *)
FileOutlivesItsCard ==
    [][tab.source = "file" /\ tab'.source # "file" /\ openedOn # 0
         => card'[openedOn].waits = card[openedOn].waits
            /\ card'[openedOn].example = card[openedOn].example
            /\ (page # "landing" => card'[openedOn].probe = card[openedOn].probe)]_vars

(* Every startup ends, *)
DemoSettles == IsBusy ~> ~IsBusy

(* and every visitor who waits for a graph gets it, or gets the card.      *)
Waiting == \/ page = "landing" /\ Card.auto
           \/ page = "viewer" /\ view \in {"joining", "loading"}
ArrivalSettles == (visit < MaxVisits /\ Waiting) ~> (~Waiting \/ visit = MaxVisits)

(* One pod is up at most, published as a whole, and the graph drawn is its.*)
PodIsPublished == OnePod /\ GraphOfThePod

(* No startup, and nobody who waits for one, waits for ever.               *)
WaitsEnd == DemoSettles /\ ArrivalSettles
=============================================================================
