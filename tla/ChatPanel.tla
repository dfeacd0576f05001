------------------------------- MODULE ChatPanel -------------------------------
(***************************************************************************)
(* The chat of site/app/components/AiChatPanel.vue over the engine: a run  *)
(* per question, which fetches the graph, loads a model and streams one    *)
(* generation (a plain run) or several (an agent's), while the visitor     *)
(* restarts the chat, resizes the window, opens another graph, picks and   *)
(* removes models, and closes the panel.  The graph is of the current      *)
(* version and there is the one provider.                                  *)
(*                                                                         *)
(* A run is where it waits:                                                *)
(*   fetch    for the graph              load    for the panel's load      *)
(*   turn     between two generations    reload  for a generation's load   *)
(*   queue    for the model's lock       decode  for the next delta        *)
(*   drain    for an abandoned decode to let the lock go                   *)
(*   drained  to hear of it              cut     over; its generation is   *)
(*   done                                lost    not; with a closed worker *)
(***************************************************************************)
EXTENDS ChatEngine

CONSTANTS
    MaxTurns, \* bound on the generations of an agent run's attempt
    Budget    \* bound on how often the visitor makes each kind of move

MoveKinds == {"submit", "restart", "resize", "open", "model", "refresh", "close", "all"}

ASSUME PanelAssumption == MaxTurns \in Nat /\ Budget \in [MoveKinds -> Nat]

VARIABLES
    mounted,      \* is the panel open?
    checked,      \* hasCheckedSupport
    chosen,       \* selectedModel
    loading,      \* isLoading
    active,       \* activeRun, 0 for none
    controller,   \* agentRun: the signal abandonAgentRun() raises
    aborted,      \* the signals that were raised
    agentRunning, \* useGraphAgent's isRunning
    transcript,   \* a bubble for each question: [of, end]
    jobs,         \* how many background jobs of each kind are in flight
    removing,     \* the model being removed
    revision,     \* the graph on screen
    runs,         \* a record for each run
    moves         \* how many moves of each kind are left

runVars   == <<runs, active, loading, controller, aborted, agentRunning, transcript>>
panelVars == <<mounted, checked, chosen, jobs, removing, revision, moves>>
vars      == <<engineVars, runVars, panelVars>>

Signal(r)    == <<r, runs[r].attempt>> \* of an agent's attempt
NoSignal     == <<>>
IsAborted(r) == Signal(r) \in aborted
Streaming    == loading \/ generating \/ agentRunning

Init ==
    /\ EngineInit
    /\ narrow \in BOOLEAN
    /\ mounted = TRUE /\ checked = FALSE /\ chosen = NoModel
    /\ loading = FALSE /\ active = 0 /\ controller = NoSignal /\ aborted = {} /\ agentRunning = FALSE
    /\ transcript = <<>> /\ runs = <<>>
    /\ jobs = [probe |-> IF narrow THEN 0 ELSE 1, read |-> 0, remove |-> 0, reread |-> 0]
    /\ removing = NoModel /\ revision = 1 /\ moves = Budget

--------------------------------------------------------------------------------
(* Writing and ending an answer                                               *)

Goes(r, run) == runs' = [runs EXCEPT ![r] = run]
Done(run)    == [run EXCEPT !.pc = "done"]

(* Bubbles are written by their place in the transcript. *)
Write(r, run, end) ==
    transcript' = IF run.bubble \in DOMAIN transcript
                  THEN [transcript EXCEPT ![run.bubble].end = end]
                  ELSE transcript

(* What endCancelledRun() makes of a run: "" when it was not cancelled, and   *)
(* "none" when there is nothing to write.                                     *)
CancelledEndByWidth(r) ==
    IF active # r THEN "none" ELSE IF narrow THEN "stopped" ELSE ""

CancelledEnd(r) ==
    IF active # r THEN "none" ELSE IF runs[r].interrupted THEN "stopped" ELSE ""

(* Only the run still in charge gives the shared state back; `signal` is what *)
(* is left of the controller.                                                 *)
EndRun(r, run, end, signal) ==
    /\ Goes(r, run)
    /\ IF end = "none" THEN UNCHANGED transcript ELSE Write(r, run, end)
    /\ IF active = r THEN active' = 0 /\ controller' = NoSignal /\ loading' = FALSE
       ELSE controller' = signal /\ UNCHANGED <<active, loading>>
    /\ agentRunning' = IF run.turns > 0 THEN FALSE ELSE agentRunning

(* A run that goes on waiting. *)
Waits(r, run, signal) ==
    /\ Goes(r, run)
    /\ controller' = signal
    /\ UNCHANGED <<active, loading, agentRunning, transcript>>

--------------------------------------------------------------------------------
(* A question                                                                 *)

(* streamChat, up to the wait for the model's lock; `busy` is whether some    *)
(* other generation is under way.  An emptied choice is never loaded.         *)
StreamChat(r, run, signal, busy) ==
    \/ /\ narrow \/ (~IsReady(run.model) /\ (run.model = NoModel \/ ~MayLoad))
       /\ EndRun(r, Done(run), "failed", signal)
       /\ generating' = busy /\ UNCHANGED loadVars
    \/ /\ ~narrow /\ IsReady(run.model)
       /\ Waits(r, [run EXCEPT !.pc = "queue"], signal)
       /\ generating' = TRUE /\ UNCHANGED loadVars
    \/ /\ ~narrow /\ run.model # NoModel /\ ~IsReady(run.model) /\ MayLoad
       /\ Waits(r, [run EXCEPT !.pc = "reload"], signal)
       /\ StartLoad(r, run.model)
       /\ generating' = busy

(* An agent's run gets a signal of its own, and imports what it needs first.  *)
StartAgent(r, run, busy) ==
    /\ Goes(r, [run EXCEPT !.pc = "turn", !.turns = 1])
    /\ controller' = <<r, run.attempt>> /\ agentRunning' = TRUE
    /\ generating' = busy
    /\ UNCHANGED <<active, loading, transcript>>

StartTurn(r, run, signal, busy) ==
    \/ run.agent /\ StartAgent(r, run, busy) /\ UNCHANGED loadVars
    \/ ~run.agent /\ StreamChat(r, run, signal, busy)

(* The graph and the model of an answer are read once, here, before a load    *)
(* that may take minutes.                                                     *)
IsAnyGraphOnScreen(run)   == TRUE
IsAskedGraphOnScreen(run) == run.asked = revision

Fetched(r) ==
    /\ runs[r].pc = "fetch"
    /\ LET run == [runs[r] EXCEPT !.context = revision, !.model = chosen]
       IN  \/ /\ ~IsAskedGraphOnScreen(run)
              /\ EndRun(r, Done(runs[r]), "changed", controller)
              /\ UNCHANGED <<loadVars, generating>>
           \/ /\ IsAskedGraphOnScreen(run)
              /\ \/ /\ run.model = resident \/ (run.model = NoModel /\ MayLoad /\ ~narrow)
                    /\ StartTurn(r, run, controller, generating)
                 \/ /\ run.model # resident /\ (narrow \/ ~MayLoad)
                    /\ EndRun(r, Done(run), "failed", controller)
                    /\ UNCHANGED <<loadVars, generating>>
                 \/ /\ run.model \notin {NoModel, resident} /\ ~narrow /\ MayLoad
                    /\ Waits(r, [run EXCEPT !.pc = "load"], controller)
                    /\ StartLoad(r, run.model)
                    /\ UNCHANGED generating
    /\ UNCHANGED <<aborted, lock, catalogVars>>

(* The end of a load the visitor (0) or a run asked for.  The panel's own is  *)
(* followed by a turn, which asks about the window again; a generation's is   *)
(* followed by that generation, which does not.                               *)
LoadFailed(load) ==
    /\ LoadFails(load)
    /\ \/ load.by = 0 /\ UNCHANGED runVars
       \/ /\ load.by # 0
          /\ EndRun(load.by, Done(runs[load.by]),
                    IF runs[load.by].pc = "cut" THEN "none" ELSE "failed", controller)
          /\ UNCHANGED aborted
    /\ UNCHANGED generating

IsRefused(run) == run.pc = "load" /\ ~run.agent /\ narrow

Loaded(load) ==
    /\ LoadSucceeds(load)
    /\ \/ load.by = 0 /\ UNCHANGED <<runVars, generating>>
       \/ /\ load.by # 0
          /\ LET r == load.by
                 run == runs[r]
             IN  \/ /\ IsRefused(run)
                    /\ EndRun(r, Done(run), "failed", controller)
                    /\ UNCHANGED generating
                 \/ run.pc = "load" /\ run.agent /\ StartAgent(r, run, generating)
                 \/ /\ run.pc \in {"reload", "cut"} \/ (run.pc = "load" /\ ~run.agent /\ ~narrow)
                    /\ Waits(r, IF run.pc = "cut" THEN run ELSE [run EXCEPT !.pc = "queue"], controller)
                    /\ generating' = TRUE
          /\ UNCHANGED aborted

(* An agent's next generation. *)
NextTurn(r) ==
    /\ runs[r].pc = "turn" /\ ~IsAborted(r)
    /\ StreamChat(r, runs[r], controller, generating)
    /\ UNCHANGED <<aborted, lock, catalogVars>>

--------------------------------------------------------------------------------
(* A generation                                                               *)

IsQueued(r) == runs[r].pc = "queue" \/ (runs[r].pc = "cut" /\ \A l \in loads : l.by # r)

(* With the model comes the first of the text, which is written as it comes.  *)
Decode(r) ==
    /\ IsQueued(r) /\ lock = 0
    /\ lock' = r
    /\ IF runs[r].pc = "cut" THEN UNCHANGED runs ELSE Goes(r, [runs[r] EXCEPT !.pc = "decode"])
    /\ UNCHANGED <<transcript, loadVars, generating, catalogVars, active, loading, controller, aborted, agentRunning>>

(* A generation ends by itself, or because it was interrupted: a plain run    *)
(* cannot tell which.  An agent may have called tools.                        *)
GenerationEnds(r) ==
    /\ runs[r].pc = "decode"
    /\ lock' = 0 /\ generating' = FALSE
    /\ \/ /\ runs[r].agent /\ runs[r].turns < MaxTurns
          /\ Waits(r, [runs[r] EXCEPT !.pc = "turn", !.turns = @ + 1], controller)
       \/ /\ ~(runs[r].agent /\ IsAborted(r))
          /\ EndRun(r, Done(runs[r]), IF CancelledEnd(r) = "" THEN "answered" ELSE CancelledEnd(r), controller)
    /\ UNCHANGED <<loadVars, catalogVars, aborted>>

GenerationFails(r) ==
    /\ runs[r].pc = "decode" /\ ~(runs[r].agent /\ IsAborted(r))
    /\ lock' = 0 /\ generating' = FALSE
    /\ EndRun(r, Done(runs[r]), "failed", controller)
    /\ UNCHANGED <<loadVars, catalogVars, aborted>>

(* The handler of deltas throws: the decode is interrupted and read to its    *)
(* end, which lets the lock go; then the question is tried once more.         *)
ThinksTooLong(r) ==
    /\ runs[r].pc = "decode" /\ runs[r].attempt = 1
    /\ Waits(r, [runs[r] EXCEPT !.pc = "drain"], controller)
    /\ UNCHANGED <<loadVars, generating, lock, catalogVars, aborted>>

DrainOneSided(r) ==
    /\ runs[r].pc = "drain"
    /\ Waits(r, [runs[r] EXCEPT !.pc = "drained"], controller)
    /\ UNCHANGED <<loadVars, generating, lock, catalogVars, aborted>>

Drain(r) ==
    /\ runs[r].pc = "drain"
    /\ lock' = 0
    /\ Waits(r, [runs[r] EXCEPT !.pc = "drained"], controller)
    /\ UNCHANGED <<loadVars, generating, catalogVars, aborted>>

AbandonAgentRun == aborted' = aborted \cup ({controller} \ {NoSignal})

Retry(r) ==
    /\ runs[r].pc = "drained"
    /\ AbandonAgentRun
    /\ StartTurn(r, [runs[r] EXCEPT !.attempt = 2], NoSignal, FALSE)
    /\ UNCHANGED <<lock, catalogVars>>

(* An agent's run hears of its signal whenever it likes; what it was decoding *)
(* or loading goes on without it.                                             *)
AbortSurfaces(r) ==
    /\ runs[r].agent /\ IsAborted(r)
    /\ runs[r].pc \in {"turn", "reload", "queue", "decode"}
    /\ EndRun(r, [runs[r] EXCEPT !.pc = IF @ = "turn" THEN "done" ELSE "cut"],
              IF CancelledEnd(r) = "" THEN "none" ELSE CancelledEnd(r), controller)
    /\ UNCHANGED <<loadVars, generating, lock, catalogVars, aborted>>

CutGenerationEnds(r) ==
    /\ runs[r].pc = "cut" /\ lock = r
    /\ lock' = 0 /\ generating' = FALSE
    /\ Waits(r, Done(runs[r]), controller)
    /\ UNCHANGED <<loadVars, catalogVars, aborted>>

RunStep(r) ==
    /\ r \in DOMAIN runs
    /\ \/ Fetched(r) \/ NextTurn(r) \/ Decode(r)
       \/ GenerationEnds(r) \/ GenerationFails(r)
       \/ ThinksTooLong(r) \/ Drain(r) \/ Retry(r)
       \/ AbortSurfaces(r) \/ CutGenerationEnds(r)
    /\ UNCHANGED <<narrow, panelVars>>

LoadStep(load) == (Loaded(load) \/ LoadFailed(load)) /\ UNCHANGED <<narrow, lock, panelVars>>

--------------------------------------------------------------------------------
(* The list of models                                                         *)

Job(ended, begun) ==
    jobs' = [k \in DOMAIN jobs |-> jobs[k] - (IF k = ended THEN 1 ELSE 0) + (IF k = begun THEN 1 ELSE 0)]

(* Asked for in a wide window; nothing while the list is being read.         *)
LoadModelCatalog == IF reading THEN UNCHANGED jobs ELSE Job("none", "probe")

(* ensureWebGpuSupport, and what loadModelCatalog goes on with. *)
ProbeEnds(isThere) ==
    /\ jobs.probe > 0
    /\ supported' = isThere /\ checked' = TRUE
    /\ IF isThere THEN RefreshCatalog ELSE UNCHANGED <<reading, listed, cached, readFailed>>
    /\ Job("probe", IF isThere /\ ~narrow THEN "read" ELSE "none")
    /\ chosen' = IF isThere /\ ~narrow THEN chosen ELSE NoModel
    /\ UNCHANGED <<disk, loadVars, removing>>

(* The first downloaded model is chosen if the chosen one is not downloaded.  *)
ReadEnds(isRead) ==
    /\ jobs.read > 0
    /\ CatalogRead(isRead) /\ Job("read", "none")
    /\ IF chosen \in cached' THEN UNCHANGED chosen
       ELSE IF cached' = {} THEN chosen' = NoModel ELSE chosen' \in cached'
    /\ UNCHANGED <<loadVars, checked, removing>>

(* Reading the list again after a removal does not touch the choice. *)
RemovalEnds ==
    /\ jobs.remove > 0
    /\ DeleteModel(removing) /\ removing' = NoModel
    /\ RefreshCatalog
    /\ Job("remove", IF narrow THEN "none" ELSE "reread")
    /\ UNCHANGED <<supported, checked, chosen>>

RereadEnds(isRead) ==
    /\ jobs.reread > 0
    /\ CatalogRead(isRead) /\ Job("reread", "none")
    /\ UNCHANGED <<loadVars, checked, chosen, removing>>

JobStep ==
    /\ mounted
    /\ \/ \E ok \in BOOLEAN : ProbeEnds(ok) \/ ReadEnds(ok) \/ RereadEnds(ok)
       \/ RemovalEnds
    /\ UNCHANGED <<narrow, generating, lock, runVars, mounted, revision, moves>>

--------------------------------------------------------------------------------
(* The visitor                                                                *)

Moves(kind) ==
    /\ mounted /\ moves[kind] > 0 /\ moves.all > 0
    /\ moves' = [moves EXCEPT ![kind] = @ - 1, !.all = @ - 1]

HandleSubmit(isAgent) ==
    /\ Moves("submit")
    /\ ~Streaming /\ ~narrow /\ preparing = NoModel /\ chosen # NoModel /\ ~(checked /\ ~supported)
    /\ LET r == Len(runs) + 1
       IN  /\ runs' = Append(runs, [pc |-> "fetch", agent |-> isAgent, asked |-> revision, context |-> 0,
                                    model |-> NoModel, attempt |-> 1, turns |-> 0,
                                    bubble |-> Len(transcript) + 1, interrupted |-> FALSE, cut |-> FALSE])
           /\ active' = r
           /\ transcript' = Append(transcript, [of |-> r, end |-> ""])
    /\ loading' = TRUE
    /\ UNCHANGED <<engineVars, controller, aborted, agentRunning,
                   mounted, checked, chosen, jobs, removing, revision>>

RestartChat ==
    /\ Moves("restart") /\ ~narrow
    /\ AbandonAgentRun /\ controller' = NoSignal
    /\ active' = 0 /\ loading' = FALSE /\ transcript' = <<>>
    /\ UNCHANGED <<engineVars, runs, agentRunning, mounted, checked, chosen, jobs, removing, revision>>

(* A run with something to cut is told so, and what decodes is interrupted.   *)
HasSomethingToCut == generating \/ controller # NoSignal

Narrow ==
    /\ Moves("resize") /\ ~narrow
    /\ narrow' = TRUE
    /\ runs' = [r \in DOMAIN runs |->
                   [runs[r] EXCEPT !.interrupted = @ \/ (r = active /\ HasSomethingToCut),
                                   !.cut = @ \/ lock = r]]
    /\ AbandonAgentRun /\ controller' = NoSignal
    /\ UNCHANGED <<loadVars, generating, lock, catalogVars, active, loading, agentRunning, transcript,
                   mounted, checked, chosen, jobs, removing, revision>>

IsProbeOwed   == ~checked
IsCatalogOwed == ~checked \/ (supported /\ ~listed)

Widen ==
    /\ Moves("resize") /\ narrow
    /\ narrow' = FALSE
    /\ IF IsCatalogOwed THEN LoadModelCatalog ELSE UNCHANGED jobs
    /\ UNCHANGED <<loadVars, generating, lock, catalogVars, runVars, mounted, checked, chosen, removing, revision>>

HandleRefreshModels ==
    /\ Moves("refresh") /\ ~narrow /\ ~Streaming /\ preparing = NoModel
    /\ LoadModelCatalog
    /\ UNCHANGED <<engineVars, runVars, mounted, checked, chosen, removing, revision>>

OpenGraph ==
    /\ Moves("open")
    /\ revision' = revision + 1
    /\ UNCHANGED <<engineVars, runVars, mounted, checked, chosen, jobs, removing>>

(* A model that is not downloaded is downloaded as soon as it is chosen; the  *)
(* download button asks for the chosen one, or for the recommended one.       *)
PickModel(model) ==
    /\ Moves("model") /\ ~narrow /\ listed /\ ~(checked /\ ~supported) /\ preparing = NoModel
    /\ model # chosen /\ chosen' = model
    /\ IF model \notin cached /\ resident # model THEN StartLoad(0, model) ELSE UNCHANGED loadVars
    /\ UNCHANGED <<narrow, generating, lock, catalogVars, runVars, mounted, checked, jobs, removing, revision>>

HandleModelDownloadClick(recommended) ==
    /\ Moves("model") /\ ~narrow /\ preparing = NoModel
    /\ chosen' = IF chosen = NoModel THEN recommended ELSE chosen
    /\ resident # chosen' /\ StartLoad(0, chosen')
    /\ UNCHANGED <<narrow, generating, lock, catalogVars, runVars, mounted, checked, jobs, removing, revision>>

HandleRemoveSelectedModel ==
    /\ Moves("model") /\ ~narrow /\ preparing = NoModel /\ removing = NoModel
    /\ chosen \in cached \ {resident}
    /\ removing' = chosen /\ chosen' = NoModel
    /\ Job("none", "remove")
    /\ UNCHANGED <<engineVars, runVars, mounted, checked, revision>>

(* What the worker was asked for is not answered any more. *)
ClosePanel ==
    /\ Moves("close")
    /\ mounted' = FALSE
    /\ Dispose
    /\ AbandonAgentRun /\ controller' = NoSignal
    /\ runs' = [r \in DOMAIN runs |->
                   IF \/ runs[r].pc \in {"queue", "decode", "drain"}
                      \/ runs[r].pc \in {"load", "reload", "cut"} /\ \A l \in loads : l.fresh => l.by # r
                   THEN [runs[r] EXCEPT !.pc = "lost"] ELSE runs[r]]
    /\ UNCHANGED <<narrow, catalogVars, active, loading, agentRunning, transcript,
                   checked, chosen, jobs, removing, revision>>

VisitorStep ==
    \/ \E isAgent \in BOOLEAN : HandleSubmit(isAgent)
    \/ RestartChat \/ Narrow \/ Widen \/ HandleRefreshModels \/ OpenGraph
    \/ \E model \in Models : PickModel(model) \/ HandleModelDownloadClick(model)
    \/ HandleRemoveSelectedModel \/ ClosePanel

Next ==
    \/ VisitorStep \/ JobStep
    \/ \E r \in 1..Budget.submit : RunStep(r)
    \/ \E load \in loads : LoadStep(load)

(* A fetch, a load, a probe and a generation each end, one way or another.    *)
Fairness ==
    /\ WF_vars(JobStep)
    /\ WF_vars(\E load \in loads : LoadStep(load))
    /\ \A r \in 1..Budget.submit : WF_vars(RunStep(r))

Spec == Init /\ [][Next]_vars /\ Fairness

--------------------------------------------------------------------------------
(* Properties                                                                 *)

(* An answer is given from the graph its question was asked about, whatever   *)
(* was opened while the graph was fetched, the model loaded or the answer     *)
(* written (AiChatPanel.vue:1182, 1194).                                      *)
AnswersTheAskedGraph == \A r \in DOMAIN runs : runs[r].context # 0 => runs[r].context = runs[r].asked

IsOpen(r) == r \in DOMAIN transcript /\ transcript[r].end = ""

(* Every question gets its prompt back, and unless the chat was restarted its *)
(* bubble is closed by an answer, a notice or a diagnostic: nothing waits for *)
(* ever on a lock that nobody frees, on a signal nobody heard, or on a model  *)
(* (useWebLlmEngine.ts:476, AiChatPanel.vue:1145, 1436).                      *)
EveryAnswerEnds ==
    /\ (loading /\ mounted) ~> (~Streaming \/ ~mounted)
    /\ \A r \in 1..Budget.submit :
           IsOpen(r) ~> (~IsOpen(r) \/ ~mounted \/ moves.restart < Budget.restart)

(* An answer that the restriction cut short does not pass for one that was    *)
(* finished, though the window may be wide again by then, unless a restart    *)
(* left other runs behind (AiChatPanel.vue:1144, 955).                        *)
CutAnswersSaySo ==
    moves.restart = Budget.restart =>
        \A b \in DOMAIN transcript : transcript[b].end = "answered" => ~runs[transcript[b].of].cut

(* The probe and the list of models that a narrow window skipped, or emptied, *)
(* are made up for: a wide panel with nothing in flight has its list, or told *)
(* of a failure since (AiChatPanel.vue:971).                                  *)
CatalogMadeUp ==
    mounted /\ ~narrow /\ (\A k \in DOMAIN jobs : jobs[k] = 0) =>
        checked /\ (supported /\ ~listed => readFailed)

(* The panel has one worker at a time (useWebLlmEngine.ts:366). *)
OneWorker == mounted => threads <= 1

(* An answer is about the graph that was asked about, and whole unless it says*)
(* that it was cut.                                                           *)
AnswersAreHonest == AnswersTheAskedGraph /\ CutAnswersSaySo
=============================================================================
