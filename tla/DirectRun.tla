-------------------------------- MODULE DirectRun --------------------------------
(***************************************************************************)
(* Direct runs, from the drawer a method is run from (site/app/components/ *)
(* DirectRunDrawer.vue) and the trace page it is run again from            *)
(* (TraceWaterfall.vue), through the route that calls it (lib/src/adapters/*)
(* direct-run-output.adapter.ts), to the history kept in memory and on     *)
(* disk (viewer-output.adapter.ts).                                        *)
(*                                                                         *)
(* A run is known by its number, which is also its trace's.  What happens  *)
(* inside a call is RuntimeTrace's business; here a call lasts a while and *)
(* returns or throws.                                                      *)
(***************************************************************************)
EXTENDS DirectRunCalls

CONSTANTS Apps,              \* applications: [unsafe, outputs, targets, members, tries, bounds]
          Values,            \* the JSON values their arguments are made of
          MaxCompleted,      \* completed traces kept in memory
          FormFields(_),     \* fields the form has for a method's parameters
          FormAccepts(_, _)  \* whether it lets arguments through for them

VARIABLES app,        \* which application it is
          runs,       \* every run: what was asked, what was called, how far it is
          completed,  \* the recorder's completed traces, oldest first
          files,      \* the history directory: [traces, index]
          page,       \* [name, nth, selected]: where the viewer is, for the nth time
          drawer,     \* per target: [pending, snapshot, failed, refused]
          waterfall,  \* the trace page: [index, asked, traces, active, loading, failed, folded, rerunning]
          left        \* what the application's bounds leave: changes of page, selections
                      \* (targets, traces, folded rows), and failures (requests lost, writes
                      \* that fail, results that cannot be sent, restarts)

serverVars == <<completed, files>>
viewerVars == <<page, drawer, waterfall>>
vars == <<app, runs, completed, files, page, drawer, waterfall, left>>

--------------------------------------------------------------------------------
(* The application                                                            *)

NoTarget == [name |-> "nothing"]

(* What is typed for each method. *)
Typed(a, method) == IF method.params = <<>> THEN {<<>>} ELSE Apps[a].tries[method.name]

IsTarget(t) == t = [module |-> t.module, type |-> t.type, name |-> t.name] /\ t.type \in {"provider", "controller"}

(* The members of a class are told apart by where they are and their names;   *)
(* what is called in turn is a provider's method, or one of a target.         *)
IsClass(members, targets) ==
    /\ None \notin members
    /\ \A m, n \in members : m.at = n.at /\ m.name = n.name => m = n
    /\ \A m \in members :
           /\ m.at \in {"instance", "class", "base"} /\ Len(m.params) \in Nat /\ DOMAIN m.params = 1..Len(m.params)
           /\ \A s, u \in m.spans : s.id # 1 /\ (s.id = u.id => s = u)
           /\ \A s \in m.spans : /\ IsTarget(s.target) /\ (s.target.type = "provider" \/ s.target \in targets)
                                 /\ s.args \in Seq(Values)

ASSUME MaxCompletedAssumption == MaxCompleted \in Nat

ASSUME ValuesAssumption == \A v \in Values : v.json = "array" => v.items \in Seq(Values)

ASSUME AppsAssumption ==
    \A a \in DOMAIN Apps :
        /\ NoTarget \notin Apps[a].targets
        /\ \A t \in Apps[a].targets :
               /\ IsTarget(t) /\ IsClass(Apps[a].members[t], Apps[a].targets)
               /\ \A m \in DirectRunMethods(Apps[a].members[t]) : Typed(a, m) \subseteq Seq(Values)

(* A form has fields when there are parameters, and takes a value for each.   *)
ASSUME FormsAssumption ==
    \A a \in DOMAIN Apps : \A t \in Apps[a].targets : \A m \in DirectRunMethods(Apps[a].members[t]) :
        /\ FormFields(m.params) = 0 => m.params = <<>>
        /\ \A args \in Typed(a, m) : FormAccepts(m.params, args) => Len(args) = FormFields(m.params)

--------------------------------------------------------------------------------
NoKey       == [trace |-> 0, span |-> 0]
Inspected   == Apps[app]

(* Whether other methods than those of the graph may be called: as the output *)
(* says, else as the module does, else they may.  With a JSON output, the     *)
(* history is kept beside its file.                                           *)
IsStrict ==
    \E i \in DOMAIN Inspected.unsafe :
        Inspected.unsafe[i] = "no" /\ \A j \in 1..(i - 1) : Inspected.unsafe[j] = "unset"
KeepsHistory == "json" \in Inspected.outputs

FreshDrawer == [t \in Inspected.targets |-> [pending |-> 0, snapshot |-> 0, failed |-> FALSE, refused |-> {}]]
FreshPage   == [index |-> <<>>, asked |-> "no", traces |-> {}, active |-> 0, loading |-> {}, failed |-> FALSE,
                folded |-> {}, rerunning |-> {}]

Init ==
    /\ app \in DOMAIN Apps
    /\ runs = <<>> /\ completed = <<>> /\ files = [traces |-> {}, index |-> <<>>]
    /\ page = [name |-> "navigator", nth |-> 1, selected |-> NoTarget]
    /\ drawer = FreshDrawer /\ waterfall = FreshPage
    /\ left = Inspected.bounds

Spend(what) == left[what] > 0 /\ left' = [left EXCEPT ![what] = @ - 1]
Step(i, from, to) == runs[i].at = from /\ runs' = [runs EXCEPT ![i].at = to]
Reply(i, from, reply) == runs[i].at = from /\ runs' = [runs EXCEPT ![i].at = "answered", ![i].reply = reply]

(* The member a run called; the spans of its trace: its root, and what the    *)
(* method called in turn.                                                     *)
WasCalled(i) == runs[i].called.at # ""
Called(i)    == At(Inspected.members[runs[i].target], runs[i].called.at, runs[i].method)
Trace(i) ==
    {[id |-> 1, parent |-> 0, start |-> 1, target |-> runs[i].target, method |-> runs[i].method,
      args |-> runs[i].called.args]} \cup Called(i).spans

--------------------------------------------------------------------------------
(* The route                                                                  *)

(* The target a request names among those the application lends, or none. *)
TargetAsked(run) == IF run.target \in Inspected.targets THEN {run.target} ELSE {}

(* The request arrives: its target, method and arguments are found, or it is  *)
(* refused; the method is called.                                             *)
Receive(i) ==
    LET run    == runs[i]
        member == IF TargetAsked(run) = {} THEN None
                  ELSE Resolve(IsStrict, run.target, Inspected.members[run.target], run.method)
        args   == IF member = None THEN [ok |-> FALSE, args |-> <<>>]
                  ELSE ResolveArgs(run.body, ParameterCount(member.params))
    IN  /\ run.at = "sent"
        /\ IF args.ok
           THEN runs' = [runs EXCEPT ![i].at = "running", ![i].called = [at |-> member.at, args |-> args.args]]
           ELSE Reply(i, "sent", "refused")
        /\ UNCHANGED <<app, serverVars, viewerVars, left>>

Kept(traces) == SubSeq(traces, Max({1, Len(traces) - MaxCompleted + 1}), Len(traces))

(* The method returns or throws; its trace is kept, the oldest may go. *)
MethodEnds(i) ==
    /\ runs[i].at = "running"
    /\ \E outcome \in {"ok", "threw"} : runs' = [runs EXCEPT ![i].at = "done", ![i].outcome = outcome]
    /\ completed' = Kept(Append(completed, i))
    /\ UNCHANGED <<app, files, viewerVars, left>>

(* The history, if it is kept, is listed first and written after the trace. *)
ListHistory(i) ==
    /\ IF KeepsHistory
       THEN runs[i].at = "done" /\ runs' = [runs EXCEPT ![i].at = "listed", ![i].listing = completed]
       ELSE Step(i, "done", "ready")
    /\ UNCHANGED <<app, serverVars, viewerVars, left>>

WriteTraceFile(i) ==
    /\ Step(i, "listed", "filed")
    /\ files' = [files EXCEPT !.traces = @ \cup {i}]
    /\ UNCHANGED <<app, completed, viewerVars, left>>

WriteIndexFile(i) ==
    /\ Step(i, "filed", "ready")
    /\ files' = [files EXCEPT !.index = runs[i].listing]
    /\ UNCHANGED <<app, completed, viewerVars, left>>

(* A file cannot be written: the request fails, though the method ran. *)
WriteFails(i) ==
    /\ \E at \in {"listed", "filed"} : Reply(i, at, "failed")
    /\ Spend("failures")
    /\ UNCHANGED <<app, serverVars, viewerVars>>

(* What a method returns may not be sendable. *)
Answer(i) ==
    /\ Reply(i, "ready", runs[i].outcome)
    /\ UNCHANGED <<app, serverVars, viewerVars, left>>
Unsendable(i) ==
    /\ runs[i].outcome = "ok" /\ Reply(i, "ready", "failed")
    /\ Spend("failures")
    /\ UNCHANGED <<app, serverVars, viewerVars>>

(* What the history routes serve: the index, oldest first; and one trace, if  *)
(* it is still kept.                                                          *)
HistoryIndex    == completed
HistoryTrace(i) == {j \in ToSet(completed) : j = i}

Underway == {"sent", "running", "done", "listed", "filed", "ready"}

(* The application restarts, as it does on every change: memory is lost. *)
Restart ==
    /\ Spend("failures")
    /\ runs' = [i \in DOMAIN runs |-> IF runs[i].at \in Underway
                                      THEN [runs[i] EXCEPT !.at = "answered", !.reply = "lost"] ELSE runs[i]]
    /\ completed' = <<>>
    /\ UNCHANGED <<app, files, viewerVars>>

--------------------------------------------------------------------------------
(* Both pages                                                                 *)

(* A run's request is sent; its answer finds the page it was asked from only  *)
(* while the viewer is still there.                                           *)
Ask(from, target, method, args, body, key) ==
    /\ Len(runs) < Inspected.bounds.runs
    /\ runs' = Append(runs, [from |-> from, nth |-> page.nth, target |-> target, method |-> method,
                             asked |-> args, body |-> body, key |-> key, waiting |-> TRUE,
                             at |-> "sent", reply |-> "", outcome |-> "", listing |-> <<>>,
                             called |-> [at |-> "", args |-> <<>>]])

IsHere(i) == runs[i].nth = page.nth
Traced(reply) == reply \in {"ok", "threw"}

(* What the request's promise settles with: the answer, or that there is none *)
(* (the server still may be at it).                                           *)
Settles(i, reply) ==
    /\ runs[i].waiting
    /\ \/ runs[i].at = "answered" /\ reply = runs[i].reply /\ runs' = [runs EXCEPT ![i].waiting = FALSE] /\ UNCHANGED left
       \/ reply = "lost" /\ runs[i].at # "answered" /\ runs' = [runs EXCEPT ![i].waiting = FALSE] /\ Spend("failures")

(* A page mounts anew. *)
MoveTo(name) ==
    /\ page' = [name |-> name, nth |-> page.nth + 1, selected |-> NoTarget]
    /\ drawer' = FreshDrawer
    /\ waterfall' = [FreshPage EXCEPT !.asked = IF name = "trace" THEN "sent" ELSE "no"]

Navigate ==
    /\ Spend("moves")
    /\ \E name \in {"navigator", "trace"} : name # page.name /\ MoveTo(name)
    /\ UNCHANGED <<app, runs, serverVars>>

--------------------------------------------------------------------------------
(* The drawer                                                                 *)

SelectTarget ==
    /\ page.name = "navigator" /\ Spend("selects")
    /\ \E t \in Inspected.targets : t # page.selected /\ page' = [page EXCEPT !.selected = t]
    /\ UNCHANGED <<app, runs, serverVars, drawer, waterfall>>

(* parseDirectRunArgs, buildDirectRunRequest: nothing is sent for a method    *)
(* that takes nothing.                                                        *)
TakesNothing(method) == FormFields(method.params) = 0
ArgsBody(method, args) == IF TakesNothing(method) THEN EmptyBody ELSE Body(args)
ArgsAccepted(method, args) == TakesNothing(method) \/ FormAccepts(method.params, args)

(* What of it is let through. *)
LetThrough ==
    [a \in DOMAIN Apps |->
        [t \in Apps[a].targets |->
            [name \in AllowedMethods(Apps[a].members[t]) |->
                LET m == At(Apps[a].members[t], "class", name) IN {args \in Typed(a, m) : ArgsAccepted(m, args)}]]]

(* The run that is pending on a target, and where its answer goes. *)
NodeOfSelected(i) == IF page.selected # NoTarget THEN page.selected ELSE runs[i].target
NodeOf(i) == runs[i].target

RunMethod ==
    LET t == page.selected
    IN  /\ page.name = "navigator" /\ t # NoTarget /\ drawer[t].pending = 0 /\ Len(runs) < Inspected.bounds.runs
        /\ \E m \in DirectRunMethods(Inspected.members[t]) : \E args \in Typed(app, m) :
               IF args \in LetThrough[app][t][m.name]
               THEN /\ \E from \in {"run", "inspect"} : Ask(from, t, m.name, args, ArgsBody(m, args), NoKey)
                    /\ drawer' = [drawer EXCEPT ![t].pending = Len(runs) + 1, ![t].failed = FALSE, ![t].refused = {}]
               ELSE /\ UNCHANGED runs
                    /\ drawer' = [drawer EXCEPT ![t].refused = {[method |-> m, args |-> args]}]
        /\ UNCHANGED <<app, serverVars, page, waterfall, left>>

(* An answer of any kind becomes the target's last run; having none only says *)
(* why.  A run to be inspected opens the trace page.                          *)
RunSettles(i) ==
    /\ runs[i].from \in {"run", "inspect"}
    /\ \E reply \in {"refused", "ok", "threw", "failed", "lost"} :
           /\ Settles(i, reply)
           /\ IF ~IsHere(i) THEN UNCHANGED viewerVars
              ELSE IF runs[i].from = "inspect" /\ Traced(reply) THEN MoveTo("trace")
              ELSE /\ drawer' = [drawer EXCEPT ![NodeOf(i)].pending = 0,
                                     ![NodeOf(i)].snapshot = IF reply \in {"failed", "lost"} THEN @ ELSE i,
                                     ![NodeOf(i)].failed = reply \in {"failed", "lost"}]
                   /\ UNCHANGED <<page, waterfall>>
    /\ UNCHANGED <<app, serverVars>>

--------------------------------------------------------------------------------
(* The trace page                                                             *)

(* Activating a trace unfolds its rows, and asks for it unless it is known. *)
Activate(w, i) ==
    IF w.active = i THEN w
    ELSE [w EXCEPT !.active = i, !.folded = {}, !.loading = IF i \in w.traces THEN @ ELSE @ \cup {i}]
Adopt(w, i) ==
    Activate([w EXCEPT !.traces = @ \cup {i}, !.index = <<i>> \o SelectSeq(@, LAMBDA j : j # i)], i)

ServeIndex ==
    /\ page.name = "trace" /\ waterfall.asked = "sent"
    /\ waterfall' = LET listed == [waterfall EXCEPT !.asked = "served", !.index = Reverse(HistoryIndex), !.failed = FALSE]
                    IN  IF listed.index = <<>> \/ listed.active # 0 THEN listed ELSE Activate(listed, Head(listed.index))
    /\ UNCHANGED <<app, runs, serverVars, page, drawer, left>>

IndexFails ==
    /\ page.name = "trace" /\ waterfall.asked = "sent" /\ Spend("failures")
    /\ waterfall' = [waterfall EXCEPT !.asked = "served", !.failed = TRUE]
    /\ UNCHANGED <<app, runs, serverVars, page, drawer>>

SelectTrace ==
    /\ page.name = "trace" /\ Spend("selects")
    /\ \E i \in ToSet(waterfall.index) : i # waterfall.active /\ waterfall' = Activate(waterfall, i)
    /\ UNCHANGED <<app, runs, serverVars, page, drawer>>

ServeTraceFound(i) ==
    /\ page.name = "trace" /\ i \in waterfall.loading
    /\ waterfall' = IF HistoryTrace(i) # {} THEN [waterfall EXCEPT !.loading = @ \ {i}, !.failed = FALSE, !.traces = @ \cup {i}]
                    ELSE [waterfall EXCEPT !.failed = TRUE]
    /\ UNCHANGED <<app, runs, serverVars, page, drawer, left>>

(* A trace the application no longer has is answered with a 404. *)
ServeTrace(i) ==
    /\ page.name = "trace" /\ i \in waterfall.loading
    /\ waterfall' = [waterfall EXCEPT !.loading = @ \ {i}, !.failed = HistoryTrace(i) = {},
                         !.traces = @ \cup HistoryTrace(i)]
    /\ UNCHANGED <<app, runs, serverVars, page, drawer, left>>

IsDrawn == page.name = "trace" /\ waterfall.active \in waterfall.traces
Parents(trace) == {s.id : s \in {p \in trace : ChildrenOf(trace, p) # <<>>}}

FoldRows ==
    /\ IsDrawn /\ Spend("selects")
    /\ LET parents == Parents(Trace(waterfall.active))
           Fold(ids) == waterfall' = [waterfall EXCEPT !.folded = ids]
       IN  \/ \E id \in parents : Fold(SymDiff(waterfall.folded, {id}))
           \/ Fold(parents) \/ Fold({})
    /\ UNCHANGED <<app, runs, serverVars, page, drawer>>

RerunKey(span) == [trace |-> waterfall.active, span |-> span.id]
RerunSpan ==
    /\ IsDrawn
    /\ \E span \in Trace(waterfall.active) :
           /\ CanRerun(Inspected.targets, span) /\ RerunKey(span) \notin waterfall.rerunning
           /\ Ask("rerun", RerunTarget(span), span.method, span.args, Body(span.args), RerunKey(span))
           /\ waterfall' = [waterfall EXCEPT !.rerunning = @ \cup {RerunKey(span)}]
    /\ UNCHANGED <<app, serverVars, page, drawer, left>>

RerunSettles(i) ==
    /\ runs[i].from = "rerun"
    /\ \E reply \in {"refused", "ok", "threw", "failed", "lost"} :
           /\ Settles(i, reply)
           /\ IF ~IsHere(i) THEN UNCHANGED waterfall
              ELSE LET free == [waterfall EXCEPT !.rerunning = @ \ {runs[i].key}]
                   IN  waterfall' = IF Traced(reply) THEN Adopt(free, i) ELSE free
    /\ UNCHANGED <<app, serverVars, page, drawer>>

--------------------------------------------------------------------------------
Serve(i)  == Receive(i) \/ MethodEnds(i) \/ ListHistory(i) \/ WriteTraceFile(i) \/ WriteIndexFile(i) \/ Answer(i)
Settle(i) == RunSettles(i) \/ RerunSettles(i)

Next ==
    \/ \E i \in DOMAIN runs : Serve(i) \/ WriteFails(i) \/ Unsendable(i) \/ Settle(i)
    \/ Restart \/ Navigate \/ SelectTarget \/ RunMethod
    \/ ServeIndex \/ IndexFails \/ SelectTrace \/ (\E i \in waterfall.loading : ServeTrace(i))
    \/ FoldRows \/ RerunSpan

(* Methods end, and a server that runs answers. *)
Spec == Init /\ [][Next]_vars
        /\ WF_vars(ServeIndex)
        /\ \A i \in 1..Max({Apps[a].bounds.runs : a \in DOMAIN Apps}) : /\ WF_vars(i \in DOMAIN runs /\ Serve(i))
                              /\ WF_vars(i \in DOMAIN runs /\ Settle(i))
                              /\ WF_vars(ServeTrace(i))

--------------------------------------------------------------------------------
OnePerParameter(i) ==
    LET params == Called(i).params
    IN  Len(runs[i].asked) = Len(params) /\ \A p \in DOMAIN params : params[p].form = "plain"
HiddenByInstance(i) == At(Inspected.members[runs[i].target], "instance", runs[i].method) # None
SpanOf(key) == CHOOSE span \in Trace(key.trace) : span.id = key.span

Offered(i) == At(Inspected.members[runs[i].target], "class", runs[i].method)
IsWholeForm(i) == FormFields(Offered(i).params) = Len(Offered(i).params)

(* What is called is what was asked: the target the drawer showed or the span *)
(* belonged to, the method by that name, and the arguments in their places,   *)
(* unless a parameter has a default or the span had another number of them.   *)
(* In strict mode it is one the graph offers, and what the graph offers is    *)
(* called and not refused unless the instance hides it, or the form showed    *)
(* fewer fields than there are parameters.                                    *)
CallsAreWhatWasAsked ==
    \A i \in DOMAIN runs :
        LET run == runs[i] IN
        /\ WasCalled(i) =>
               /\ IF run.from = "rerun"
                  THEN SpanOf(run.key).target = run.target /\ SpanOf(run.key).method = run.method
                  ELSE run.called.at = "class" \/ HiddenByInstance(i)
               /\ OnePerParameter(i) => run.called.args = run.asked
               /\ IsStrict => Called(i) \in DirectRunMethods(Inspected.members[run.target])
        /\ run.reply = "refused" /\ run.from # "rerun" => HiddenByInstance(i) \/ ~IsWholeForm(i)

RunsOf(t) == {i \in DOMAIN runs : runs[i].from # "rerun" /\ runs[i].target = t /\ IsHere(i)}

(* While a target waits, it waits for its own run; when it does not, what the *)
(* drawer shows of it is the last of its runs that was answered, and it says  *)
(* so when the last one was not.  With a history, the trace shown is filed.   *)
LastRunShown ==
    \A t \in Inspected.targets :
        LET d == drawer[t]
            settled == {i \in RunsOf(t) : ~runs[i].waiting}
        IN  page.name = "navigator" =>
                /\ {i \in RunsOf(t) : runs[i].waiting} = {d.pending} \ {0}
                /\ d.snapshot \in settled \cup {0}
                /\ d.pending = 0 /\ ~d.failed /\ settled # {} => d.snapshot = Max(settled \cup {0})
                /\ d.failed => d.snapshot < Max(settled \cup {0})
                /\ KeepsHistory /\ d.snapshot # 0 /\ runs[d.snapshot].reply # "refused" => d.snapshot \in files.traces

Waits == \/ \E t \in Inspected.targets : drawer[t].pending # 0
         \/ waterfall.rerunning # {} \/ waterfall.loading # {} \/ waterfall.asked = "sent"

(* Whatever happens to its request, a target or a span that waits for its run *)
(* stops waiting, and a trace or the history is shown or said to be missing.  *)
EveryRunSettles == []<>~Waits

(* Arguments bind positionally to the method's plain parameter list. *)
ArgumentsBindPositionally ==
    \A i \in DOMAIN runs : WasCalled(i) => runs[i].called.args = runs[i].asked
================================================================================
