---------------------------- MODULE RuntimeTrace ----------------------------
(***************************************************************************)
(* RuntimeTraceRecorder (lib/src/runtime-trace.recorder.ts) together with  *)
(* the direct-run route that drives it                                     *)
(* (lib/src/adapters/direct-run-output.adapter.ts).                        *)
(*                                                                         *)
(* A direct run calls one provider method.  Every instrumented call the    *)
(* method makes, directly or not, opens a span.  Several runs are in       *)
(* flight at once on one event loop, and a call whose promise nobody       *)
(* awaited goes on after the method, and even after the response.          *)
(*                                                                         *)
(* A span object is identified with its call: `active' and `trace' hold    *)
(* references, `status' and `marked' the fields of the object referred to, *)
(* so that a write through one reference is seen through the other.        *)
(***************************************************************************)
EXTENDS Naturals, Sequences

CONSTANTS
    Runs,       \* the direct runs requested of the server
    Calls,      \* the instrumented calls their methods make: the bound of a run
    Outcomes    \* how a call or its promise may end

(* A context is what AsyncLocalStorage carries: the run itself (its root   *)
(* span is on top of the span stack) or a call inside it.                  *)
ASSUME RunsAreNotCalls == Runs \cap Calls = {}
ASSUME OutcomesAssumption == Outcomes \subseteq {"success", "error"}

VARIABLES
    phase,      \* where the route handler of each run is
    info,       \* for each call: the run it belongs to, the context that made
                \* it, the span it nests under, whether it names the run's entry
    mode,       \* what the call itself is doing, whatever was recorded of it
    awaits,     \* the calls whose promise their caller awaits
    stack,      \* the calls now executing synchronously, innermost last
    entries,    \* keys of the activeSpans map
    active,     \* its values; {} for a key that is not there
    pendingKeys, \* keys of the pendingSpans map
    pending,    \* its values; {} for a key that is not there
    wait,       \* the promises finishTrace found pending and awaits
    status,     \* `status' of each span object
    marked,     \* the span objects whose metadata says awaited: false
    trace       \* the spans of each completed trace, its root span aside

callVars == <<info, mode, awaits, stack>>
spanVars == <<status, marked>>
mapVars  == <<entries, active, pendingKeys, pending>>
vars == <<phase, callVars, mapVars, spanVars, wait, trace>>

Contexts == Runs \cup Calls
Settled  == Outcomes
NoInfo   == [owner |-> "none", from |-> "none", parent |-> "none", entry |-> FALSE]
Infos    == [owner : Runs, from : Contexts, parent : Contexts, entry : BOOLEAN]

TypeOK ==
    /\ phase \in [Runs -> {"idle", "refused", "running", "waiting", "traced"}]
    /\ info \in [Calls -> Infos \cup {NoInfo}]
    /\ mode \in [Calls -> {"unused", "frame", "pending"} \cup Settled]
    /\ awaits \in SUBSET Calls
    /\ stack \in Seq(Calls)
    /\ entries \in SUBSET Runs
    /\ active \in [Runs -> SUBSET Calls]
    /\ pendingKeys \in SUBSET Runs
    /\ pending \in [Runs -> SUBSET Calls]
    /\ wait \in [Runs -> SUBSET Calls]
    /\ status \in [Calls -> {"none", "partial"} \cup Settled]
    /\ marked \in SUBSET Calls
    /\ trace \in [Runs -> SUBSET Calls]

Init ==
    /\ phase = [r \in Runs |-> "idle"]
    /\ info = [c \in Calls |-> NoInfo]
    /\ mode = [c \in Calls |-> "unused"]
    /\ awaits = {}
    /\ stack = <<>>
    /\ entries = {}
    /\ active = [r \in Runs |-> {}]
    /\ pendingKeys = {}
    /\ pending = [r \in Runs |-> {}]
    /\ wait = [r \in Runs |-> {}]
    /\ status = [c \in Calls |-> "none"]
    /\ marked = {}
    /\ trace = [r \in Runs |-> {}]

-----------------------------------------------------------------------------
(* Synchronous code runs to completion: a continuation (of a promise, of a *)
(* timer, of a request) starts only when no call is executing.             *)
Idle == stack = <<>>

Started(x) ==
    \/ x \in Runs  /\ phase[x] \in {"running", "waiting", "traced"}
    \/ x \in Calls /\ mode[x] \in {"pending"} \cup Settled

(* The contexts that can make the next call: the innermost executing call, *)
(* or, when nothing executes, a continuation started in any context, one   *)
(* that is long finished included.                                         *)
CanCall(x) == IF Idle THEN Started(x) ELSE x = stack[Len(stack)]

OwnerOf(x) == IF x \in Runs THEN x ELSE info[x].owner

(* Mutant: an entry call pushes its span id although it records no span.   *)
SpanContextOfEntry(x) == x

(* parentStack.at(-1): a call that names the run's own entry method is not *)
(* recorded and pushes no span id, so its callees nest under its parent.   *)
SpanContext(x) == IF x \in Calls /\ info[x].entry THEN info[x].parent ELSE x

(* A caller that awaits a promise does not settle before it.               *)
Blocked(x) == \E c \in awaits : info[c].from = x /\ mode[c] = "pending"

(* Mutant: spans are dropped, as their promises are, once the run settles. *)
PushSpanWhileRunning(c, st) ==
    IF info[c].entry \/ phase[info[c].owner] # "running"
    THEN UNCHANGED <<entries, active, status>>
    ELSE /\ entries' = entries \cup {info[c].owner}
         /\ active'  = [active EXCEPT ![info[c].owner] = @ \cup {c}]
         /\ status'  = [status EXCEPT ![c] = st]

(* isPromiseLike aside, recordSpan ends by pushing the span, except for a  *)
(* root span.  pushSpan creates the map entry when it is not there.        *)
PushSpan(c, st) ==
    IF info[c].entry
    THEN UNCHANGED <<entries, active, status>>
    ELSE /\ entries' = entries \cup {info[c].owner}
         /\ active'  = [active EXCEPT ![info[c].owner] = @ \cup {c}]
         /\ status'  = [status EXCEPT ![c] = st]

(* Mutant: the settling promise writes to the span it closed over.         *)
UpdateSpanByReference(c, st) == status' = [status EXCEPT ![c] = st]

(* updateSpan looks the span up in the map and gives up when it is gone.   *)
UpdateSpan(c, st) ==
    status' = IF c \in active[info[c].owner]
              THEN [status EXCEPT ![c] = st]
              ELSE status

(* Mutant: the promise of the span is not tracked.                         *)
TrackNothing(c) == pending' = pending

(* trackPendingSpan: only while the run still has its set of promises.     *)
TrackPendingSpan(c) ==
    pending' = IF ~info[c].entry /\ info[c].owner \in pendingKeys
               THEN [pending EXCEPT ![info[c].owner] = @ \cup {c}]
               ELSE pending

-----------------------------------------------------------------------------
(* The route rejects the request: body too large, no such target, missing  *)
(* field, unavailable method or bad arguments.  No trace is started.       *)
Refuse(r) ==
    /\ Idle /\ phase[r] = "idle"
    /\ phase' = [phase EXCEPT ![r] = "refused"]
    /\ UNCHANGED <<callVars, mapVars, spanVars, wait, trace>>

(* start and runWithContext: fresh entries in both maps, then the method.  *)
Start(r) ==
    /\ Idle /\ phase[r] = "idle"
    /\ phase' = [phase EXCEPT ![r] = "running"]
    /\ entries' = entries \cup {r}
    /\ active' = [active EXCEPT ![r] = {}]
    /\ pendingKeys' = pendingKeys \cup {r}
    /\ pending' = [pending EXCEPT ![r] = {}]
    /\ UNCHANGED <<callVars, spanVars, wait, trace>>

(* Span ids are fresh (randomUUID): which unused one is taken is immaterial. *)
FreshCall == CHOOSE c \in Calls : mode[c] = "unused"

(* recordSpan up to its callback.                                          *)
Call(x, isEntry) ==
  LET c == FreshCall IN
    /\ CanCall(x) /\ \E d \in Calls : mode[d] = "unused"
    /\ mode' = [mode EXCEPT ![c] = "frame"]
    /\ info' = [info EXCEPT ![c] = [owner |-> OwnerOf(x), from |-> x,
                                    parent |-> SpanContext(x), entry |-> isEntry]]
    /\ stack' = Append(stack, c)
    /\ UNCHANGED <<phase, awaits, mapVars, spanVars, wait, trace>>

Returns(c) ==
    /\ ~Idle /\ c = stack[Len(stack)]
    /\ stack' = SubSeq(stack, 1, Len(stack) - 1)

(* The callback returned a value or threw.                                 *)
ReturnValue(c, st) ==
    /\ Returns(c) /\ ~Blocked(c)
    /\ mode' = [mode EXCEPT ![c] = st]
    /\ PushSpan(c, st)
    /\ UNCHANGED <<phase, info, awaits, pendingKeys, pending, marked, wait, trace>>

(* The callback returned a promise: the span is pushed as partial at once. *)
ReturnPromise(c, awaited) ==
    /\ Returns(c)
    /\ mode' = [mode EXCEPT ![c] = "pending"]
    /\ awaits' = IF awaited THEN awaits \cup {c} ELSE awaits
    /\ PushSpan(c, "partial")
    /\ TrackPendingSpan(c)
    /\ UNCHANGED <<phase, info, pendingKeys, marked, wait, trace>>

(* The promise settles: the span is updated, then the tracked promise is   *)
(* dropped from the run's set.                                             *)
Settle(c, st) ==
    /\ Idle /\ mode[c] = "pending" /\ ~Blocked(c)
    /\ mode' = [mode EXCEPT ![c] = st]
    /\ UpdateSpan(c, st)
    /\ pending' = [pending EXCEPT ![info[c].owner] = @ \ {c}]
    /\ UNCHANGED <<phase, info, awaits, stack, entries, active, pendingKeys,
                   marked, wait, trace>>

(* The method settles and the route calls finishSuccess or finishError: up *)
(* to its await, finishTrace marks the pending spans and takes the promises*)
(* it will wait for.                                                       *)
MethodSettles(r) ==
    /\ Idle /\ phase[r] = "running" /\ ~Blocked(r)
    /\ phase' = [phase EXCEPT ![r] = "waiting"]
    /\ marked' = marked \cup {c \in active[r] : status[c] = "partial"}
    /\ wait' = [wait EXCEPT ![r] = pending[r]]
    /\ UNCHANGED <<callVars, mapVars, status, trace>>

(* Mutant: the trace waits until no promise of the run is pending.         *)
FinishTraceWhenQuiet(r) ==
    /\ Idle /\ phase[r] = "waiting" /\ pending[r] = {}
    /\ phase' = [phase EXCEPT ![r] = "traced"]
    /\ trace' = [trace EXCEPT ![r] = active[r]]
    /\ entries' = entries \ {r}
    /\ active' = [active EXCEPT ![r] = {}]
    /\ pendingKeys' = pendingKeys \ {r}
    /\ UNCHANGED <<pending, callVars, spanVars, wait>>

(* Every promise of the snapshot has settled: the trace takes the spans    *)
(* recorded so far, and both map entries go.                               *)
FinishTrace(r) ==
    /\ Idle /\ phase[r] = "waiting" /\ \A c \in wait[r] : mode[c] \in Settled
    /\ phase' = [phase EXCEPT ![r] = "traced"]
    /\ trace' = [trace EXCEPT ![r] = active[r]]
    /\ entries' = entries \ {r}
    /\ active' = [active EXCEPT ![r] = {}]
    /\ pendingKeys' = pendingKeys \ {r}
    /\ pending' = [pending EXCEPT ![r] = {}]
    /\ UNCHANGED <<callVars, spanVars, wait>>

Next ==
    \/ \E r \in Runs : Refuse(r) \/ Start(r) \/ MethodSettles(r) \/ FinishTrace(r)
    \/ \E x \in Contexts, isEntry \in BOOLEAN : Call(x, isEntry)
    \/ \E c \in Calls, st \in Outcomes : ReturnValue(c, st) \/ Settle(c, st)
    \/ \E c \in Calls, awaited \in BOOLEAN : ReturnPromise(c, awaited)

Spec == Init /\ [][Next]_vars

(* Synchronous code returns, and the event loop runs a continuation that   *)
(* is ready.  Nothing says that a promise ever settles: that is up to the  *)
(* application.                                                            *)
Returning == \E c \in Calls : \/ \E st \in Outcomes : ReturnValue(c, st)
                              \/ \E awaited \in BOOLEAN : ReturnPromise(c, awaited)
Fairness == WF_vars(Returning) /\ \A r \in Runs : WF_vars(FinishTrace(r))
FairSpec == Spec /\ Fairness

-----------------------------------------------------------------------------
Traced(r) == phase[r] = "traced"

(* Every span of a completed trace nests under the root or under another   *)
(* span of the same trace: pushing the parent only when its callback has   *)
(* returned never leaves an orphan for the viewer's call tree.             *)
TraceParentsPresent ==
    \A r \in Runs : Traced(r) =>
        \A c \in trace[r] : info[c].parent \in trace[r] \cup {r}

(* A span that the trace reports as not awaited carries the call's real    *)
(* outcome: finishTrace waited for exactly the promises it marked.         *)
MarkedSpansSettled ==
    \A r \in Runs : Traced(r) =>
        \A c \in trace[r] \cap marked : mode[c] \in Settled /\ status[c] = mode[c]

(* The recorder forgets a finished run: what is left in its maps comes     *)
(* only from calls recorded after the trace was taken, never from spans    *)
(* the trace already owns.                                                 *)
OnlyLateSpansLinger ==
    \A r \in Runs : Traced(r) =>
        /\ r \notin pendingKeys /\ pending[r] = {}
        /\ active[r] \cap trace[r] = {}
        /\ r \in entries => active[r] # {}

(* A completed trace, once handed to the response and to the history, is   *)
(* never altered by the calls that go on behind it.                        *)
TraceFrozen ==
    [][\A r \in Runs : Traced(r) =>
          /\ trace'[r] = trace[r]
          /\ \A c \in trace[r] : /\ status'[c] = status[c]
                                 /\ (c \in marked') = (c \in marked)]_vars

(* A trace takes every call of its run whose callback has returned, those  *)
(* that other runs interleave with and those made while finishTrace was    *)
(* waiting included.                                                       *)
TraceComplete ==
    [][\A r \in Runs : phase[r] = "waiting" /\ phase'[r] = "traced" =>
          trace'[r] = {c \in Calls : /\ mode[c] \notin {"unused", "frame"}
                                     /\ info[c].owner = r
                                     /\ ~info[c].entry}]_vars

(* The response waits for nothing but the promises pending when the method *)
(* settled: once these have settled the trace is completed, whatever other *)
(* runs and later calls do.                                                *)
SettledRunIsTraced ==
    \A r \in Runs :
        (phase[r] = "waiting" /\ \A c \in wait[r] : mode[c] \in Settled)
            ~> Traced(r)

(* A completed trace hangs together, and what it marks is told truly.      *)
TraceSound == TraceParentsPresent /\ MarkedSpansSettled
=============================================================================
