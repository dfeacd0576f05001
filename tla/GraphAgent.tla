------------------------------- MODULE GraphAgent -------------------------------
(***************************************************************************)
(* The loop of site/app/utils/graph-agent-run.ts, with the model of        *)
(* web-llm-langchain.ts and the panel's list of steps: the model is asked, *)
(* writes, calls tools, and is asked again.  The engine delivers what it   *)
(* writes piece by piece into a buffer, where the model waits for it.      *)
(* LangGraph runs the nodes, one tick each, tells what each has settled,   *)
(* perhaps twice, and refuses a node past its limit; tools of one turn     *)
(* answer in any order.                                                    *)
(***************************************************************************)
EXTENDS ToolCallReader, GraphAgentTools

CONSTANTS
    Graphs,         \* graphs a run may be asked about, by name
    Queries,        \* what a model may ask a lookup for
    Replies,        \* what it may write
    Runs,           \* runs asked for: [asked, transcript], a graph and the conversation up to the question
    MaxSteps,       \* maxSteps
    ShortSize,      \* the size of a lookup that misses, in characters
    WideSize,       \* of one that answers
    TranscriptBudget, \* what is left of the prompt for the transcript
    DeltaSizes,     \* bound on how the engine cuts: these sizes, or all that is left
    MaxBuffered     \* bound on the deltas that wait

VARIABLES
    asked,      \* the name of the graph the tools close over
    phase,      \* the node that is next or under way
    result,     \* how the run ended, "" while it has not
    ticks,      \* nodes run so far
    turn,       \* how often the model was asked
    transcript, \* state.messages: [type, calls, size, turn]
    request,    \* what the model was last asked with
    written,    \* what it writes this turn
    sent,       \* how much of it the engine has delivered
    buffered,   \* deltas the model has not read
    finished,   \* has the generation "ended", or "failed"? "" while it has not
    parked,     \* does the model wait to be woken?
    reader,     \* the reader of this turn
    turnId, turnText, \* the turn whose text is shown, and that text
    pending,    \* calls of this turn that are not answered
    told,       \* did what the model settled reach the run?
    callKeys,   \* callKeysByToolCallId
    steps       \* the panel's steps: [key, call, shows], the calls whose results they show

streamVars == <<written, sent, buffered, finished, parked>>
eventVars  == <<turnId, turnText, callKeys, steps>>
vars == <<asked, phase, result, ticks, turn, transcript, request, streamVars, reader, eventVars, pending, told>>

Init ==
    /\ \E run \in Runs : asked = run.asked /\ transcript = run.transcript
    /\ phase = "model" /\ result = "" /\ ticks = 0 /\ turn = 0 /\ request = <<>>
    /\ written = <<>> /\ sent = 0 /\ buffered = <<>> /\ finished = "" /\ parked = FALSE
    /\ reader = CreateToolCallReader
    /\ turnId = 0 /\ turnText = <<>> /\ pending = {} /\ told = FALSE /\ callKeys = <<>> /\ steps = <<>>

--------------------------------------------------------------------------------
(* The transcript: whole rounds go, oldest first, and the last one stays.     *)

MeasureTranscript(messages) == FoldLeft(LAMBDA n, m : n + m.size, 0, messages)

RoundStarts(messages) == {i \in DOMAIN messages : messages[i].type = "ai" /\ messages[i].calls > 0}
RoundFrom(messages, i) ==
    {i} \cup {j \in (i + 1)..Len(messages) : \A k \in (i + 1)..j : messages[k].type = "tool"}

Without(messages, indexes) ==
    LET kept == SelectSeq([i \in DOMAIN messages |-> i], LAMBDA i : i \notin indexes)
    IN  [n \in DOMAIN kept |-> messages[kept[n]]]

RECURSIVE BudgetAgentTranscript(_, _), BudgetByMessage(_, _)
BudgetByMessage(messages, budget) ==
    LET results == {i \in DOMAIN messages : messages[i].type # "human"}
    IN  IF MeasureTranscript(messages) <= budget \/ Cardinality(results) <= 2 THEN messages
        ELSE BudgetByMessage(Without(messages, {Min(results)}), budget)

BudgetAgentTranscript(messages, budget) ==
    IF MeasureTranscript(messages) <= budget \/ Cardinality(RoundStarts(messages)) <= 1 THEN messages
    ELSE BudgetAgentTranscript(Without(messages, RoundFrom(messages, Min(RoundStarts(messages)))), budget)

--------------------------------------------------------------------------------
(* The engine                                                                 *)

WakeUp == parked' = FALSE

EngineDelivers(n) ==
    /\ phase = "writing" /\ finished = "" /\ Len(buffered) < MaxBuffered
    /\ n \in (DeltaSizes \cup {Len(written) - sent}) \cap 1..(Len(written) - sent)
    /\ buffered' = Append(buffered, SubSeq(written, sent + 1, sent + n)) /\ sent' = sent + n
    /\ WakeUp
    /\ UNCHANGED <<written, finished>>

EngineEndsAsleep(how) ==
    /\ phase = "writing" /\ finished = ""
    /\ how = "ended" => sent = Len(written)
    /\ finished' = how
    /\ UNCHANGED <<written, sent, buffered, parked>>

EngineEnds(how) ==
    /\ phase = "writing" /\ finished = ""
    /\ how = "ended" => sent = Len(written)
    /\ finished' = how
    /\ WakeUp
    /\ UNCHANGED <<written, sent, buffered>>

EngineStep ==
    /\ (\E n \in 1..Len(written) : EngineDelivers(n)) \/ (\E how \in {"ended", "failed"} : EngineEnds(how))
    /\ UNCHANGED <<asked, phase, result, ticks, turn, transcript, request, reader, eventVars, pending, told>>

--------------------------------------------------------------------------------
(* The model: _streamResponseChunks                                           *)

(* One tick is always spent on finding that there is no node left to run.    *)
RecursionLimitOfRounds == MaxSteps * 2 + 1
RecursionLimit == MaxSteps * 2 + 2
MayRunNode(node) == phase = node /\ ticks < RecursionLimit - 1

AskModel(reply) ==
    /\ MayRunNode("model")
    /\ ticks' = ticks + 1 /\ turn' = turn + 1 /\ phase' = "writing"
    /\ request' = BudgetAgentTranscript(transcript, TranscriptBudget)
    /\ written' = reply /\ sent' = 0 /\ buffered' = <<>> /\ finished' = "" /\ parked' = FALSE
    /\ reader' = CreateToolCallReader /\ told' = FALSE
    /\ UNCHANGED <<asked, result, transcript, eventVars, pending>>

(* readTurn: a turn that writes replaces the text of the one before it.      *)
ReadTurn(text) ==
    IF text = <<>> THEN UNCHANGED <<turnId, turnText>>
    ELSE /\ turnId' = turn
         /\ turnText' = (IF turnId = turn THEN turnText ELSE <<>>) \o text

HasToRead == phase = "writing" /\ ~parked /\ buffered # <<>>
ModelReads ==
    /\ HasToRead
    /\ reader' = Push(reader, Head(buffered)) /\ buffered' = Tail(buffered)
    /\ ReadTurn(After(reader'.text, Len(reader.text)))
    /\ UNCHANGED <<asked, phase, result, ticks, turn, transcript, request, written, sent, finished, parked,
                   callKeys, steps, pending, told>>

ModelParks ==
    /\ phase = "writing" /\ ~parked /\ buffered = <<>> /\ finished = ""
    /\ parked' = TRUE
    /\ UNCHANGED <<asked, phase, result, ticks, turn, transcript, request, written, sent, buffered, finished,
                   reader, eventVars, pending, told>>

(* What the reader held back comes out before the generation is over, even if *)
(* it failed.                                                                 *)
ModelSettles ==
    /\ phase = "writing" /\ ~parked /\ buffered = <<>> /\ finished # ""
    /\ reader' = EndReading(reader)
    /\ ReadTurn(After(reader'.text, Len(reader.text)))
    /\ \/ finished = "failed" /\ phase' = "done" /\ result' = "failed" /\ UNCHANGED <<transcript, pending>>
       \/ /\ finished = "ended"
          /\ phase' = "settled" /\ pending' = DOMAIN reader.calls
          /\ transcript' = Append(transcript, [type |-> "ai", calls |-> Len(reader.calls),
                                               size |-> 1 + Len(reader.calls), turn |-> turn])
          /\ UNCHANGED result
    /\ UNCHANGED <<asked, ticks, turn, request, streamVars, callKeys, steps, told>>

--------------------------------------------------------------------------------
(* What the run makes of the nodes: readUpdate                                *)

(* Ids are minted per turn, so they are told apart by the message they came  *)
(* on.                                                                        *)
CallKeyById(id) == <<0, id>>
CallKey(id) == <<turn, id>>

IsTold(key) == \E i \in DOMAIN steps : steps[i].key = key
NewCalls    == SelectSeq([id \in 1..Len(reader.calls) |-> id], LAMBDA id : ~IsTold(CallKey(id)))

TellCalls ==
    /\ phase = "settled"
    /\ steps' = steps \o [n \in DOMAIN NewCalls |->
                             [key |-> CallKey(NewCalls[n]), call |-> <<turn, NewCalls[n]>>, shows |-> {}]]
    /\ callKeys' = [id \in DOMAIN callKeys \cup ToSet(NewCalls) |->
                       IF id \in ToSet(NewCalls) THEN CallKey(id) ELSE callKeys[id]]
    /\ told' = TRUE
    /\ UNCHANGED <<asked, phase, result, ticks, turn, transcript, request, streamVars, reader,
                   turnId, turnText, pending>>

LeaveModel ==
    /\ phase = "settled" /\ told
    /\ IF pending = {} THEN phase' = "done" /\ result' = "answered" ELSE phase' = "call" /\ UNCHANGED result
    /\ UNCHANGED <<asked, ticks, turn, transcript, request, streamVars, reader, eventVars, pending, told>>

CallTools ==
    /\ MayRunNode("call")
    /\ ticks' = ticks + 1 /\ phase' = "tools"
    /\ UNCHANGED <<asked, result, turn, transcript, request, streamVars, reader, eventVars, pending, told>>

(* A result is shown at the step of the call it answers, once.               *)
IsAnswered(key) == \E i \in DOMAIN steps : steps[i].key = key /\ steps[i].shows # {}
TellResult(id) ==
    /\ phase = "tools" /\ id \in 1..Len(reader.calls)
    /\ pending' = pending \ {id}
    /\ steps' = IF IsAnswered(callKeys[id]) THEN steps
                ELSE [i \in DOMAIN steps |->
                         IF steps[i].key = callKeys[id] THEN [steps[i] EXCEPT !.shows = {<<turn, id>>}] ELSE steps[i]]
    /\ UNCHANGED <<asked, phase, result, ticks, turn, transcript, request, streamVars, reader,
                   turnId, turnText, callKeys, told>>

(* Results are appended in the order of their calls, whoever came first.     *)
ResultSizes == {ShortSize, WideSize}

LeaveTools ==
    /\ phase = "tools" /\ pending = {}
    /\ phase' = "model"
    /\ \E sizes \in [1..Len(reader.calls) -> ResultSizes] :
           transcript' = transcript \o
               [i \in 1..Len(reader.calls) |-> [type |-> "tool", calls |-> 0, size |-> sizes[i], turn |-> turn]]
    /\ UNCHANGED <<asked, result, ticks, turn, request, streamVars, reader, eventVars, pending, told>>

StopAtLimit ==
    /\ phase \in {"model", "call"} /\ ~MayRunNode(phase)
    /\ phase' = "done" /\ result' = "stopped"
    /\ UNCHANGED <<asked, ticks, turn, transcript, request, streamVars, reader, eventVars, pending, told>>

RunStep ==
    \/ \E reply \in Replies : AskModel(reply)
    \/ ModelParks \/ ModelSettles
    \/ TellCalls \/ LeaveModel \/ CallTools \/ LeaveTools \/ StopAtLimit
    \/ \E id \in 1..Len(reader.calls) : TellResult(id)

(* The signal, or a panel that has seen enough and throws. *)
Abandon ==
    /\ phase # "done"
    /\ phase' = "done" /\ result' = "abandoned"
    /\ UNCHANGED <<asked, ticks, turn, transcript, request, streamVars, reader, eventVars, pending, told>>

Next == EngineStep \/ RunStep \/ ModelReads \/ Abandon

(* The engine goes on, and so does the run.  That ModelReads is weakly fair   *)
(* is said with its condition, which TLC finds faster than whether it is      *)
(* ENABLED.                                                                   *)
Spec ==
    /\ Init /\ [][Next]_vars
    /\ WF_vars(EngineStep) /\ WF_vars(RunStep)
    /\ []<>~HasToRead \/ []<><<ModelReads>>_vars

--------------------------------------------------------------------------------
(* Properties                                                                 *)

(* Cut into pieces anywhere, a reply reads as it would in one: nothing is     *)
(* lost, shown twice or out of order, what is shown is of this turn, and the  *)
(* first block that is a call is called (web-llm-langchain.ts:592, 759).      *)
RepliesReadWhole ==
    /\ phase = "writing" => PutBack(reader) \o Held(reader) = First(written, sent - Len(FlattenSeq(buffered)))
    /\ phase = "settled" =>
           /\ PutBack(reader) = written
           /\ reader.text = ReadAtOnce(written).text /\ reader.calls = ReadAtOnce(written).calls
           /\ IsFirstBlockACall(written) => reader.calls # <<>> /\ reader.calls[1].raw = FirstBlock(written)
           /\ turnId = turn \/ reader.text # <<>> => turnId = turn /\ turnText = reader.text

(* A prompt keeps what was said, and each call with all its results or not at *)
(* all: the newest rounds that fit, and the last one though it does not       *)
(* (graph-agent-run.ts:171).                                                  *)
RequestsHoldWholeRounds ==
    phase = "writing" =>
        LET kept == {m.turn : m \in ToSet(request)} \ {0}
        IN  /\ request = SelectSeq(transcript, LAMBDA m : m.turn = 0 \/ m.turn \in kept)
            /\ \A t \in kept : t..(turn - 1) \subseteq kept
            /\ turn - 1 \in kept \cup {0}
            /\ MeasureTranscript(request) <= TranscriptBudget \/ kept \subseteq {turn - 1}
            /\ \A t \in 1..(turn - 1) \ kept :
                   MeasureTranscript(SelectSeq(transcript, LAMBDA m : m.turn = 0 \/ m.turn >= t)) > TranscriptBudget

(* Every call is a step of its own in the panel, and gets its own result,     *)
(* though ids come again with every turn and LangGraph may tell of a node     *)
(* twice (graph-agent-run.ts:361, panel 1255).                                *)
StepsShowTheirResults ==
    /\ \A i, j \in DOMAIN steps : steps[i].key = steps[j].key \/ steps[i].call = steps[j].call => i = j
    /\ \A i \in DOMAIN steps : steps[i].shows \subseteq {steps[i].call}
    /\ phase = "model" => \A t \in ToSet(transcript) : t.type = "ai" =>
           \A id \in 1..t.calls : \E i \in DOMAIN steps : steps[i].call = <<t.turn, id>> /\ steps[i].shows # {}

(* A run is stopped for want of an answer only when the model calls yet again *)
(* after MaxSteps rounds were answered (graph-agent-run.ts:421); and it ends, *)
(* whenever the model waits and the engine delivers, ends or fails            *)
(* (web-llm-langchain.ts:1040).                                               *)
RunsEndInTime ==
    /\ [](result = "stopped" =>
            /\ Last(transcript).calls > 0
            /\ Cardinality({m.turn : m \in {x \in ToSet(transcript) : x.type = "tool"}}) = MaxSteps)
    /\ <>(phase = "done")

AllNames(g) == ListModules(g) \cup LookupNames(g)
Tools       == {"describe_module", "find_provider", "trace_dependencies"}

RepliesOf(g) == [call \in (Tools \cup {"search_graph"}) \X (Queries \cup AllNames(g)) |-> Reply(g, call[1], call[2])]
LandsAt(replies, r, n) ==
    LET s == replies[<<r.tool, n>>]
    IN  \/ s = Says("answer", r.tool, {n})
        \/ s.kind = "redirect" /\ replies[<<s.tool, n>>] = Says("answer", s.tool, {n})

(* A lookup is never a dead end: what it says to ask instead, or suggests, is *)
(* answered at once or one step on, and a name that is spelled as just one    *)
(* name is, is never taken for another (graph-agent-tools.ts:15, 251).        *)
LookupsLand ==
    phase = "model" /\ turn = 0 =>
        \A replies \in {RepliesOf(Graphs[asked])}, names \in {AllNames(Graphs[asked])} :
            /\ \A call \in DOMAIN replies : \A n \in replies[call].names : LandsAt(replies, replies[call], n)
            /\ \A q \in Queries : \A spelled \in {{n \in names : Normalize(n) = Normalize(q)}} :
                   Cardinality(spelled) = 1 =>
                       \A tool \in Tools : replies[<<tool, q>>].kind \in {"answer", "redirect"} /\ replies[<<tool, q>>].names = spelled

(* The links of the dependency tree under a node, cut or not. *)
Dependencies(g) ==
    UNION {UNION {{<<<<m, i.name>>, <<d.providedBy, d.token>>>> : d \in ToSet(i.dependencies)} :
                      i \in Declared(g, m)} : m \in ListModules(g)}
RECURSIVE Reached(_, _)
Reached(links, nodes) ==
    LET more == nodes \cup {l[2] : l \in {x \in links : x[1] \in nodes}}
    IN  IF more = nodes THEN nodes ELSE Reached(links, more)
NodesAfter(links, node) == Reached(links, {l[2] : l \in {x \in links : x[1] = node}})

(* A link is marked circular only where it closes a circle, and no circle is  *)
(* left without a mark, nor a dependency without a line, in a tree that was   *)
(* not cut (graph-agent-tools.ts:700).                                        *)
TraceMarksCycles ==
    phase = "model" /\ turn = 0 =>
        \A name \in InjectableNames(Graphs[asked]), depth \in 0..(MaxTraceDepth + 1) :
            LET t      == TraceDependencies(Graphs[asked], name, depth)
                links  == Dependencies(Graphs[asked])
                marked == {<<l.from, l.node>> : l \in {x \in ToSet(t.lines) : x.note = "circular"}}
                start  == t.lines[1].node
                below  == Reached(links, {start})
            IN  /\ marked \subseteq links /\ \A l \in marked : l[1] \in Reached(links, {l[2]})
                /\ ~t.truncated /\ (\A l \in ToSet(t.lines) : l.note # "depth limit") =>
                       /\ {l.node : l \in ToSet(t.lines)} = below
                       /\ \A n \in below : n \notin NodesAfter(links \ marked, n)

(* The tools answer: no lookup is a dead end, and no trace is wrong about a   *)
(* circle.                                                                    *)
ToolsAnswer == LookupsLand /\ TraceMarksCycles
=============================================================================
