--------------------------- MODULE ChatPanelProofs ---------------------------
(***************************************************************************)
(* What holds of the chat for any models, and however often the visitor    *)
(* does what: one worker, an answer about the graph that was asked about,  *)
(* a notice on every answer that was cut short, and a list of models in    *)
(* every wide panel.                                                       *)
(***************************************************************************)
EXTENDS ChatPanel, Integers, TLAPS

Over     == {"done", "lost"}
Places   == {"fetch", "load", "turn", "reload", "queue", "decode", "drain", "drained", "cut"} \cup Over
Ends     == {"", "answered", "failed", "changed", "stopped"}
JobKinds == {"probe", "read", "remove", "reread"}
Choices  == Models \cup {NoModel}

Run == [pc : Places, agent : BOOLEAN, asked : Nat, context : Nat, model : Choices, attempt : {1, 2},
        turns : Nat, bubble : Nat, interrupted : BOOLEAN, cut : BOOLEAN]
Bubble == [of : Nat, end : Ends]
Load   == [by : Nat, model : Models, fresh : BOOLEAN]

EngineTypes ==
    /\ narrow \in BOOLEAN /\ engine \in BOOLEAN /\ generating \in BOOLEAN
    /\ resident \in Choices /\ preparing \in Choices /\ lock \in Nat
    /\ loads \in SUBSET Load /\ threads \in Int
    /\ disk \in SUBSET Models /\ cached \in SUBSET Models

PanelTypes ==
    /\ runs \in Seq(Run) /\ transcript \in Seq(Bubble)
    /\ active \in Nat /\ loading \in BOOLEAN
    /\ mounted \in BOOLEAN /\ chosen \in Choices /\ removing \in Choices
    /\ revision \in Nat /\ moves \in [MoveKinds -> Nat] /\ moves.restart <= Budget.restart

(* While the panel is open there is one load at most, and a worker of its  *)
(* own only where there is no engine.                                      *)
WorkerInv == mounted =>
    \/ loads = {} /\ preparing = NoModel /\ threads = (IF engine THEN 1 ELSE 0)
    \/ \E l \in loads : loads = {l} /\ preparing = l.model /\ l.fresh = ~engine /\ threads = 1

(* A list that is owed is asked for.                                       *)
CatalogInv ==
    /\ jobs \in [JobKinds -> Nat] /\ checked \in BOOLEAN /\ supported \in BOOLEAN
    /\ listed \in BOOLEAN /\ reading \in BOOLEAN /\ readFailed \in BOOLEAN
    /\ reading => jobs.read > 0 \/ jobs.reread > 0
    /\ ~checked /\ jobs.probe = 0 => narrow /\ ~reading /\ jobs.remove = 0
    /\ ~narrow /\ supported /\ ~listed /\ ~readFailed =>
          jobs.probe > 0 \/ jobs.read > 0 \/ jobs.reread > 0

(* Who a load is for, and who holds the model.                             *)
LockInv ==
    /\ \A l \in loads : l.by # 0 => /\ l.by \in DOMAIN runs /\ lock # l.by
                                    /\ runs[l.by].pc \in {"load", "reload", "cut"}
    /\ \A l, m \in loads : l.by = m.by /\ l.by # 0 => l = m
    /\ lock # 0 => lock \in DOMAIN runs /\ runs[lock].pc \in {"decode", "drain", "cut"}
    /\ mounted => \A r \in DOMAIN runs : runs[r].pc \in {"load", "reload"} => \E l \in loads : l.by = r
    /\ active # 0 => active \in DOMAIN runs /\ loading

(* Until the chat is restarted, the one run that is not over is in charge  *)
(* and is seen to generate.                                                *)
Unbroken == moves.restart = Budget.restart

ChargeInv == Unbroken /\ mounted =>
    /\ \A q, r \in DOMAIN runs : runs[q].pc \notin Over /\ runs[r].pc \notin Over => q = r
    /\ \A r \in DOMAIN runs : runs[r].pc \notin Over \cup {"cut"} => active = r
    /\ \A r \in DOMAIN runs :
          /\ runs[r].pc \in {"queue", "decode", "drain", "drained"} => generating
          /\ runs[r].pc = "cut" => generating \/ \E l \in loads : l.by = r

(* A run that was cut knows it, or has nothing more to say.                *)
CutInv == Unbroken =>
    /\ Len(transcript) = Len(runs)
    /\ \A r \in DOMAIN runs : runs[r].bubble = r /\ transcript[r].of = r
    /\ \A r \in DOMAIN runs : runs[r].cut => runs[r].interrupted \/ runs[r].pc \in Over \cup {"cut"}
    /\ \A r \in DOMAIN runs : transcript[r].end = "answered" => runs[r].pc = "done" /\ ~runs[r].cut

Inv == /\ EngineTypes /\ PanelTypes /\ WorkerInv /\ CatalogInv /\ LockInv /\ ChargeInv /\ CutInv
       /\ AnswersTheAskedGraph

-----------------------------------------------------------------------------
(* What a step of a run does to the runs, and to the shared state.         *)
Moved(r, p) ==
    /\ runs' \in Seq(Run) /\ Len(runs') = Len(runs) /\ DOMAIN runs' = DOMAIN runs
    /\ \A q \in DOMAIN runs : q # r => runs'[q] = runs[q]
    /\ runs'[r].pc = p
    /\ runs'[r].bubble = runs[r].bubble /\ runs'[r].cut = runs[r].cut
    /\ runs'[r].interrupted = runs[r].interrupted
    /\ runs'[r].asked = runs[r].asked
    /\ runs'[r].context \in {runs[r].context, runs[r].asked}

Kept == active' = active /\ loading' = loading /\ transcript' = transcript

Closed(r, ends) ==
    /\ active = r => active' = 0 /\ loading' = FALSE
    /\ active # r => active' = active /\ loading' = loading
    /\ transcript' \in Seq(Bubble) /\ Len(transcript') = Len(transcript)
    /\ DOMAIN transcript' = DOMAIN transcript
    /\ \A b \in DOMAIN transcript :
          /\ transcript'[b].of = transcript[b].of
          /\ b # runs[r].bubble => transcript'[b] = transcript[b]
          /\ transcript'[b].end \in {transcript[b].end} \cup ends

LoadsOf(r)  == {l \in loads : l.by = r}
Live        == Places \ (Over \cup {"cut"})
Generates   == {"queue", "decode", "drain", "drained"}

LEMMA Numbers == 0 \in Nat /\ Budget \in [MoveKinds -> Nat] /\ ~(NoModel \in Models)
BY PanelAssumption, EngineAssumption

LEMMA SeqExcept ==
    ASSUME NEW S, NEW s \in Seq(S), NEW i \in DOMAIN s, NEW x \in S
    PROVE  /\ [s EXCEPT ![i] = x] \in Seq(S) /\ Len([s EXCEPT ![i] = x]) = Len(s)
           /\ DOMAIN s = 1..Len(s) /\ DOMAIN [s EXCEPT ![i] = x] = DOMAIN s
           /\ [s EXCEPT ![i] = x][i] = x
           /\ \A j \in DOMAIN s : j # i => [s EXCEPT ![i] = x][j] = s[j]
<1> DEFINE t == [j \in 1..Len(s) |-> IF j = i THEN x ELSE s[j]]
<1>1. [s EXCEPT ![i] = x] = t /\ DOMAIN s = 1..Len(s)
  OBVIOUS
<1>2. t \in Seq(S) /\ Len(t) = Len(s)
  OBVIOUS
<1> QED
  BY <1>1, <1>2

LEMMA GoesMoves ==
    ASSUME PanelTypes, NEW r \in DOMAIN runs, NEW run \in Run, Goes(r, run),
           run.bubble = runs[r].bubble, run.cut = runs[r].cut,
           run.interrupted = runs[r].interrupted, run.asked = runs[r].asked,
           run.context \in {runs[r].context, runs[r].asked}
    PROVE  Moved(r, run.pc)
<1>1. runs \in Seq(Run)
  BY DEF PanelTypes
<1>2. runs' = [runs EXCEPT ![r] = run]
  BY DEF Goes
<1> QED
  BY <1>1, <1>2, SeqExcept DEF Moved

LEMMA EndRunCloses ==
    ASSUME PanelTypes, NEW r \in DOMAIN runs, NEW run \in Run, NEW end \in Ends \cup {"none"},
           NEW signal, EndRun(r, run, end, signal), run.bubble = runs[r].bubble
    PROVE  Closed(r, {end} \ {"none"})
<1>1. CASE end = "none" \/ run.bubble \notin DOMAIN transcript
  BY <1>1 DEF PanelTypes, EndRun, Write, Closed
<1>2. CASE end # "none" /\ run.bubble \in DOMAIN transcript
  <2>1. transcript' = [transcript EXCEPT ![run.bubble] = [@ EXCEPT !.end = end]]
    BY <1>2 DEF EndRun, Write
  <2>2. transcript[run.bubble] \in Bubble /\ end \in Ends
    BY <1>2 DEF PanelTypes
  <2>3. [transcript[run.bubble] EXCEPT !.end = end] \in Bubble
    BY <2>2 DEF Bubble
  <2>4. /\ [transcript[run.bubble] EXCEPT !.end = end].of = transcript[run.bubble].of
        /\ [transcript[run.bubble] EXCEPT !.end = end].end = end
    BY <2>2 DEF Bubble
  <2> QED
    BY <1>2, <2>1, <2>3, <2>4, SeqExcept DEF PanelTypes, EndRun, Closed
<1> QED
  BY <1>1, <1>2

-----------------------------------------------------------------------------
(* Fetched, a next turn and a retry each end the run, or leave it between  *)
(* turns, waiting for the model's lock, or waiting for a load of its own.  *)
Outcome(r) ==
    \/ Moved(r, "done") /\ Closed(r, {"failed", "changed"}) /\ UNCHANGED loadVars
    \/ Moved(r, "turn") /\ Kept /\ UNCHANGED loadVars
    \/ Moved(r, "queue") /\ Kept /\ UNCHANGED loadVars /\ generating' = TRUE
    \/ \E m \in Models, p \in {"load", "reload"} :
          Moved(r, p) /\ Kept /\ MayLoad /\ StartLoad(r, m)

SameRun(r, run) ==
    /\ run.bubble = runs[r].bubble /\ run.cut = runs[r].cut
    /\ run.interrupted = runs[r].interrupted /\ run.asked = runs[r].asked
    /\ run.context \in {runs[r].context, runs[r].asked}

LEMMA ClosedFailed ==
    ASSUME NEW r, NEW end \in {"failed", "changed"}, Closed(r, {end} \ {"none"})
    PROVE  Closed(r, {"failed", "changed"})
BY DEF Closed

LEMMA StreamOutcome ==
    ASSUME PanelTypes, NEW r \in DOMAIN runs, NEW run \in Run, SameRun(r, run),
           NEW signal, NEW busy \in BOOLEAN, StreamChat(r, run, signal, busy)
    PROVE  Outcome(r) /\ generating' \in BOOLEAN
<1>1. ASSUME NEW p \in Places, Goes(r, [run EXCEPT !.pc = p]) PROVE Moved(r, p)
  <2>1. /\ [run EXCEPT !.pc = p] \in Run /\ [run EXCEPT !.pc = p].pc = p
        /\ SameRun(r, [run EXCEPT !.pc = p])
    BY DEF Run, SameRun
  <2> QED
    BY <1>1, <2>1, GoesMoves DEF SameRun
<1>2. CASE EndRun(r, Done(run), "failed", signal) /\ generating' = busy /\ UNCHANGED loadVars
  <2>1. Done(run) \in Run /\ Done(run).bubble = runs[r].bubble
    BY DEF Run, Done, SameRun, Places, Over
  <2>2. Closed(r, {"failed", "changed"})
    BY <1>2, <2>1, EndRunCloses, ClosedFailed DEF Ends
  <2>3. Moved(r, "done")
    BY <1>1, <1>2 DEF EndRun, Done, Places, Over
  <2> QED
    BY <1>2, <2>2, <2>3 DEF Outcome
<1>3. CASE /\ Waits(r, [run EXCEPT !.pc = "queue"], signal)
           /\ generating' = TRUE /\ UNCHANGED loadVars
  <2>1. Moved(r, "queue")
    BY <1>1, <1>3 DEF Waits, Places
  <2> QED
    BY <1>3, <2>1 DEF Outcome, Waits, Kept
<1>4. CASE /\ run.model # NoModel /\ MayLoad /\ StartLoad(r, run.model)
           /\ Waits(r, [run EXCEPT !.pc = "reload"], signal) /\ generating' = busy
  <2>1. Moved(r, "reload")
    BY <1>1, <1>4 DEF Waits, Places
  <2>2. run.model \in Models
    BY <1>4 DEF Run, Choices
  <2> QED
    BY <1>4, <2>1, <2>2 DEF Outcome, Waits, Kept
<1> QED
  BY <1>2, <1>3, <1>4 DEF StreamChat

LEMMA TurnOutcome ==
    ASSUME PanelTypes, NEW r \in DOMAIN runs, NEW run \in Run, SameRun(r, run),
           NEW signal, NEW busy \in BOOLEAN, StartTurn(r, run, signal, busy)
    PROVE  Outcome(r) /\ generating' \in BOOLEAN
<1>1. CASE StartAgent(r, run, busy) /\ UNCHANGED loadVars
  <2> DEFINE next == [run EXCEPT !.pc = "turn", !.turns = 1]
  <2>1. next \in Run /\ next.pc = "turn" /\ SameRun(r, next)
    BY DEF Run, SameRun, Places
  <2>2. Goes(r, next)
    BY <1>1 DEF StartAgent
  <2> HIDE DEF next
  <2>3. Moved(r, "turn")
    BY <2>1, <2>2, GoesMoves DEF SameRun
  <2> QED
    BY <1>1, <2>3 DEF StartAgent, Outcome, Kept
<1>2. CASE StreamChat(r, run, signal, busy)
  BY <1>2, StreamOutcome
<1> QED
  BY <1>1, <1>2 DEF StartTurn

LEMMA TypesKept ==
    ASSUME PanelTypes, AnswersTheAskedGraph, NEW r \in DOMAIN runs, NEW p, Moved(r, p),
           Kept \/ \E ends \in SUBSET Ends : Closed(r, ends), UNCHANGED panelVars
    PROVE  PanelTypes' /\ AnswersTheAskedGraph'
<1>1. transcript' \in Seq(Bubble)
  BY DEF PanelTypes, Kept, Closed
<1>2. active' \in Nat /\ loading' \in BOOLEAN
  <2>1. active' \in {0, active} /\ loading' \in {FALSE, loading}
    BY DEF Kept, Closed
  <2>2. active' \in Nat
    BY <2>1, Numbers DEF PanelTypes
  <2>3. loading \in BOOLEAN
    BY DEF PanelTypes
  <2> QED
    BY <2>1, <2>2, <2>3
<1>3. PanelTypes'
  BY <1>1, <1>2 DEF PanelTypes, Moved, panelVars
<1>4. AnswersTheAskedGraph'
  BY DEF AnswersTheAskedGraph, Moved
<1> QED
  BY <1>3, <1>4

(* A run ends.                                                             *)
LEMMA EndingKeeps ==
    ASSUME PanelTypes, LockInv, ChargeInv, CutInv, NEW r \in DOMAIN runs, runs[r].pc \notin Over,
           NEW ends \in SUBSET Ends, Moved(r, "done"), Closed(r, ends),
           "answered" \in ends /\ Unbroken => ~runs[r].cut,
           lock' \in {0, lock} \ {r}, loads' = loads \ LoadsOf(r), UNCHANGED panelVars
    PROVE  LockInv' /\ ChargeInv' /\ CutInv'
<1>0. active # 0 => active \in DOMAIN runs /\ loading
  BY DEF LockInv
<1>1. LockInv'
  <2>1. \A l \in loads' : l.by # 0 => /\ l.by \in DOMAIN runs' /\ lock' # l.by
                                       /\ runs'[l.by].pc \in {"load", "reload", "cut"}
    BY DEF LockInv, Moved, LoadsOf
  <2>2. lock' # 0 => lock' \in DOMAIN runs' /\ runs'[lock'].pc \in {"decode", "drain", "cut"}
    BY DEF LockInv, Moved
  <2>3. mounted' => \A q \in DOMAIN runs' : runs'[q].pc \in {"load", "reload"} => \E l \in loads' : l.by = q
    BY DEF LockInv, Moved, LoadsOf, panelVars
  <2>4. active' # 0 => active' \in DOMAIN runs' /\ loading'
    BY <1>0 DEF Moved, Closed
  <2>5. \A l, m \in loads' : l.by = m.by /\ l.by # 0 => l = m
    BY DEF LockInv
  <2> QED
    BY <2>1, <2>2, <2>3, <2>4, <2>5 DEF LockInv
<1>2. ChargeInv'
  BY DEF ChargeInv, Unbroken, Moved, Over, panelVars
<1>3. CutInv'
  <2> SUFFICES ASSUME Unbroken PROVE CutInv'
    BY DEF CutInv, Unbroken, panelVars
  <2>1. Len(transcript') = Len(runs') /\ DOMAIN runs' = DOMAIN transcript' /\ DOMAIN runs = DOMAIN transcript
    BY DEF CutInv, PanelTypes, Moved, Closed
  <2>2. \A q \in DOMAIN runs' : runs'[q].bubble = q /\ transcript'[q].of = q
    BY <2>1 DEF CutInv, Moved, Closed
  <2>3. \A q \in DOMAIN runs' : runs'[q].cut => runs'[q].interrupted \/ runs'[q].pc \in Over \cup {"cut"}
    BY DEF CutInv, Moved, Over
  <2>4. \A q \in DOMAIN runs' : transcript'[q].end = "answered" => runs'[q].pc = "done" /\ ~runs'[q].cut
    <3> SUFFICES ASSUME NEW q \in DOMAIN runs, transcript'[q].end = "answered"
                 PROVE  runs'[q].pc = "done" /\ ~runs'[q].cut
      BY DEF Moved
    <3>1. CASE q # r
      BY <2>1, <3>1 DEF CutInv, Moved, Closed
    <3>2. CASE q = r
      BY <2>1, <3>2 DEF CutInv, Moved, Closed
    <3> QED
      BY <3>1, <3>2
  <2> QED
    BY <2>1, <2>2, <2>3, <2>4 DEF CutInv
<1> QED
  BY <1>1, <1>2, <1>3

(* A run that is over for its visitor, and not for its worker.             *)
LEMMA CuttingKeeps ==
    ASSUME PanelTypes, LockInv, ChargeInv, CutInv, NEW r \in DOMAIN runs,
           runs[r].pc \in {"reload", "queue", "decode"},
           NEW ends \in SUBSET Ends, Moved(r, "cut"), Closed(r, ends), "answered" \notin ends,
           UNCHANGED <<lock, loads, generating, panelVars>>
    PROVE  LockInv' /\ ChargeInv' /\ CutInv'
<1>0. active # 0 => active \in DOMAIN runs /\ loading
  BY DEF LockInv
<1>1. LockInv'
  <2>1. \A l \in loads' : l.by # 0 => /\ l.by \in DOMAIN runs' /\ lock' # l.by
                                       /\ runs'[l.by].pc \in {"load", "reload", "cut"}
    BY DEF LockInv, Moved
  <2>2. lock' # 0 => lock' \in DOMAIN runs' /\ runs'[lock'].pc \in {"decode", "drain", "cut"}
    BY DEF LockInv, Moved
  <2>3. mounted' => \A q \in DOMAIN runs' : runs'[q].pc \in {"load", "reload"} => \E l \in loads' : l.by = q
    BY DEF LockInv, Moved, panelVars
  <2>4. active' # 0 => active' \in DOMAIN runs' /\ loading'
    BY <1>0 DEF Moved, Closed
  <2>5. \A l, m \in loads' : l.by = m.by /\ l.by # 0 => l = m
    BY DEF LockInv
  <2> QED
    BY <2>1, <2>2, <2>3, <2>4, <2>5 DEF LockInv
<1>2. ChargeInv'
  <2> SUFFICES ASSUME Unbroken, mounted PROVE ChargeInv'
    BY DEF ChargeInv, Unbroken, panelVars
  <2>1. \A q \in DOMAIN runs : q # r => runs[q].pc \in Over
    BY DEF ChargeInv, Over
  <2>2. generating \/ \E l \in loads : l.by = r
    BY DEF ChargeInv, LockInv
  <2> QED
    BY <2>1, <2>2 DEF ChargeInv, Moved, Over
<1>3. CutInv'
  <2> SUFFICES ASSUME Unbroken PROVE CutInv'
    BY DEF CutInv, Unbroken, panelVars
  <2>1. Len(transcript') = Len(runs') /\ DOMAIN runs' = DOMAIN transcript' /\ DOMAIN runs = DOMAIN transcript
    BY DEF CutInv, PanelTypes, Moved, Closed
  <2>2. \A q \in DOMAIN runs' : runs'[q].bubble = q /\ transcript'[q].of = q
    BY <2>1 DEF CutInv, Moved, Closed
  <2>3. \A q \in DOMAIN runs' : runs'[q].cut => runs'[q].interrupted \/ runs'[q].pc \in Over \cup {"cut"}
    BY DEF CutInv, Moved, Over
  <2>4. \A q \in DOMAIN runs' : transcript'[q].end = "answered" => runs'[q].pc = "done" /\ ~runs'[q].cut
    BY <2>1 DEF CutInv, Moved, Closed
  <2> QED
    BY <2>1, <2>2, <2>3, <2>4 DEF CutInv
<1> QED
  BY <1>1, <1>2, <1>3

(* A run goes on, to wait for something else.                              *)
LEMMA ShiftKeeps ==
    ASSUME PanelTypes, LockInv, ChargeInv, CutInv, NEW r \in DOMAIN runs, runs[r].pc \notin Over,
           NEW p \in Places \ Over, Moved(r, p), Kept, UNCHANGED panelVars,
           p = "cut" <=> runs[r].pc = "cut",
           Unbroken /\ mounted /\ p \in Generates => generating',
           Unbroken /\ mounted /\ p = "cut" => generating' \/ \E l \in loads' : l.by = r,
           mounted /\ p \in {"load", "reload"} => \E l \in loads' : l.by = r,
           \A l \in loads : l.by # r => l \in loads',
           \A l \in loads' : l.by # r => l \in loads,
           \A l \in loads' : l.by = r => p \in {"load", "reload", "cut"} /\ lock' # r,
           \A l, m \in loads' : l.by = r /\ m.by = r => l = m,
           lock' \in {0, lock, r}, lock' = r => p \in {"decode", "drain", "cut"}
    PROVE  LockInv' /\ ChargeInv' /\ CutInv'
<1>1. LockInv'
  <2>1. \A l \in loads' : l.by # 0 => /\ l.by \in DOMAIN runs' /\ lock' # l.by
                                       /\ runs'[l.by].pc \in {"load", "reload", "cut"}
    <3> SUFFICES ASSUME NEW l \in loads', l.by # 0
                 PROVE  /\ l.by \in DOMAIN runs' /\ lock' # l.by
                        /\ runs'[l.by].pc \in {"load", "reload", "cut"}
      OBVIOUS
    <3>1. CASE l.by = r
      BY <3>1 DEF Moved
    <3>2. CASE l.by # r
      BY <3>2 DEF LockInv, Moved
    <3> QED
      BY <3>1, <3>2
  <2>2. lock' # 0 => lock' \in DOMAIN runs' /\ runs'[lock'].pc \in {"decode", "drain", "cut"}
    BY DEF LockInv, Moved
  <2>3. mounted' => \A q \in DOMAIN runs' : runs'[q].pc \in {"load", "reload"} => \E l \in loads' : l.by = q
    BY DEF LockInv, Moved, panelVars
  <2>4. active' # 0 => active' \in DOMAIN runs' /\ loading'
    BY DEF LockInv, Moved, Kept
  <2>5. \A l, m \in loads' : l.by = m.by /\ l.by # 0 => l = m
    BY DEF LockInv
  <2> QED
    BY <2>1, <2>2, <2>3, <2>4, <2>5 DEF LockInv
<1>2. ChargeInv'
  <2> SUFFICES ASSUME Unbroken, mounted PROVE ChargeInv'
    BY DEF ChargeInv, Unbroken, panelVars
  <2>1. \A q \in DOMAIN runs : q # r => runs[q].pc \in Over
    BY DEF ChargeInv
  <2>2. p # "cut" => active = r
    BY DEF ChargeInv
  <2> QED
    BY <2>1, <2>2 DEF ChargeInv, Moved, Kept, Over, Generates
<1>3. CutInv'
  <2> SUFFICES ASSUME Unbroken PROVE CutInv'
    BY DEF CutInv, Unbroken, panelVars
  <2>1. Len(transcript') = Len(runs') /\ DOMAIN runs' = DOMAIN runs /\ transcript' = transcript
    BY DEF CutInv, Moved, Kept
  <2>2. \A q \in DOMAIN runs :
          /\ runs'[q].bubble = runs[q].bubble /\ runs'[q].cut = runs[q].cut
          /\ runs'[q].interrupted = runs[q].interrupted
          /\ q # r => runs'[q].pc = runs[q].pc
    BY DEF Moved
  <2>3. runs[r].cut => runs[r].interrupted \/ p = "cut"
    BY DEF CutInv
  <2>4. transcript[r].end # "answered"
    BY DEF CutInv, Over
  <2> QED
    BY <2>1, <2>2, <2>3, <2>4 DEF CutInv, Moved
<1> QED
  BY <1>1, <1>2, <1>3

-----------------------------------------------------------------------------
(* The engine's part of a step of a run.                                   *)
LEMMA EngineHeld ==
    ASSUME Inv, NEW r \in Nat, UNCHANGED <<narrow, catalogVars, mounted, checked, jobs>>,
           generating' \in BOOLEAN, lock' \in {0, lock, r},
           \/ UNCHANGED loadVars
           \/ \E m \in Models : MayLoad /\ StartLoad(r, m)
    PROVE  EngineTypes' /\ WorkerInv' /\ CatalogInv'
<1>1. CatalogInv'
  BY DEF Inv, CatalogInv, catalogVars
<1>2. CASE UNCHANGED loadVars
  <2>1. EngineTypes'
    BY <1>2 DEF Inv, EngineTypes, loadVars, catalogVars
  <2>2. WorkerInv'
    BY <1>2 DEF Inv, WorkerInv, loadVars
  <2> QED
    BY <1>1, <2>1, <2>2
<1>3. ASSUME NEW m \in Models, MayLoad, StartLoad(r, m)
      PROVE  EngineTypes' /\ WorkerInv'
  <2> DEFINE new == [by |-> r, model |-> m, fresh |-> ~engine]
  <2>1. new \in Load /\ new.by = r /\ new.model = m /\ new.fresh = ~engine
    BY DEF Inv, EngineTypes, Load
  <2>2. loads' = loads \cup {new}
    BY <1>3 DEF StartLoad
  <2> HIDE DEF new
  <2>3. EngineTypes'
    BY <1>3, <2>1, <2>2, Numbers DEF Inv, EngineTypes, StartLoad, Choices, catalogVars
  <2>4. WorkerInv'
    <3> SUFFICES ASSUME mounted PROVE WorkerInv'
      BY DEF WorkerInv
    <3>1. loads = {} /\ threads = (IF engine THEN 1 ELSE 0)
      BY <1>3, Numbers DEF Inv, WorkerInv, EngineTypes, MayLoad, Load
    <3>2. loads' = {new} /\ threads' = 1 /\ preparing' = m /\ engine' = engine
      BY <1>3, <2>2, <3>1 DEF StartLoad
    <3> QED
      BY <2>1, <3>2 DEF WorkerInv
  <2> QED
    BY <2>3, <2>4
<1> QED
  BY <1>1, <1>2, <1>3

LEMMA EngineKept ==
    ASSUME Inv, NEW r \in Nat, UNCHANGED <<narrow, catalogVars, panelVars>>,
           generating' \in BOOLEAN, lock' \in {0, lock, r},
           \/ UNCHANGED loadVars
           \/ \E m \in Models : MayLoad /\ StartLoad(r, m)
    PROVE  EngineTypes' /\ WorkerInv' /\ CatalogInv'
BY EngineHeld DEF panelVars

LEMMA OutcomeKeeps ==
    ASSUME Inv, NEW r \in DOMAIN runs, runs[r].pc \in {"fetch", "turn", "drained"},
           Outcome(r), generating' \in BOOLEAN, lock' = lock,
           UNCHANGED <<narrow, catalogVars, panelVars>>
    PROVE  Inv'
<1>0. r \in Nat /\ runs[r].pc \notin Over /\ runs[r].pc # "cut" /\ lock # r /\ \A l \in loads : l.by # r
  <2>1. r \in Nat /\ r # 0
    BY DEF Inv, PanelTypes
  <2>2. runs[r].pc \notin Over /\ runs[r].pc # "cut"
    BY DEF Over
  <2>3. lock # r /\ \A l \in loads : l.by # r
    BY <2>1 DEF Inv, LockInv
  <2> QED
    BY <2>1, <2>2, <2>3
<1>1. EngineTypes' /\ WorkerInv' /\ CatalogInv'
  BY <1>0, EngineKept DEF Outcome
<1>2. PanelTypes' /\ AnswersTheAskedGraph'
  <2>1. \E p : Moved(r, p) /\ (Kept \/ Closed(r, {"failed", "changed"}))
    BY DEF Outcome
  <2>2. {"failed", "changed"} \in SUBSET Ends
    BY DEF Ends
  <2> QED
    BY <2>1, <2>2, TypesKept DEF Inv
<1>3. CASE Moved(r, "done") /\ Closed(r, {"failed", "changed"}) /\ UNCHANGED loadVars
  <2>1. {"failed", "changed"} \in SUBSET Ends /\ "answered" \notin {"failed", "changed"}
    BY DEF Ends
  <2>2. loads' = loads \ LoadsOf(r) /\ lock' \in {0, lock} \ {r}
    BY <1>0, <1>3 DEF loadVars, LoadsOf
  <2>3. LockInv' /\ ChargeInv' /\ CutInv'
    BY <1>0, <1>3, <2>1, <2>2, EndingKeeps DEF Inv
  <2> QED
    BY <1>1, <1>2, <2>3 DEF Inv
<1>4. ASSUME NEW p \in {"turn", "queue"}, Moved(r, p), Kept, UNCHANGED loadVars,
             p = "queue" => generating' = TRUE
      PROVE  LockInv' /\ ChargeInv' /\ CutInv'
  <2>1. p \in Places \ Over /\ p # "cut"
    BY DEF Places, Over
  <2>2. loads' = loads
    BY <1>4 DEF loadVars
  <2> QED
    BY <1>0, <1>4, <2>1, <2>2, ShiftKeeps DEF Inv, Generates
<1>5. ASSUME NEW m \in Models, NEW p \in {"load", "reload"}, Moved(r, p), Kept, StartLoad(r, m)
      PROVE  LockInv' /\ ChargeInv' /\ CutInv'
  <2>1. p \in Places \ Over /\ p # "cut" /\ p \notin Generates
    BY DEF Places, Over, Generates
  <2> DEFINE new == [by |-> r, model |-> m, fresh |-> ~engine]
  <2>2. loads' = loads \cup {new} /\ new.by = r
    BY <1>5 DEF StartLoad
  <2> HIDE DEF new
  <2> QED
    BY <1>0, <1>5, <2>1, <2>2, ShiftKeeps DEF Inv
<1> QED
  BY <1>1, <1>2, <1>3, <1>4, <1>5 DEF Inv, Outcome

LEMMA FetchedKeeps ==
    ASSUME Inv, NEW r \in DOMAIN runs, Fetched(r), UNCHANGED <<narrow, panelVars>>
    PROVE  Inv'
<1> DEFINE run == [runs[r] EXCEPT !.context = revision, !.model = chosen]
<1>0. runs[r] \in Run /\ revision \in Nat /\ chosen \in Choices
  BY DEF Inv, PanelTypes
<1>1. run \in Run /\ runs[r] \in Run /\ runs[r].pc = "fetch"
  BY <1>0 DEF Run, Fetched
<1>2. SameRun(r, runs[r]) /\ (run.asked = revision => SameRun(r, run)) /\ run.asked = runs[r].asked
  BY <1>1 DEF SameRun, Run, Inv, PanelTypes
<1>3. ASSUME NEW x \in Run, SameRun(r, x), NEW end \in {"failed", "changed"},
             EndRun(r, Done(x), end, controller), UNCHANGED loadVars
      PROVE  Outcome(r)
  <2>1. Done(x) \in Run /\ SameRun(r, Done(x)) /\ Done(x).pc = "done"
    BY <1>3 DEF Run, Done, SameRun, Places, Over
  <2>2. Moved(r, "done")
    BY <1>3, <2>1, GoesMoves DEF Inv, EndRun, SameRun
  <2>3. Closed(r, {"failed", "changed"})
    BY <1>3, <2>1, EndRunCloses, ClosedFailed DEF Inv, SameRun, Ends
  <2> QED
    BY <1>3, <2>2, <2>3 DEF Outcome
<1>4. generating \in BOOLEAN /\ lock' = lock /\ UNCHANGED catalogVars
  BY DEF Inv, EngineTypes, Fetched
<1>5. CASE /\ ~IsAskedGraphOnScreen(run) /\ EndRun(r, Done(runs[r]), "changed", controller)
           /\ UNCHANGED <<loadVars, generating>>
  BY <1>1, <1>2, <1>3, <1>4, <1>5, OutcomeKeeps
<1>6. CASE IsAskedGraphOnScreen(run) /\ StartTurn(r, run, controller, generating)
  <2>1. Outcome(r) /\ generating' \in BOOLEAN
    BY <1>1, <1>2, <1>4, <1>6, TurnOutcome DEF Inv, IsAskedGraphOnScreen
  <2> QED
    BY <1>1, <1>4, <2>1, OutcomeKeeps
<1>7. CASE /\ IsAskedGraphOnScreen(run) /\ EndRun(r, Done(run), "failed", controller)
           /\ UNCHANGED <<loadVars, generating>>
  BY <1>1, <1>2, <1>3, <1>4, <1>7, OutcomeKeeps DEF IsAskedGraphOnScreen
<1>8. CASE /\ IsAskedGraphOnScreen(run) /\ run.model # NoModel /\ MayLoad
           /\ Waits(r, [run EXCEPT !.pc = "load"], controller)
           /\ StartLoad(r, run.model) /\ UNCHANGED generating
  <2>1. /\ [run EXCEPT !.pc = "load"] \in Run /\ SameRun(r, [run EXCEPT !.pc = "load"])
        /\ [run EXCEPT !.pc = "load"].pc = "load" /\ run.model \in Models
    BY <1>1, <1>2, <1>8 DEF Run, SameRun, Places, IsAskedGraphOnScreen, Choices
  <2>2. Moved(r, "load")
    BY <1>8, <2>1, GoesMoves DEF Inv, Waits, SameRun
  <2>3. Outcome(r)
    BY <1>8, <2>1, <2>2 DEF Outcome, Waits, Kept
  <2> QED
    BY <1>1, <1>4, <1>8, <2>3, OutcomeKeeps
<1> QED
  BY <1>5, <1>6, <1>7, <1>8 DEF Fetched

LEMMA NextTurnKeeps ==
    ASSUME Inv, NEW r \in DOMAIN runs, NextTurn(r), UNCHANGED <<narrow, panelVars>>
    PROVE  Inv'
<1>1. runs[r] \in Run /\ runs[r].pc = "turn" /\ generating \in BOOLEAN
  BY DEF Inv, PanelTypes, EngineTypes, NextTurn
<1>2. SameRun(r, runs[r])
  BY DEF SameRun
<1>3. Outcome(r) /\ generating' \in BOOLEAN
  BY <1>1, <1>2, StreamOutcome DEF Inv, NextTurn
<1> QED
  BY <1>1, <1>3, OutcomeKeeps DEF NextTurn

LEMMA RetryKeeps ==
    ASSUME Inv, NEW r \in DOMAIN runs, Retry(r), UNCHANGED <<narrow, panelVars>>
    PROVE  Inv'
<1>1. runs[r] \in Run /\ runs[r].pc = "drained"
  BY DEF Inv, PanelTypes, Retry
<1>2. [runs[r] EXCEPT !.attempt = 2] \in Run /\ SameRun(r, [runs[r] EXCEPT !.attempt = 2])
  BY <1>1 DEF SameRun, Run
<1>3. Outcome(r) /\ generating' \in BOOLEAN
  BY <1>1, <1>2, TurnOutcome DEF Inv, Retry
<1> QED
  BY <1>1, <1>3, OutcomeKeeps DEF Retry

-----------------------------------------------------------------------------
(* The other steps of a run.                                               *)
LEMMA RunFacts ==
    ASSUME Inv, NEW r \in DOMAIN runs
    PROVE  /\ runs[r] \in Run /\ r \in Nat /\ r # 0 /\ SameRun(r, runs[r])
           /\ \A l \in loads : l.by = r => runs[r].pc \in {"load", "reload", "cut"} /\ lock # r
<1>1. runs[r] \in Run /\ r \in Nat /\ r # 0
  BY DEF Inv, PanelTypes
<1>2. \A l \in loads : l.by = r => runs[r].pc \in {"load", "reload", "cut"} /\ lock # r
  BY <1>1 DEF Inv, LockInv
<1> QED
  BY <1>1, <1>2 DEF SameRun

LEMMA PlaceMoves ==
    ASSUME PanelTypes, NEW r \in DOMAIN runs, NEW p \in Places, Goes(r, [runs[r] EXCEPT !.pc = p])
    PROVE  Moved(r, p)
<1> DEFINE run == [runs[r] EXCEPT !.pc = p]
<1>1. runs[r] \in Run
  BY DEF PanelTypes
<1>2. run \in Run /\ run.pc = p /\ SameRun(r, run)
  BY <1>1 DEF Run, SameRun
<1> HIDE DEF run
<1>3. Goes(r, run)
  BY DEF run
<1> QED
  BY <1>2, <1>3, GoesMoves DEF SameRun

LEMMA DecodeKeeps ==
    ASSUME Inv, NEW r \in DOMAIN runs, Decode(r), UNCHANGED <<narrow, panelVars>>
    PROVE  Inv'
<1> DEFINE p == IF runs[r].pc = "cut" THEN "cut" ELSE "decode"
<1>1. /\ p \in Places \ Over /\ runs[r].pc \notin Over /\ (p = "cut" <=> runs[r].pc = "cut")
      /\ \A l \in loads : l.by # r
  BY RunFacts DEF Decode, IsQueued, Places, Over
<1>2. Moved(r, p)
  <2>1. CASE runs[r].pc = "cut"
    BY <2>1 DEF Inv, PanelTypes, Moved, Decode
  <2>2. CASE runs[r].pc # "cut"
    <3>1. Goes(r, [runs[r] EXCEPT !.pc = "decode"]) /\ p = "decode"
      BY <2>2 DEF Decode
    <3> HIDE DEF p
    <3> QED
      BY <1>1, <3>1, PlaceMoves DEF Inv
  <2> QED
    BY <2>1, <2>2
<1>3. Kept /\ UNCHANGED loadVars /\ lock' = r /\ generating' = generating /\ UNCHANGED catalogVars
  BY DEF Decode, Kept
<1>4. EngineTypes' /\ WorkerInv' /\ CatalogInv'
  BY <1>3, RunFacts, EngineKept DEF Inv, EngineTypes
<1>5. PanelTypes' /\ AnswersTheAskedGraph'
  BY <1>2, <1>3, TypesKept DEF Inv
<1>6. Unbroken /\ mounted /\ p \in Generates \cup {"cut"} => generating'
  BY <1>1, <1>3 DEF Inv, ChargeInv, Decode, IsQueued, Generates
<1>7. loads' = loads
  BY <1>3 DEF loadVars
<1> HIDE DEF p
<1>8. p \in {"decode", "cut"}
  BY DEF p
<1>9. LockInv' /\ ChargeInv' /\ CutInv'
  BY <1>1, <1>2, <1>3, <1>6, <1>7, <1>8, ShiftKeeps DEF Inv
<1> QED
  BY <1>4, <1>5, <1>9 DEF Inv

LEMMA ThinksTooLongKeeps ==
    ASSUME Inv, NEW r \in DOMAIN runs, ThinksTooLong(r), UNCHANGED <<narrow, panelVars>>
    PROVE  Inv'
<1>1. "drain" \in Places \ Over /\ runs[r].pc = "decode" /\ runs[r].pc \notin Over
  BY DEF ThinksTooLong, Places, Over
<1>2. Moved(r, "drain")
  BY <1>1, PlaceMoves DEF Inv, ThinksTooLong, Waits
<1>3. Kept /\ UNCHANGED <<loadVars, lock, generating, catalogVars>>
  BY DEF ThinksTooLong, Waits, Kept
<1>4. EngineTypes' /\ WorkerInv' /\ CatalogInv'
  BY <1>3, RunFacts, EngineKept DEF Inv, EngineTypes
<1>5. PanelTypes' /\ AnswersTheAskedGraph'
  BY <1>2, <1>3, TypesKept DEF Inv
<1>6. Unbroken /\ mounted => generating'
  BY <1>1, <1>3 DEF Inv, ChargeInv
<1>7. loads' = loads /\ \A l \in loads : l.by # r
  BY <1>1, <1>3, RunFacts DEF loadVars
<1>8. LockInv' /\ ChargeInv' /\ CutInv'
  BY <1>1, <1>2, <1>3, <1>6, <1>7, ShiftKeeps DEF Inv
<1> QED
  BY <1>4, <1>5, <1>8 DEF Inv

LEMMA DrainKeeps ==
    ASSUME Inv, NEW r \in DOMAIN runs, Drain(r), UNCHANGED <<narrow, panelVars>>
    PROVE  Inv'
<1>1. "drained" \in Places \ Over /\ runs[r].pc = "drain" /\ runs[r].pc \notin Over
  BY DEF Drain, Places, Over
<1>2. Moved(r, "drained")
  BY <1>1, PlaceMoves DEF Inv, Drain, Waits
<1>3. Kept /\ lock' = 0 /\ UNCHANGED <<loadVars, generating, catalogVars>>
  BY DEF Drain, Waits, Kept
<1>4. EngineTypes' /\ WorkerInv' /\ CatalogInv'
  BY <1>3, RunFacts, EngineKept DEF Inv, EngineTypes
<1>5. PanelTypes' /\ AnswersTheAskedGraph'
  BY <1>2, <1>3, TypesKept DEF Inv
<1>6. Unbroken /\ mounted => generating'
  BY <1>1, <1>3 DEF Inv, ChargeInv
<1>7. loads' = loads /\ \A l \in loads : l.by # r
  BY <1>1, <1>3, RunFacts DEF loadVars
<1>8. LockInv' /\ ChargeInv' /\ CutInv'
  BY <1>1, <1>2, <1>3, <1>6, <1>7, RunFacts, ShiftKeeps DEF Inv
<1> QED
  BY <1>4, <1>5, <1>8 DEF Inv

LEMMA CutGenerationEndsKeeps ==
    ASSUME Inv, NEW r \in DOMAIN runs, CutGenerationEnds(r), UNCHANGED <<narrow, panelVars>>
    PROVE  Inv'
<1>1. "done" \in Places /\ runs[r].pc = "cut" /\ runs[r].pc \notin Over /\ lock = r
  BY DEF CutGenerationEnds, Places, Over
<1>2. Moved(r, "done")
  BY <1>1, PlaceMoves DEF Inv, CutGenerationEnds, Waits, Done
<1>3. Kept /\ lock' = 0 /\ generating' = FALSE /\ UNCHANGED <<loadVars, catalogVars>>
  BY DEF CutGenerationEnds, Waits, Kept
<1>4. EngineTypes' /\ WorkerInv' /\ CatalogInv'
  BY <1>3, RunFacts, EngineKept DEF Inv
<1>5. PanelTypes' /\ AnswersTheAskedGraph'
  BY <1>2, <1>3, TypesKept DEF Inv
<1>6. loads' = loads \ LoadsOf(r)
  BY <1>1, <1>3, RunFacts DEF loadVars, LoadsOf
<1>7. LockInv'
  BY <1>1, <1>2, <1>3, <1>6, RunFacts DEF Inv, LockInv, Moved, Kept, LoadsOf, panelVars
<1>8. ChargeInv'
  BY <1>1, <1>2 DEF Inv, ChargeInv, Unbroken, Moved, Over, panelVars
<1>9. CutInv'
  BY <1>1, <1>2, <1>3 DEF Inv, CutInv, Unbroken, Moved, Kept, Over, panelVars
<1> QED
  BY <1>4, <1>5, <1>7, <1>8, <1>9 DEF Inv

LEMMA EndRunKeeps ==
    ASSUME Inv, NEW r \in DOMAIN runs, runs[r].pc \notin Over, NEW end \in Ends \cup {"none"},
           EndRun(r, Done(runs[r]), end, controller), end = "answered" /\ Unbroken => ~runs[r].cut,
           lock' \in {0, lock} \ {r}, loads' = loads \ LoadsOf(r), UNCHANGED panelVars
    PROVE  PanelTypes' /\ LockInv' /\ ChargeInv' /\ CutInv' /\ AnswersTheAskedGraph'
<1>0. runs[r] \in Run /\ "done" \in Places
  BY RunFacts DEF Places, Over
<1>1. Done(runs[r]) \in Run /\ Done(runs[r]).pc = "done" /\ SameRun(r, Done(runs[r]))
  BY <1>0 DEF Done, Run, SameRun
<1>2. Moved(r, "done")
  BY <1>1, GoesMoves DEF Inv, EndRun, SameRun
<1>3. Closed(r, {end} \ {"none"})
  BY <1>1, EndRunCloses DEF Inv, SameRun
<1>4. {end} \ {"none"} \in SUBSET Ends /\ ("answered" \in {end} \ {"none"} /\ Unbroken => ~runs[r].cut)
  OBVIOUS
<1>5. PanelTypes' /\ AnswersTheAskedGraph'
  BY <1>2, <1>3, <1>4, TypesKept DEF Inv
<1>6. LockInv' /\ ChargeInv' /\ CutInv'
  BY <1>2, <1>3, <1>4, EndingKeeps DEF Inv
<1> QED
  BY <1>5, <1>6

LEMMA GenerationEndsKeeps ==
    ASSUME Inv, NEW r \in DOMAIN runs, GenerationEnds(r), UNCHANGED <<narrow, panelVars>>
    PROVE  Inv'
<1>1. /\ runs[r].pc = "decode" /\ runs[r].pc \notin Over
      /\ lock' = 0 /\ generating' = FALSE /\ UNCHANGED <<loadVars, catalogVars>>
  BY DEF GenerationEnds, Over
<1>2. EngineTypes' /\ WorkerInv' /\ CatalogInv'
  BY <1>1, RunFacts, EngineKept DEF Inv
<1>3. loads' = loads /\ \A l \in loads : l.by # r
  BY <1>1, RunFacts DEF loadVars
<1> DEFINE next == [runs[r] EXCEPT !.pc = "turn", !.turns = @ + 1]
<1>4. CASE Waits(r, next, controller)
  <2>0. runs[r] \in Run /\ runs[r].turns + 1 \in Nat
    BY RunFacts DEF Run
  <2>1. next \in Run /\ next.pc = "turn" /\ SameRun(r, next)
    BY <2>0 DEF Run, SameRun, Places
  <2>2. Goes(r, next) /\ Kept
    BY <1>4 DEF Waits, Kept
  <2> HIDE DEF next
  <2>3. Moved(r, "turn")
    BY <2>1, <2>2, GoesMoves DEF Inv, SameRun
  <2>4. "turn" \in Places \ Over /\ "turn" \notin Generates
    BY DEF Places, Over, Generates
  <2>5. PanelTypes' /\ AnswersTheAskedGraph'
    BY <2>2, <2>3, TypesKept DEF Inv
  <2>6. LockInv' /\ ChargeInv' /\ CutInv'
    BY <1>1, <1>3, <2>2, <2>3, <2>4, RunFacts, ShiftKeeps DEF Inv
  <2> QED
    BY <1>2, <2>5, <2>6 DEF Inv
<1>5. CASE EndRun(r, Done(runs[r]), IF CancelledEnd(r) = "" THEN "answered" ELSE CancelledEnd(r), controller)
  <2> DEFINE end == IF CancelledEnd(r) = "" THEN "answered" ELSE CancelledEnd(r)
  <2>1. end \in Ends \cup {"none"} /\ (end = "answered" => ~runs[r].interrupted)
    BY DEF CancelledEnd, Ends
  <2>2. EndRun(r, Done(runs[r]), end, controller)
    BY <1>5
  <2> HIDE DEF end
  <2>3. end = "answered" /\ Unbroken => ~runs[r].cut
    BY <1>1, <2>1 DEF Inv, CutInv
  <2>4. lock' \in {0, lock} \ {r} /\ loads' = loads \ LoadsOf(r)
    BY <1>1, <1>3, RunFacts DEF LoadsOf
  <2>5. PanelTypes' /\ LockInv' /\ ChargeInv' /\ CutInv' /\ AnswersTheAskedGraph'
    BY <1>1, <2>1, <2>2, <2>3, <2>4, EndRunKeeps
  <2> QED
    BY <1>2, <2>5 DEF Inv
<1> QED
  BY <1>4, <1>5 DEF GenerationEnds

LEMMA GenerationFailsKeeps ==
    ASSUME Inv, NEW r \in DOMAIN runs, GenerationFails(r), UNCHANGED <<narrow, panelVars>>
    PROVE  Inv'
<1>1. /\ runs[r].pc = "decode" /\ runs[r].pc \notin Over
      /\ lock' = 0 /\ generating' = FALSE /\ UNCHANGED <<loadVars, catalogVars>>
      /\ EndRun(r, Done(runs[r]), "failed", controller)
  BY DEF GenerationFails, Over
<1>2. EngineTypes' /\ WorkerInv' /\ CatalogInv'
  BY <1>1, RunFacts, EngineKept DEF Inv
<1>3. lock' \in {0, lock} \ {r} /\ loads' = loads \ LoadsOf(r)
  BY <1>1, RunFacts DEF LoadsOf, loadVars
<1>4. PanelTypes' /\ LockInv' /\ ChargeInv' /\ CutInv' /\ AnswersTheAskedGraph'
  BY <1>1, <1>3, EndRunKeeps DEF Ends
<1> QED
  BY <1>2, <1>4 DEF Inv

LEMMA AbortSurfacesKeeps ==
    ASSUME Inv, NEW r \in DOMAIN runs, AbortSurfaces(r), UNCHANGED <<narrow, panelVars>>
    PROVE  Inv'
<1> DEFINE end == IF CancelledEnd(r) = "" THEN "none" ELSE CancelledEnd(r)
<1>1. end \in {"stopped", "none"} /\ end \in Ends \cup {"none"}
  BY DEF CancelledEnd, Ends
<1>2. /\ runs[r].pc \in {"turn", "reload", "queue", "decode"} /\ runs[r].pc \notin Over
      /\ UNCHANGED <<loadVars, generating, lock, catalogVars>>
      /\ EndRun(r, [runs[r] EXCEPT !.pc = IF runs[r].pc = "turn" THEN "done" ELSE "cut"], end, controller)
  BY DEF AbortSurfaces, Over
<1> HIDE DEF end
<1>3. EngineTypes' /\ WorkerInv' /\ CatalogInv'
  BY <1>2, RunFacts, EngineKept DEF Inv, EngineTypes
<1>4. CASE runs[r].pc = "turn"
  <2>1. EndRun(r, Done(runs[r]), end, controller)
    BY <1>2, <1>4 DEF Done
  <2>2. lock' \in {0, lock} \ {r} /\ loads' = loads \ LoadsOf(r)
    BY <1>2, <1>4, RunFacts DEF LoadsOf, loadVars, Inv, LockInv
  <2>3. PanelTypes' /\ LockInv' /\ ChargeInv' /\ CutInv' /\ AnswersTheAskedGraph'
    BY <1>1, <1>2, <2>1, <2>2, EndRunKeeps
  <2> QED
    BY <1>3, <2>3 DEF Inv
<1>5. CASE runs[r].pc # "turn"
  <2> DEFINE run == [runs[r] EXCEPT !.pc = "cut"]
  <2>0. runs[r] \in Run /\ "cut" \in Places
    BY RunFacts DEF Places
  <2>1. run \in Run /\ run.pc = "cut" /\ SameRun(r, run)
    BY <2>0 DEF Run, SameRun
  <2>2. EndRun(r, run, end, controller)
    BY <1>2, <1>5
  <2> HIDE DEF run
  <2>3. Moved(r, "cut") /\ Closed(r, {end} \ {"none"})
    BY <1>1, <2>1, <2>2, GoesMoves, EndRunCloses DEF Inv, EndRun, SameRun
  <2>4. {end} \ {"none"} \in SUBSET Ends /\ "answered" \notin {end} \ {"none"}
    BY <1>1
  <2>5. PanelTypes' /\ AnswersTheAskedGraph'
    BY <2>3, <2>4, TypesKept DEF Inv
  <2>6. LockInv' /\ ChargeInv' /\ CutInv'
    BY <1>2, <1>5, <2>3, <2>4, CuttingKeeps DEF Inv, loadVars
  <2> QED
    BY <1>3, <2>5, <2>6 DEF Inv
<1> QED
  BY <1>4, <1>5

LEMMA RunStepKeeps == ASSUME Inv, NEW r, RunStep(r) PROVE Inv'
BY FetchedKeeps, NextTurnKeeps, DecodeKeeps, GenerationEndsKeeps, GenerationFailsKeeps,
   ThinksTooLongKeeps, DrainKeeps, RetryKeeps, AbortSurfacesKeeps, CutGenerationEndsKeeps DEF RunStep

-----------------------------------------------------------------------------
(* The end of a load.                                                      *)
LEMMA LoadEnds ==
    ASSUME Inv, NEW load \in loads, LoadSucceeds(load) \/ LoadFails(load),
           UNCHANGED <<narrow, lock, panelVars>>, generating' \in BOOLEAN
    PROVE  EngineTypes' /\ WorkerInv' /\ CatalogInv' /\ loads' = loads \ {load}
<1>1. loads' = loads \ {load} /\ load \in Load
  BY DEF Inv, EngineTypes, LoadSucceeds, LoadFails
<1>2. EngineTypes'
  <2>1. load.model \in Models /\ load.fresh \in BOOLEAN
    BY <1>1 DEF Load
  <2>2. engine' \in BOOLEAN /\ resident' \in Choices /\ preparing' \in Choices
    BY <2>1 DEF Inv, EngineTypes, LoadSucceeds, LoadFails, Choices
  <2>3. threads' \in Int
    BY DEF Inv, EngineTypes, LoadSucceeds, LoadFails
  <2>4. disk' \in SUBSET Models /\ cached' \in SUBSET Models
    BY <2>1 DEF Inv, EngineTypes, LoadSucceeds, LoadFails, catalogVars
  <2> QED
    BY <1>1, <2>2, <2>3, <2>4 DEF Inv, EngineTypes
<1>3. WorkerInv'
  <2> SUFFICES ASSUME mounted PROVE WorkerInv'
    BY DEF WorkerInv, panelVars
  <2>1. loads = {load} /\ load.fresh = ~engine /\ threads = 1
    BY DEF Inv, WorkerInv
  <2>2. loads' = {} /\ preparing' = NoModel
    BY <2>1 DEF LoadSucceeds, LoadFails
  <2>3. threads' = (IF engine' THEN 1 ELSE 0)
    <3>1. CASE LoadSucceeds(load)
      BY <2>1, <3>1 DEF LoadSucceeds
    <3>2. CASE LoadFails(load) /\ engine
      BY <2>1, <3>2 DEF LoadFails
    <3>3. CASE LoadFails(load) /\ ~engine
      <4>1. threads' = threads - 1 /\ ~engine'
        BY <2>1, <3>3 DEF LoadFails
      <4> QED
        BY <2>1, <4>1
    <3> QED
      BY <3>1, <3>2, <3>3
  <2> QED
    BY <2>2, <2>3 DEF WorkerInv
<1>4. CatalogInv'
  BY DEF Inv, CatalogInv, LoadSucceeds, LoadFails, catalogVars, panelVars
<1> QED
  BY <1>1, <1>2, <1>3, <1>4

LEMMA OwnLoadEnds ==
    ASSUME Inv, NEW load \in loads, load.by = 0, loads' = loads \ {load},
           UNCHANGED <<lock, generating, runVars, panelVars>>
    PROVE  PanelTypes' /\ LockInv' /\ ChargeInv' /\ CutInv' /\ AnswersTheAskedGraph'
<1>1. \A r \in DOMAIN runs : r # 0
  BY DEF Inv, PanelTypes
<1>2. PanelTypes' /\ CutInv' /\ AnswersTheAskedGraph'
  BY DEF Inv, PanelTypes, CutInv, Unbroken, AnswersTheAskedGraph, runVars, panelVars
<1>3. LockInv'
  BY <1>1 DEF Inv, LockInv, runVars, panelVars
<1>4. ChargeInv'
  BY <1>1 DEF Inv, ChargeInv, Unbroken, runVars, panelVars
<1> QED
  BY <1>2, <1>3, <1>4

LEMMA LoadFacts ==
    ASSUME Inv, NEW load \in loads, load.by # 0
    PROVE  /\ load.by \in DOMAIN runs /\ lock # load.by
           /\ runs[load.by].pc \in {"load", "reload", "cut"} /\ runs[load.by].pc \notin Over
           /\ loads \ {load} = loads \ LoadsOf(load.by)
<1>1. \A m \in loads : m.by = load.by => m = load
  BY DEF Inv, LockInv
<1> QED
  BY <1>1 DEF Inv, LockInv, Over, LoadsOf

LEMMA LoadFailedKeeps ==
    ASSUME Inv, NEW load \in loads, LoadFailed(load), UNCHANGED <<narrow, lock, panelVars>>
    PROVE  Inv'
<1>1. EngineTypes' /\ WorkerInv' /\ CatalogInv' /\ loads' = loads \ {load}
  BY LoadEnds DEF Inv, EngineTypes, LoadFailed
<1>2. CASE load.by = 0
  BY <1>1, <1>2, OwnLoadEnds DEF Inv, LoadFailed
<1>3. CASE load.by # 0
  <2> DEFINE end == IF runs[load.by].pc = "cut" THEN "none" ELSE "failed"
  <2>1. EndRun(load.by, Done(runs[load.by]), end, controller)
    BY <1>3 DEF LoadFailed
  <2>2. end \in Ends \cup {"none"} /\ end # "answered"
    BY DEF Ends
  <2> HIDE DEF end
  <2>3. PanelTypes' /\ LockInv' /\ ChargeInv' /\ CutInv' /\ AnswersTheAskedGraph'
    BY <1>1, <1>3, <2>1, <2>2, LoadFacts, EndRunKeeps
  <2> QED
    BY <1>1, <2>3 DEF Inv
<1> QED
  BY <1>2, <1>3

LEMMA LoadedKeeps ==
    ASSUME Inv, NEW load \in loads, Loaded(load), UNCHANGED <<narrow, lock, panelVars>>
    PROVE  Inv'
<1>0. generating' \in BOOLEAN
  BY DEF Inv, EngineTypes, Loaded, StartAgent
<1>1. EngineTypes' /\ WorkerInv' /\ CatalogInv' /\ loads' = loads \ {load}
  BY <1>0, LoadEnds DEF Loaded
<1>2. CASE load.by = 0
  BY <1>1, <1>2, OwnLoadEnds DEF Inv, Loaded
<1>3. CASE load.by # 0
  <2> DEFINE r == load.by
  <2>1. /\ r \in DOMAIN runs /\ lock # r /\ loads' = loads \ LoadsOf(r)
        /\ runs[r].pc \in {"load", "reload", "cut"} /\ runs[r].pc \notin Over
    BY <1>1, <1>3, LoadFacts
  <2>2. PICK run : run = runs[r]
    OBVIOUS
  <2>3. \/ /\ EndRun(r, Done(run), "failed", controller)
           /\ UNCHANGED generating
        \/ run.pc = "load" /\ StartAgent(r, run, generating)
        \/ /\ Waits(r, IF run.pc = "cut" THEN run ELSE [run EXCEPT !.pc = "queue"], controller)
           /\ generating' = TRUE
    BY <1>3, <2>2 DEF Loaded
  <2> HIDE DEF r
  <2>4. run \in Run /\ SameRun(r, run) /\ PanelTypes
    BY <2>1, <2>2, RunFacts DEF Inv
  <2>5. CASE EndRun(r, Done(run), "failed", controller)
    <3>1. PanelTypes' /\ LockInv' /\ ChargeInv' /\ CutInv' /\ AnswersTheAskedGraph'
      BY <2>1, <2>2, <2>5, EndRunKeeps DEF Ends
    <3> QED
      BY <1>1, <3>1 DEF Inv
  <2>6. ASSUME NEW p \in {"turn", "queue", "cut"}, Moved(r, p), Kept, p = "cut" <=> run.pc = "cut",
               p \in {"queue", "cut"} => generating'
        PROVE  Inv'
    <3>1. p \in Places \ Over /\ p \notin {"load", "reload"} /\ (p \in Generates => p = "queue")
      BY DEF Places, Over, Generates
    <3>2. /\ \A l \in loads : l.by # r => l \in loads'
          /\ \A l \in loads' : l.by # r /\ l \in loads
      BY <2>1 DEF LoadsOf
    <3>3. LockInv' /\ ChargeInv' /\ CutInv'
      BY <2>1, <2>2, <2>6, <3>1, <3>2, ShiftKeeps DEF Inv
    <3>4. PanelTypes' /\ AnswersTheAskedGraph'
      BY <2>1, <2>6, TypesKept DEF Inv
    <3> QED
      BY <1>1, <3>3, <3>4 DEF Inv
  <2>7. CASE run.pc = "load" /\ StartAgent(r, run, generating)
    <3> DEFINE next == [run EXCEPT !.pc = "turn", !.turns = 1]
    <3>1. next \in Run /\ next.pc = "turn" /\ SameRun(r, next)
      BY <2>4 DEF Run, SameRun, Places
    <3>2. Goes(r, next) /\ Kept
      BY <2>7 DEF StartAgent, Kept
    <3> HIDE DEF next
    <3>3. Moved(r, "turn")
      BY <2>1, <2>4, <3>1, <3>2, GoesMoves DEF SameRun
    <3> QED
      BY <2>6, <2>7, <3>2, <3>3
  <2>8. CASE /\ Waits(r, IF run.pc = "cut" THEN run ELSE [run EXCEPT !.pc = "queue"], controller)
             /\ generating' = TRUE
    <3>1. CASE run.pc = "cut"
      <4>1. Moved(r, "cut") /\ Kept
        BY <2>1, <2>4, <2>8, <3>1, GoesMoves DEF Waits, Kept, SameRun
      <4> QED
        BY <2>6, <2>8, <3>1, <4>1
    <3>2. CASE run.pc # "cut"
      <4>1. Goes(r, [runs[r] EXCEPT !.pc = "queue"]) /\ Kept /\ "queue" \in Places
        BY <2>2, <2>8, <3>2 DEF Waits, Kept, Places
      <4>2. Moved(r, "queue")
        BY <2>1, <2>4, <4>1, PlaceMoves
      <4> QED
        BY <2>6, <2>8, <3>2, <4>1, <4>2
    <3> QED
      BY <3>1, <3>2
  <2> QED
    BY <2>3, <2>5, <2>7, <2>8
<1> QED
  BY <1>2, <1>3

LEMMA LoadStepKeeps == ASSUME Inv, NEW load \in loads, LoadStep(load) PROVE Inv'
BY LoadedKeeps, LoadFailedKeeps DEF LoadStep

-----------------------------------------------------------------------------
(* The list of models.                                                     *)
LEMMA JobFacts ==
    ASSUME jobs \in [JobKinds -> Nat], NEW ended \in JobKinds \cup {"none"},
           NEW begun \in JobKinds \cup {"none"}, ended # begun \/ begun = "none",
           ended \in JobKinds => jobs[ended] > 0, Job(ended, begun)
    PROVE  /\ jobs' \in [JobKinds -> Nat]
           /\ \A k \in JobKinds : /\ k = begun => jobs'[k] > 0
                                  /\ k # ended => jobs'[k] >= jobs[k]
                                  /\ k \notin {ended, begun} => jobs'[k] = jobs[k]
<1>1. ~("none" \in JobKinds)
  BY DEF JobKinds
<1>2. ASSUME NEW k \in JobKinds
      PROVE  /\ jobs[k] - (IF k = ended THEN 1 ELSE 0) + (IF k = begun THEN 1 ELSE 0) \in Nat
             /\ jobs'[k] = jobs[k] - (IF k = ended THEN 1 ELSE 0) + (IF k = begun THEN 1 ELSE 0)
             /\ jobs[k] \in Nat
  <2>1. jobs[k] \in Nat /\ (k = ended => jobs[k] > 0)
    BY <1>1
  <2> QED
    BY <2>1 DEF Job
<1>3. jobs' \in [JobKinds -> Nat]
  BY <1>2 DEF Job
<1> QED
  BY <1>1, <1>2, <1>3

LEMMA RunsKept ==
    ASSUME Inv, UNCHANGED <<loads, lock, generating, runVars, mounted, moves>>
    PROVE  LockInv' /\ ChargeInv' /\ CutInv' /\ AnswersTheAskedGraph'
BY DEF Inv, LockInv, ChargeInv, CutInv, Unbroken, AnswersTheAskedGraph, runVars

LEMMA Kinds == /\ "probe" \in JobKinds /\ "read" \in JobKinds
               /\ "remove" \in JobKinds /\ "reread" \in JobKinds /\ ~("none" \in JobKinds)
BY DEF JobKinds

LEMMA ProbeKeeps ==
    ASSUME Inv, NEW ok \in BOOLEAN, ProbeEnds(ok), UNCHANGED narrow
    PROVE  CatalogInv' /\ cached' \in SUBSET Models /\ disk' = disk /\ chosen' \in Choices
<1>1. jobs \in [JobKinds -> Nat] /\ supported' = ok /\ checked' = TRUE /\ jobs.probe > 0
  BY DEF Inv, CatalogInv, ProbeEnds
<1>2. cached' \in SUBSET Models /\ disk' = disk /\ chosen' \in Choices
  BY DEF Inv, EngineTypes, PanelTypes, ProbeEnds, RefreshCatalog, Choices
<1>3. CASE ok /\ ~narrow
  <2>1. Job("probe", "read") /\ reading' = TRUE /\ UNCHANGED <<listed, readFailed>>
    BY <1>3 DEF ProbeEnds, RefreshCatalog
  <2>2. jobs' \in [JobKinds -> Nat] /\ jobs'.read > 0
    BY <1>1, <2>1, Kinds, JobFacts
  <2> QED
    BY <1>1, <1>2, <2>1, <2>2 DEF Inv, CatalogInv
<1>4. CASE ~(ok /\ ~narrow)
  <2>1. Job("probe", "none") /\ reading' = reading
    BY <1>4 DEF ProbeEnds, RefreshCatalog
  <2>2. jobs' \in [JobKinds -> Nat] /\ jobs'.read = jobs.read /\ jobs'.reread = jobs.reread
    BY <1>1, <2>1, Kinds, JobFacts
  <2>3. listed' \in BOOLEAN /\ readFailed' \in BOOLEAN
    BY <1>4 DEF Inv, CatalogInv, ProbeEnds, RefreshCatalog
  <2> QED
    BY <1>1, <1>2, <1>4, <2>1, <2>2, <2>3 DEF Inv, CatalogInv
<1> QED
  BY <1>3, <1>4

LEMMA ReadKeeps ==
    ASSUME Inv, NEW ok \in BOOLEAN, NEW kind \in {"read", "reread"}, jobs[kind] > 0,
           CatalogRead(ok), Job(kind, "none"), UNCHANGED <<narrow, checked>>
    PROVE  CatalogInv' /\ cached' \in SUBSET Models /\ disk' = disk
<1>1. jobs \in [JobKinds -> Nat] /\ kind \in JobKinds
  BY Kinds DEF Inv, CatalogInv
<1>2. /\ jobs' \in [JobKinds -> Nat]
      /\ jobs'.probe = jobs.probe /\ jobs'.remove = jobs.remove
  BY <1>1, Kinds, JobFacts
<1>3. cached' \in SUBSET Models /\ disk' = disk
  BY DEF Inv, EngineTypes, CatalogRead
<1>4. reading' = FALSE /\ listed' = ok /\ readFailed' = ~ok /\ supported' = supported
  BY DEF CatalogRead
<1> QED
  BY <1>2, <1>3, <1>4 DEF Inv, CatalogInv

LEMMA RemovalKeeps ==
    ASSUME Inv, RemovalEnds, UNCHANGED narrow
    PROVE  CatalogInv' /\ cached' \in SUBSET Models /\ disk' \in SUBSET Models /\ resident' \in Choices
<1>1. jobs \in [JobKinds -> Nat] /\ jobs.remove > 0 /\ UNCHANGED <<supported, checked>>
  BY DEF Inv, CatalogInv, RemovalEnds
<1>2. cached' \in SUBSET Models /\ disk' \in SUBSET Models /\ resident' \in Choices
  BY DEF Inv, EngineTypes, RemovalEnds, RefreshCatalog, DeleteModel, Choices
<1>3. checked \/ jobs.probe # 0
  BY <1>1, Kinds DEF Inv, CatalogInv
<1>4. CASE narrow
  <2>1. Job("remove", "none") /\ reading' = reading /\ listed' = FALSE /\ readFailed' = FALSE
    BY <1>4 DEF RemovalEnds, RefreshCatalog
  <2>2. /\ jobs' \in [JobKinds -> Nat]
        /\ jobs'.probe = jobs.probe /\ jobs'.read = jobs.read /\ jobs'.reread = jobs.reread
    BY <1>1, <2>1, Kinds, JobFacts
  <2>3. checked' \in BOOLEAN /\ supported' \in BOOLEAN /\ narrow'
    BY <1>1, <1>4 DEF Inv, CatalogInv
  <2>4. reading => jobs.read > 0 \/ jobs.reread > 0
    BY DEF Inv, CatalogInv
  <2>5. reading \in BOOLEAN
    BY DEF Inv, CatalogInv
  <2>6. reading' => jobs'.read > 0 \/ jobs'.reread > 0
    BY <2>1, <2>2, <2>4
  <2>7. checked' \/ jobs'.probe # 0
    BY <1>1, <1>3, <2>2
  <2>8. reading' \in BOOLEAN /\ listed' \in BOOLEAN /\ readFailed' \in BOOLEAN
    BY <2>1, <2>5
  <2> QED
    BY <1>2, <2>2, <2>3, <2>6, <2>7, <2>8 DEF CatalogInv
<1>5. CASE ~narrow
  <2>1. Job("remove", "reread") /\ reading' = TRUE /\ UNCHANGED <<listed, readFailed>>
    BY <1>5 DEF RemovalEnds, RefreshCatalog
  <2>2. jobs' \in [JobKinds -> Nat] /\ jobs'.probe = jobs.probe /\ jobs'.reread > 0
    BY <1>1, <2>1, Kinds, JobFacts
  <2>3. checked' \in BOOLEAN /\ supported' \in BOOLEAN /\ listed' \in BOOLEAN /\ readFailed' \in BOOLEAN
    BY <1>1, <2>1 DEF Inv, CatalogInv
  <2>4. checked' \/ jobs'.probe # 0
    BY <1>1, <1>3, <2>2
  <2>5. reading' \in BOOLEAN
    BY <2>1
  <2> QED
    BY <1>2, <2>1, <2>2, <2>3, <2>4, <2>5 DEF CatalogInv
<1> QED
  BY <1>4, <1>5

LEMMA JobStepKeeps == ASSUME Inv, JobStep PROVE Inv'
<1>1. UNCHANGED <<narrow, generating, lock, runVars, mounted, revision, moves>>
  BY DEF JobStep
<1>2. UNCHANGED <<engine, preparing, loads, threads>> /\ (resident' = resident \/ RemovalEnds)
  BY DEF JobStep, ProbeEnds, ReadEnds, RereadEnds, RemovalEnds, DeleteModel, loadVars
<1>3. LockInv' /\ ChargeInv' /\ CutInv' /\ AnswersTheAskedGraph' /\ WorkerInv'
  <2>1. WorkerInv'
    BY <1>1, <1>2 DEF Inv, WorkerInv
  <2> QED
    BY <1>1, <1>2, <2>1, RunsKept
<1>4. /\ CatalogInv' /\ cached' \in SUBSET Models /\ disk' \in SUBSET Models
      /\ chosen' \in Choices /\ removing' \in Choices /\ resident' \in Choices
  <2>0. /\ disk \in SUBSET Models /\ chosen \in Choices /\ removing \in Choices
        /\ resident \in Choices /\ NoModel \in Choices
    BY DEF Inv, EngineTypes, PanelTypes, Choices
  <2>1. CASE \E ok \in BOOLEAN : ProbeEnds(ok)
    <3>1. UNCHANGED <<removing, resident>>
      BY <2>1 DEF ProbeEnds, loadVars
    <3> QED
      BY <1>1, <2>0, <2>1, <3>1, ProbeKeeps
  <2>2. CASE \E ok \in BOOLEAN : ReadEnds(ok)
    <3>1. UNCHANGED <<removing, resident, checked>>
      BY <2>2 DEF ReadEnds, loadVars
    <3>2. CatalogInv' /\ cached' \in SUBSET Models /\ disk' = disk
      BY <1>1, <2>2, <3>1, ReadKeeps DEF ReadEnds
    <3>3. chosen' \in Choices
      BY <2>0, <2>2, <3>2 DEF ReadEnds, Choices
    <3> QED
      BY <2>0, <3>1, <3>2, <3>3
  <2>3. CASE \E ok \in BOOLEAN : RereadEnds(ok)
    <3>1. UNCHANGED <<removing, resident, checked, chosen>>
      BY <2>3 DEF RereadEnds, loadVars
    <3>2. CatalogInv' /\ cached' \in SUBSET Models /\ disk' = disk
      BY <1>1, <2>3, <3>1, ReadKeeps DEF RereadEnds
    <3> QED
      BY <2>0, <3>1, <3>2
  <2>4. CASE RemovalEnds
    <3>1. removing' = NoModel /\ chosen' = chosen
      BY <2>4 DEF RemovalEnds
    <3> QED
      BY <1>1, <2>0, <2>4, <3>1, RemovalKeeps
  <2> QED
    BY <2>1, <2>2, <2>3, <2>4 DEF JobStep
<1>5. EngineTypes'
  BY <1>1, <1>2, <1>4 DEF Inv, EngineTypes
<1>6. PanelTypes'
  BY <1>1, <1>4 DEF Inv, PanelTypes, runVars
<1> QED
  BY <1>3, <1>4, <1>5, <1>6 DEF Inv

-----------------------------------------------------------------------------
(* What the visitor does.                                                  *)
LEMMA MoveFacts ==
    ASSUME PanelTypes, NEW kind \in MoveKinds \ {"all"}, Moves(kind)
    PROVE  /\ mounted /\ moves' \in [MoveKinds -> Nat] /\ moves'.restart <= Budget.restart
           /\ kind # "restart" => moves'.restart = moves.restart
           /\ kind = "restart" => ~Unbroken'
<1>0. "all" \in MoveKinds /\ "restart" \in MoveKinds /\ kind \in MoveKinds /\ kind # "all"
  BY DEF MoveKinds
<1>1. moves \in [MoveKinds -> Nat] /\ moves.restart <= Budget.restart /\ Budget.restart \in Nat
  BY <1>0, Numbers DEF PanelTypes
<1>2. moves[kind] \in Nat \ {0} /\ moves["all"] \in Nat \ {0}
  <2>1. moves[kind] \in Nat /\ moves["all"] \in Nat
    BY <1>0, <1>1
  <2>2. moves[kind] > 0 /\ moves["all"] > 0
    BY DEF Moves
  <2> QED
    BY <2>1, <2>2
<1> DEFINE less == [moves EXCEPT ![kind] = moves[kind] - 1]
<1>3. less \in [MoveKinds -> Nat] /\ less["all"] = moves["all"]
  BY <1>0, <1>1, <1>2
<1>4. moves' = [less EXCEPT !["all"] = less["all"] - 1]
  BY DEF Moves
<1>5. less["restart"] = (IF kind = "restart" THEN moves["restart"] - 1 ELSE moves["restart"])
  BY <1>0, <1>1
<1> HIDE DEF less
<1>6. moves' \in [MoveKinds -> Nat] /\ moves'["restart"] = less["restart"]
  BY <1>0, <1>2, <1>3, <1>4
<1>7. kind = "restart" => moves'.restart # Budget.restart
  BY <1>0, <1>1, <1>2, <1>5, <1>6
<1>8. moves'.restart <= Budget.restart
  BY <1>0, <1>1, <1>2, <1>5, <1>6
<1> QED
  BY <1>5, <1>6, <1>7, <1>8 DEF Moves, Unbroken

LEMMA SeqEach ==
    ASSUME NEW S, NEW s \in Seq(S), NEW t, DOMAIN t = DOMAIN s,
           t = [i \in DOMAIN s |-> t[i]], \A i \in DOMAIN s : t[i] \in S
    PROVE  t \in Seq(S) /\ Len(t) = Len(s)
<1>1. DOMAIN s = 1..Len(s) /\ Len(s) \in Nat
  OBVIOUS
<1>2. t \in [1..Len(s) -> S]
  BY <1>1
<1> QED
  BY <1>1, <1>2

LEMMA SeqAppend ==
    ASSUME NEW S, NEW s \in Seq(S), NEW x \in S
    PROVE  /\ Append(s, x) \in Seq(S) /\ Len(Append(s, x)) = Len(s) + 1
           /\ DOMAIN s = 1..Len(s) /\ DOMAIN Append(s, x) = 1..(Len(s) + 1) /\ Len(s) \in Nat
           /\ Append(s, x)[Len(s) + 1] = x
           /\ \A j \in DOMAIN s : Append(s, x)[j] = s[j]
OBVIOUS

LEMMA SubmitKeeps == ASSUME Inv, NEW isAgent \in BOOLEAN, HandleSubmit(isAgent) PROVE Inv'
<1> DEFINE new == [pc |-> "fetch", agent |-> isAgent, asked |-> revision, context |-> 0,
                   model |-> NoModel, attempt |-> 1, turns |-> 0,
                   bubble |-> Len(transcript) + 1, interrupted |-> FALSE, cut |-> FALSE]
<1> DEFINE r == Len(runs) + 1
<1>1. /\ mounted /\ moves' \in [MoveKinds -> Nat] /\ moves'.restart <= Budget.restart
      /\ moves'.restart = moves.restart
  <2>1. Moves("submit") /\ "submit" \in MoveKinds \ {"all"} /\ PanelTypes
    BY DEF Inv, HandleSubmit, MoveKinds
  <2> QED
    BY <2>1, MoveFacts
<1>2. /\ runs' = Append(runs, new) /\ active' = r /\ loading' = TRUE
      /\ transcript' = Append(transcript, [of |-> r, end |-> ""])
      /\ UNCHANGED <<engineVars, mounted, checked, chosen, jobs, removing, revision>>
      /\ ~loading /\ ~generating /\ preparing = NoModel
  BY DEF HandleSubmit, Streaming
<1>3. runs \in Seq(Run) /\ transcript \in Seq(Bubble) /\ revision \in Nat
  BY DEF Inv, PanelTypes
<1>4. Len(transcript) + 1 \in Nat /\ r \in Nat
  BY <1>3
<1>5. new \in Run /\ [of |-> r, end |-> ""] \in Bubble /\ new.pc = "fetch" /\ new.bubble = Len(transcript) + 1
  BY <1>3, <1>4 DEF Run, Bubble, Places, Choices, Ends
<1>6. new.context = 0 /\ ~new.cut
  OBVIOUS
<1> HIDE DEF new
<1>7. /\ runs' \in Seq(Run) /\ DOMAIN runs' = DOMAIN runs \cup {r} /\ runs'[r] = new
      /\ Len(runs') = Len(runs) + 1 /\ r \notin DOMAIN runs
      /\ \A q \in DOMAIN runs : runs'[q] = runs[q]
  <2>1. /\ runs' \in Seq(Run) /\ Len(runs') = Len(runs) + 1 /\ Len(runs) \in Nat
        /\ DOMAIN runs = 1..Len(runs) /\ DOMAIN runs' = 1..(Len(runs) + 1)
        /\ runs'[Len(runs) + 1] = new /\ \A q \in DOMAIN runs : runs'[q] = runs[q]
    <3> DEFINE longer == Append(runs, new)
    <3>1. /\ longer \in Seq(Run) /\ Len(longer) = Len(runs) + 1 /\ Len(runs) \in Nat
          /\ DOMAIN runs = 1..Len(runs) /\ DOMAIN longer = 1..(Len(runs) + 1)
          /\ longer[Len(runs) + 1] = new /\ \A q \in DOMAIN runs : longer[q] = runs[q]
      <4>1. runs \in Seq(Run) /\ new \in Run
        BY <1>3, <1>5
      <4> HIDE DEF r
      <4> QED
        BY <4>1, SeqAppend
    <3>2. runs' = longer
      BY <1>2
    <3> HIDE DEF longer
    <3> QED
      BY <3>1, <3>2
  <2> QED
    BY <2>1
<1>8. /\ transcript' \in Seq(Bubble) /\ Len(transcript') = Len(transcript) + 1
      /\ \A b \in DOMAIN transcript : transcript'[b] = transcript[b]
      /\ transcript'[Len(transcript) + 1].of = r /\ transcript'[Len(transcript) + 1].end = ""
      /\ DOMAIN transcript = 1..Len(transcript) /\ DOMAIN runs = 1..Len(runs)
  <2> DEFINE bubble == [of |-> r, end |-> ""]
  <2>1. bubble \in Bubble /\ bubble.of = r /\ bubble.end = "" /\ transcript' = Append(transcript, bubble)
    BY <1>2, <1>5
  <2> HIDE DEF bubble
  <2> DEFINE longer == Append(transcript, bubble)
  <2>2. /\ longer \in Seq(Bubble) /\ Len(longer) = Len(transcript) + 1
        /\ DOMAIN transcript = 1..Len(transcript) /\ longer[Len(transcript) + 1] = bubble
        /\ \A b \in DOMAIN transcript : longer[b] = transcript[b]
    <3>1. transcript \in Seq(Bubble) /\ bubble \in Bubble
      BY <1>3, <2>1
    <3> HIDE DEF r
    <3> QED
      BY <3>1, SeqAppend
  <2>3. transcript' = longer
    BY <2>1
  <2>4. DOMAIN runs = 1..Len(runs)
    BY <1>3
  <2> HIDE DEF longer
  <2> QED
    BY <2>1, <2>2, <2>3, <2>4
<1>9. EngineTypes' /\ WorkerInv' /\ CatalogInv'
  BY <1>2 DEF Inv, EngineTypes, WorkerInv, CatalogInv, engineVars, loadVars, catalogVars
<1>10. PanelTypes'
  BY <1>1, <1>2, <1>4, <1>7, <1>8 DEF Inv, PanelTypes
<1>11. loads' = loads /\ lock' = lock /\ generating' = generating
  BY <1>2 DEF engineVars, loadVars
<1>12. LockInv'
  <2>1. \A l \in loads' : l.by # 0 => /\ l.by \in DOMAIN runs' /\ lock' # l.by
                                       /\ runs'[l.by].pc \in {"load", "reload", "cut"}
    BY <1>7, <1>11 DEF Inv, LockInv
  <2>2. lock' # 0 => lock' \in DOMAIN runs' /\ runs'[lock'].pc \in {"decode", "drain", "cut"}
    BY <1>7, <1>11 DEF Inv, LockInv
  <2>3. mounted' => \A q \in DOMAIN runs' : runs'[q].pc \in {"load", "reload"} => \E l \in loads' : l.by = q
    BY <1>2, <1>5, <1>7, <1>11 DEF Inv, LockInv
  <2>4. active' # 0 => active' \in DOMAIN runs' /\ loading'
    BY <1>2, <1>7
  <2>5. \A l, m \in loads' : l.by = m.by /\ l.by # 0 => l = m
    BY <1>11 DEF Inv, LockInv
  <2> QED
    BY <2>1, <2>2, <2>3, <2>4, <2>5 DEF LockInv
<1>13. ChargeInv'
  <2> SUFFICES ASSUME Unbroken PROVE ChargeInv'
    BY <1>1 DEF ChargeInv, Unbroken
  <2>0. active = 0
    BY <1>2 DEF Inv, LockInv
  <2>1. \A q \in DOMAIN runs : q # 0
    BY <1>3
  <2>2. loads = {}
    BY <1>1, <1>2, Numbers DEF Inv, WorkerInv, EngineTypes, Load
  <2>3. \A q \in DOMAIN runs : runs[q].pc \in Over
    BY <1>1, <1>2, <2>0, <2>1, <2>2 DEF Inv, ChargeInv
  <2> HIDE DEF r
  <2>4. \A q \in DOMAIN runs' : runs'[q].pc \notin Over => q = r
    BY <1>7, <2>3
  <2>5. runs'[r].pc = "fetch" /\ active' = r
    BY <1>2, <1>5, <1>7
  <2> QED
    BY <2>4, <2>5 DEF ChargeInv, Over
<1>14. CutInv'
  <2> SUFFICES ASSUME Unbroken PROVE CutInv'
    BY <1>1 DEF CutInv, Unbroken
  <2>1. Len(transcript) = Len(runs) /\ r = Len(transcript) + 1
    BY DEF Inv, CutInv
  <2> HIDE DEF r
  <2>2. Len(transcript') = Len(runs')
    BY <1>7, <1>8, <2>1
  <2>3. DOMAIN transcript = DOMAIN runs /\ CutInv
    BY <1>8, <2>1 DEF Inv
  <2>4. /\ runs'[r].bubble = r /\ transcript'[r].of = r
        /\ ~runs'[r].cut /\ transcript'[r].end # "answered"
    BY <1>5, <1>6, <1>7, <1>8, <2>1
  <2>5. \A q \in DOMAIN runs : runs'[q] = runs[q] /\ transcript'[q] = transcript[q]
    BY <1>7, <1>8, <2>3
  <2>6. \A q \in DOMAIN runs' : q \in DOMAIN runs \/ q = r
    BY <1>7
  <2> QED
    BY <2>2, <2>3, <2>4, <2>5, <2>6 DEF CutInv
<1>15. AnswersTheAskedGraph'
  BY <1>6, <1>7 DEF Inv, AnswersTheAskedGraph
<1> QED
  BY <1>9, <1>10, <1>12, <1>13, <1>14, <1>15 DEF Inv

LEMMA RestartKeeps == ASSUME Inv, RestartChat PROVE Inv'
<1>1. /\ mounted /\ moves' \in [MoveKinds -> Nat] /\ moves'.restart <= Budget.restart /\ ~Unbroken'
  BY MoveFacts DEF Inv, RestartChat, MoveKinds
<1>2. /\ active' = 0 /\ loading' = FALSE /\ transcript' = <<>> /\ runs' = runs
      /\ UNCHANGED <<engineVars, mounted, checked, chosen, jobs, removing, revision>>
  BY DEF RestartChat
<1>3. EngineTypes' /\ WorkerInv' /\ CatalogInv'
  BY <1>2 DEF Inv, EngineTypes, WorkerInv, CatalogInv, engineVars, loadVars, catalogVars
<1>4. PanelTypes'
  <2>0. <<>> \in Seq(Bubble)
    OBVIOUS
  <2>1. transcript' \in Seq(Bubble) /\ active' \in Nat /\ loading' \in BOOLEAN
    BY <1>2, <2>0, Numbers
  <2> QED
    BY <1>1, <1>2, <2>1 DEF Inv, PanelTypes
<1>5. LockInv' /\ AnswersTheAskedGraph'
  BY <1>2 DEF Inv, LockInv, AnswersTheAskedGraph, engineVars, loadVars
<1>6. ChargeInv' /\ CutInv'
  BY <1>1 DEF ChargeInv, CutInv
<1> QED
  BY <1>3, <1>4, <1>5, <1>6 DEF Inv

LEMMA NarrowKeeps == ASSUME Inv, Narrow PROVE Inv'
<1>1. /\ mounted /\ moves' \in [MoveKinds -> Nat] /\ moves'.restart <= Budget.restart
      /\ moves'.restart = moves.restart
  <2>1. Moves("resize") /\ "resize" \in MoveKinds \ {"all"} /\ PanelTypes
    BY DEF Inv, Narrow, MoveKinds
  <2> QED
    BY <2>1, MoveFacts
<1>2. /\ narrow' = TRUE
      /\ UNCHANGED <<loadVars, generating, lock, catalogVars, active, loading, transcript,
                     mounted, checked, chosen, jobs, removing, revision>>
  BY DEF Narrow
<1>3. runs \in Seq(Run) /\ generating \in BOOLEAN
  BY DEF Inv, PanelTypes, EngineTypes
<1>4. DOMAIN runs' = DOMAIN runs /\ runs' = [r \in DOMAIN runs |-> runs'[r]]
  BY DEF Narrow
<1>5. ASSUME NEW r \in DOMAIN runs
      PROVE  /\ runs'[r] \in Run
             /\ runs'[r].pc = runs[r].pc /\ runs'[r].bubble = runs[r].bubble
             /\ runs'[r].asked = runs[r].asked /\ runs'[r].context = runs[r].context
             /\ runs'[r].interrupted <=> runs[r].interrupted \/ (r = active /\ HasSomethingToCut)
             /\ runs'[r].cut <=> runs[r].cut \/ lock = r
  <2>1. runs[r] \in Run
    BY <1>3
  <2>2. runs'[r] = [runs[r] EXCEPT !.interrupted = runs[r].interrupted \/ (r = active /\ HasSomethingToCut),
                                   !.cut = runs[r].cut \/ lock = r]
    BY DEF Narrow
  <2>3. (r = active /\ HasSomethingToCut) \in BOOLEAN /\ (lock = r) \in BOOLEAN
    BY <1>3 DEF HasSomethingToCut
  <2> QED
    BY <2>1, <2>2, <2>3 DEF Run
<1>6. runs' \in Seq(Run) /\ Len(runs') = Len(runs)
  BY <1>3, <1>4, <1>5, SeqEach
<1>7. EngineTypes' /\ WorkerInv' /\ CatalogInv'
  BY <1>2 DEF Inv, EngineTypes, WorkerInv, CatalogInv, loadVars, catalogVars
<1>8. PanelTypes'
  BY <1>1, <1>2, <1>6 DEF Inv, PanelTypes
<1>9. LockInv' /\ AnswersTheAskedGraph'
  BY <1>2, <1>4, <1>5 DEF Inv, LockInv, AnswersTheAskedGraph, loadVars
<1>10. ChargeInv'
  BY <1>1, <1>2, <1>4, <1>5 DEF Inv, ChargeInv, Unbroken, loadVars
<1>11. CutInv'
  <2> SUFFICES ASSUME Unbroken PROVE CutInv'
    BY <1>1 DEF CutInv, Unbroken
  <2>1. lock # 0 => \/ runs[lock].pc = "cut"
                    \/ runs[lock].pc \in {"decode", "drain"} /\ active = lock /\ HasSomethingToCut
    BY <1>1 DEF Inv, LockInv, ChargeInv, HasSomethingToCut, Over
  <2>2. \A r \in DOMAIN runs : r # 0
    BY <1>3
  <2>3. \A r \in DOMAIN runs : lock = r => runs'[r].interrupted \/ runs'[r].pc \in Over \cup {"cut"}
    BY <1>5, <2>1, <2>2
  <2>4. \A r \in DOMAIN runs : runs'[r].cut => runs'[r].interrupted \/ runs'[r].pc \in Over \cup {"cut"}
    BY <1>5, <2>3 DEF Inv, CutInv
  <2>5. \A r \in DOMAIN runs : runs[r].pc = "done" => lock # r
    BY <2>1, <2>2
  <2>6. \A r \in DOMAIN runs : transcript'[r].end = "answered" => runs'[r].pc = "done" /\ ~runs'[r].cut
    BY <1>2, <1>5, <2>5 DEF Inv, CutInv
  <2> QED
    BY <1>2, <1>4, <1>5, <1>6, <2>4, <2>6 DEF Inv, CutInv
<1> QED
  BY <1>7, <1>8, <1>9, <1>10, <1>11 DEF Inv

(* The visitor's other moves leave the runs alone.                         *)
LEMMA QuietKeeps ==
    ASSUME Inv, NEW kind \in MoveKinds \ {"all", "restart"}, Moves(kind),
           UNCHANGED <<generating, lock, runVars, mounted>>,
           \/ loads' = loads
           \/ \E l \in Load : l.by = 0 /\ loads' = loads \cup {l},
           revision' \in Nat, chosen' \in Choices, removing' \in Choices,
           EngineTypes', WorkerInv', CatalogInv'
    PROVE  Inv'
<1>1. /\ mounted /\ moves' \in [MoveKinds -> Nat] /\ moves'.restart <= Budget.restart
      /\ moves'.restart = moves.restart
  BY MoveFacts DEF Inv
<1>2. PanelTypes'
  BY <1>1 DEF Inv, PanelTypes, runVars
<1>3. /\ \A l \in loads : l \in loads'
      /\ \A l \in loads' : l.by # 0 => l \in loads
  OBVIOUS
<1>4. LockInv'
  BY <1>3 DEF Inv, LockInv, runVars
<1>5. ChargeInv' /\ CutInv' /\ AnswersTheAskedGraph'
  BY <1>1, <1>3 DEF Inv, ChargeInv, CutInv, AnswersTheAskedGraph, Unbroken, runVars
<1> QED
  BY <1>2, <1>4, <1>5 DEF Inv

LEMMA AskedForList ==
    ASSUME Inv, LoadModelCatalog
    PROVE  /\ jobs' \in [JobKinds -> Nat]
           /\ jobs'.read = jobs.read /\ jobs'.reread = jobs.reread /\ jobs'.remove = jobs.remove
           /\ jobs'.probe # 0 \/ reading
           /\ jobs'.probe >= jobs.probe
           /\ jobs.probe \in Nat /\ jobs'.probe \in Nat
<1>1. jobs \in [JobKinds -> Nat]
  BY DEF Inv, CatalogInv
<1>2. CASE reading
  <2>1. jobs' = jobs
    BY <1>2 DEF LoadModelCatalog
  <2> QED
    BY <1>1, <1>2, <2>1, Kinds
<1>3. CASE ~reading
  <2>1. Job("none", "probe")
    BY <1>3 DEF LoadModelCatalog
  <2>2. /\ jobs' \in [JobKinds -> Nat] /\ jobs'.probe > 0 /\ jobs'.probe >= jobs.probe
        /\ jobs'.read = jobs.read /\ jobs'.reread = jobs.reread /\ jobs'.remove = jobs.remove
    BY <1>1, <2>1, Kinds, JobFacts
  <2> QED
    BY <1>1, <2>2, Kinds
<1> QED
  BY <1>2, <1>3

LEMMA ChoiceFacts == NoModel \in Choices /\ \A m \in Models : m \in Choices
BY DEF Choices

LEMMA WidenKeeps == ASSUME Inv, Widen PROVE Inv'
<1>1. /\ Moves("resize") /\ narrow' = FALSE
      /\ UNCHANGED <<loadVars, generating, lock, catalogVars, runVars, mounted, checked, chosen, removing, revision>>
  BY DEF Widen
<1>2. EngineTypes' /\ WorkerInv'
  BY <1>1 DEF Inv, EngineTypes, WorkerInv, loadVars, catalogVars
<1>3. checked \in BOOLEAN /\ supported \in BOOLEAN /\ listed \in BOOLEAN /\ reading \in BOOLEAN /\ readFailed \in BOOLEAN
  BY DEF Inv, CatalogInv
<1>4. CatalogInv'
  <2>1. CASE IsCatalogOwed
    <3>1. LoadModelCatalog
      BY <2>1 DEF Widen
    <3>2. ~checked => jobs'.probe # 0
      BY <3>1, AskedForList DEF Inv, CatalogInv
    <3>3. jobs'.probe > 0 \/ jobs'.read > 0 \/ jobs'.reread > 0
      BY <3>1, AskedForList DEF Inv, CatalogInv
    <3> QED
      BY <1>1, <1>3, <3>1, <3>2, <3>3, AskedForList DEF Inv, CatalogInv, catalogVars
  <2>2. CASE ~IsCatalogOwed
    <3>1. jobs' = jobs /\ checked /\ ~(supported /\ ~listed)
      BY <2>2 DEF Widen, IsCatalogOwed
    <3> QED
      BY <1>1, <1>3, <3>1 DEF Inv, CatalogInv, catalogVars
  <2> QED
    BY <2>1, <2>2
<1>5. loads' = loads /\ revision' \in Nat /\ chosen' \in Choices /\ removing' \in Choices
  BY <1>1 DEF Inv, PanelTypes, loadVars
<1> QED
  BY <1>1, <1>2, <1>4, <1>5, QuietKeeps DEF MoveKinds

LEMMA RefreshKeeps == ASSUME Inv, HandleRefreshModels PROVE Inv'
<1>1. /\ Moves("refresh") /\ LoadModelCatalog /\ ~narrow
      /\ UNCHANGED <<engineVars, runVars, mounted, checked, chosen, removing, revision>>
  BY DEF HandleRefreshModels
<1>2. EngineTypes' /\ WorkerInv'
  BY <1>1 DEF Inv, EngineTypes, WorkerInv, engineVars, loadVars, catalogVars
<1>3. CatalogInv'
  <2>1. checked \/ jobs.probe # 0
    BY <1>1 DEF Inv, CatalogInv
  <2>2. checked \/ jobs'.probe # 0
    BY <1>1, <2>1, AskedForList
  <2>3. jobs.probe > 0 => jobs'.probe > 0
    BY <1>1, AskedForList
  <2> QED
    BY <1>1, <2>2, <2>3, AskedForList DEF Inv, CatalogInv, engineVars, catalogVars
<1>4. loads' = loads /\ revision' \in Nat /\ chosen' \in Choices /\ removing' \in Choices
  BY <1>1 DEF Inv, PanelTypes, engineVars, loadVars
<1> QED
  BY <1>1, <1>2, <1>3, <1>4, QuietKeeps DEF MoveKinds, engineVars

LEMMA OpenGraphKeeps == ASSUME Inv, OpenGraph PROVE Inv'
<1>1. /\ Moves("open") /\ revision' = revision + 1
      /\ UNCHANGED <<engineVars, runVars, mounted, checked, chosen, jobs, removing>>
  BY DEF OpenGraph
<1>2. EngineTypes' /\ WorkerInv' /\ CatalogInv'
  BY <1>1 DEF Inv, EngineTypes, WorkerInv, CatalogInv, engineVars, loadVars, catalogVars
<1>3. loads' = loads /\ revision' \in Nat /\ chosen' \in Choices /\ removing' \in Choices
  BY <1>1 DEF Inv, PanelTypes, engineVars, loadVars
<1> QED
  BY <1>1, <1>2, <1>3, QuietKeeps DEF MoveKinds, engineVars

(* The visitor asks for a model, or the model is there.                    *)
LEMMA ModelKeeps ==
    ASSUME Inv, Moves("model"), preparing = NoModel,
           (UNCHANGED loadVars) \/ (\E m \in Models : StartLoad(0, m)), chosen' \in Choices,
           UNCHANGED <<narrow, generating, lock, catalogVars, runVars, mounted, checked, jobs, removing, revision>>
    PROVE  Inv'
<1>1. generating' \in BOOLEAN /\ lock' \in {0, lock, 0} /\ MayLoad
  BY DEF Inv, EngineTypes, MayLoad
<1>2. EngineTypes' /\ WorkerInv' /\ CatalogInv'
  BY <1>1, Numbers, EngineHeld
<1>3. loads' = loads \/ \E l \in Load : l.by = 0 /\ loads' = loads \cup {l}
  <2>1. CASE UNCHANGED loadVars
    BY <2>1 DEF loadVars
  <2>2. ASSUME NEW m \in Models, StartLoad(0, m)
        PROVE  \E l \in Load : l.by = 0 /\ loads' = loads \cup {l}
    <3>1. [by |-> 0, model |-> m, fresh |-> ~engine] \in Load
      BY Numbers DEF Inv, EngineTypes, Load
    <3> QED
      BY <2>2, <3>1 DEF StartLoad
  <2> QED
    BY <2>1, <2>2
<1>4. revision' \in Nat /\ removing' \in Choices
  BY DEF Inv, PanelTypes
<1> QED
  BY <1>2, <1>3, <1>4, QuietKeeps DEF MoveKinds

LEMMA PickKeeps == ASSUME Inv, NEW m \in Models, PickModel(m) PROVE Inv'
BY ModelKeeps, ChoiceFacts DEF PickModel

LEMMA DownloadKeeps == ASSUME Inv, NEW m \in Models, HandleModelDownloadClick(m) PROVE Inv'
<1>1. chosen' \in Models /\ chosen' \in Choices
  BY DEF Inv, PanelTypes, HandleModelDownloadClick, Choices
<1> QED
  BY <1>1, ModelKeeps DEF HandleModelDownloadClick

LEMMA RemoveKeeps == ASSUME Inv, HandleRemoveSelectedModel PROVE Inv'
<1>1. /\ Moves("model") /\ ~narrow /\ removing' = chosen /\ chosen' = NoModel /\ Job("none", "remove")
      /\ UNCHANGED <<engineVars, runVars, mounted, checked, revision>>
  BY DEF HandleRemoveSelectedModel
<1>2. EngineTypes' /\ WorkerInv'
  BY <1>1 DEF Inv, EngineTypes, WorkerInv, engineVars, loadVars, catalogVars
<1>3. CatalogInv'
  <2>1. jobs \in [JobKinds -> Nat]
    BY DEF Inv, CatalogInv
  <2>2. /\ jobs' \in [JobKinds -> Nat] /\ jobs'.probe = jobs.probe
        /\ jobs'.read = jobs.read /\ jobs'.reread = jobs.reread
    BY <1>1, <2>1, Kinds, JobFacts
  <2>3. checked \/ jobs.probe # 0
    BY <1>1 DEF Inv, CatalogInv
  <2> QED
    BY <1>1, <2>2, <2>3 DEF Inv, CatalogInv, engineVars, catalogVars
<1>4. loads' = loads /\ revision' \in Nat /\ chosen' \in Choices /\ removing' \in Choices
  BY <1>1, ChoiceFacts DEF Inv, PanelTypes, engineVars, loadVars
<1> QED
  BY <1>1, <1>2, <1>3, <1>4, QuietKeeps DEF MoveKinds, engineVars

LEMMA CloseKeeps == ASSUME Inv, ClosePanel PROVE Inv'
<1>1. /\ moves' \in [MoveKinds -> Nat] /\ moves'.restart <= Budget.restart
      /\ moves'.restart = moves.restart
  BY MoveFacts DEF Inv, ClosePanel, MoveKinds
<1>2. /\ mounted' = FALSE /\ lock' = 0 /\ generating' = FALSE
      /\ loads' = {l \in loads : l.fresh} /\ Dispose
      /\ UNCHANGED <<narrow, catalogVars, active, loading, transcript, checked, chosen, jobs, removing, revision>>
  BY DEF ClosePanel, Dispose
<1>3. runs \in Seq(Run)
  BY DEF Inv, PanelTypes
<1>4. DOMAIN runs' = DOMAIN runs /\ runs' = [r \in DOMAIN runs |-> runs'[r]]
  BY DEF ClosePanel
<1>5. ASSUME NEW r \in DOMAIN runs
      PROVE  /\ runs'[r] \in Run
             /\ runs'[r] = runs[r] \/ runs'[r] = [runs[r] EXCEPT !.pc = "lost"]
             /\ runs'[r].pc = runs[r].pc \/ runs'[r].pc = "lost"
             /\ runs[r].pc = "done" => runs'[r] = runs[r]
             /\ runs[r].pc \in {"load", "reload", "cut"} /\ (\E l \in loads : l.fresh /\ l.by = r) =>
                   runs'[r] = runs[r]
  <2>1. runs[r] \in Run /\ "lost" \in Places
    BY <1>3 DEF Places, Over
  <2> DEFINE gone == [runs[r] EXCEPT !.pc = "lost"]
  <2>2. gone \in Run /\ gone.pc = "lost"
    BY <2>1 DEF Run
  <2>3. runs'[r] = IF \/ runs[r].pc \in {"queue", "decode", "drain"}
                      \/ runs[r].pc \in {"load", "reload", "cut"} /\ \A l \in loads : l.fresh => l.by # r
                   THEN gone ELSE runs[r]
    BY DEF ClosePanel
  <2> HIDE DEF gone
  <2>4. runs'[r] = runs[r] \/ runs'[r] = gone
    BY <2>3
  <2>5. runs[r].pc = "done" => runs'[r] = runs[r]
    BY <2>3
  <2>6. runs[r].pc \in {"load", "reload", "cut"} /\ (\E l \in loads : l.fresh /\ l.by = r) =>
            runs'[r] = runs[r]
    BY <2>3
  <2> QED
    BY <2>1, <2>2, <2>4, <2>5, <2>6 DEF gone
<1>6. runs' \in Seq(Run) /\ Len(runs') = Len(runs)
  BY <1>3, <1>4, <1>5, SeqEach
<1>7. EngineTypes'
  <2>1. threads' \in Int /\ engine' = FALSE /\ resident' = NoModel /\ preparing' = NoModel
    BY <1>2 DEF Inv, EngineTypes, Dispose
  <2> QED
    BY <1>2, <2>1, ChoiceFacts, Numbers DEF Inv, EngineTypes, catalogVars
<1>8. WorkerInv' /\ ChargeInv'
  BY <1>2 DEF WorkerInv, ChargeInv
<1>9. CatalogInv'
  BY <1>2 DEF Inv, CatalogInv, catalogVars
<1>10. PanelTypes'
  BY <1>1, <1>2, <1>6 DEF Inv, PanelTypes
<1>11. LockInv'
  <2>1. \A l \in loads' : l.by # 0 => /\ l.by \in DOMAIN runs' /\ lock' # l.by
                                       /\ runs'[l.by].pc \in {"load", "reload", "cut"}
    BY <1>2, <1>4, <1>5 DEF Inv, LockInv
  <2>2. \A l, m \in loads' : l.by = m.by /\ l.by # 0 => l = m
    BY <1>2 DEF Inv, LockInv
  <2> QED
    BY <1>2, <1>4, <2>1, <2>2 DEF Inv, LockInv
<1>12. \A r \in DOMAIN runs : /\ runs'[r].bubble = runs[r].bubble /\ runs'[r].cut = runs[r].cut
                              /\ runs'[r].interrupted = runs[r].interrupted
                              /\ runs'[r].asked = runs[r].asked /\ runs'[r].context = runs[r].context
  <2> TAKE r \in DOMAIN runs
  <2>1. runs[r] \in Run
    BY <1>3
  <2>2. runs'[r] = runs[r] \/ runs'[r] = [runs[r] EXCEPT !.pc = "lost"]
    BY <1>5
  <2> QED
    BY <2>1, <2>2 DEF Run
<1>13. CutInv'
  <2> SUFFICES ASSUME Unbroken PROVE CutInv'
    BY <1>1 DEF CutInv, Unbroken
  <2>1. \A r \in DOMAIN runs : runs'[r].cut => runs'[r].interrupted \/ runs'[r].pc \in Over \cup {"cut"}
    BY <1>5, <1>12 DEF Inv, CutInv, Over
  <2>2. \A r \in DOMAIN runs : transcript'[r].end = "answered" => runs'[r].pc = "done" /\ ~runs'[r].cut
    BY <1>2, <1>5, <1>12 DEF Inv, CutInv
  <2> QED
    BY <1>2, <1>4, <1>6, <1>12, <2>1, <2>2 DEF Inv, CutInv
<1>14. AnswersTheAskedGraph'
  BY <1>4, <1>12 DEF Inv, AnswersTheAskedGraph
<1> QED
  BY <1>7, <1>8, <1>9, <1>10, <1>11, <1>13, <1>14 DEF Inv

LEMMA VisitorStepKeeps == ASSUME Inv, VisitorStep PROVE Inv'
BY SubmitKeeps, RestartKeeps, NarrowKeeps, WidenKeeps, RefreshKeeps, OpenGraphKeeps,
   PickKeeps, DownloadKeeps, RemoveKeeps, CloseKeeps DEF VisitorStep

-----------------------------------------------------------------------------
LEMMA PanelBegins == Init => Inv
<1> SUFFICES ASSUME Init PROVE Inv
  OBVIOUS
<1>1. EngineTypes
  <2>1. disk \in SUBSET Models
    BY EngineAssumption DEF Init, EngineInit
  <2>2. lock \in Nat /\ threads \in Int /\ loads \in SUBSET Load /\ cached \in SUBSET Models
    BY DEF Init, EngineInit
  <2> QED
    BY <2>1, <2>2, ChoiceFacts DEF Init, EngineInit, EngineTypes
<1>2. jobs \in [JobKinds -> Nat]
  BY DEF Init, JobKinds
<1>3. CatalogInv
  <2>1. (jobs.probe = 0 => narrow) /\ jobs.remove = 0
    BY DEF Init
  <2> QED
    BY <1>2, <2>1 DEF Init, EngineInit, CatalogInv
<1>4. PanelTypes
  <2>1. Budget.restart \in Nat
    BY Numbers DEF MoveKinds
  <2>2. runs \in Seq(Run) /\ transcript \in Seq(Bubble)
    BY DEF Init
  <2>3. active \in Nat /\ loading \in BOOLEAN /\ mounted \in BOOLEAN /\ revision \in Nat
    BY DEF Init
  <2>4. chosen \in Choices /\ removing \in Choices
    BY ChoiceFacts DEF Init
  <2>5. moves \in [MoveKinds -> Nat] /\ moves.restart <= Budget.restart
    BY <2>1, Numbers DEF Init
  <2> QED
    BY <2>2, <2>3, <2>4, <2>5 DEF PanelTypes
<1>5. DOMAIN runs = {} /\ Len(runs) = 0 /\ Len(transcript) = 0
  BY DEF Init
<1>6. WorkerInv /\ LockInv
  BY <1>5 DEF Init, EngineInit, WorkerInv, LockInv
<1>7. ChargeInv /\ CutInv /\ AnswersTheAskedGraph
  BY <1>5 DEF ChargeInv, CutInv, AnswersTheAskedGraph
<1> QED
  BY <1>1, <1>3, <1>4, <1>6, <1>7 DEF Inv

LEMMA StepKeeps == Inv /\ [Next]_vars => Inv'
<1> SUFFICES ASSUME Inv, [Next]_vars PROVE Inv'
  OBVIOUS
<1>1. CASE UNCHANGED vars
  <2>1. UNCHANGED <<engineVars, runVars, panelVars>>
    BY <1>1 DEF vars
  <2>2. EngineTypes' /\ WorkerInv' /\ CatalogInv'
    BY <2>1 DEF Inv, EngineTypes, WorkerInv, CatalogInv, engineVars, loadVars, catalogVars, panelVars
  <2>3. LockInv' /\ ChargeInv' /\ CutInv' /\ AnswersTheAskedGraph'
    BY <2>1, RunsKept DEF engineVars, loadVars, panelVars
  <2>4. PanelTypes'
    BY <2>1 DEF Inv, PanelTypes, runVars, panelVars
  <2> QED
    BY <2>2, <2>3, <2>4 DEF Inv
<1>2. CASE Next
  BY <1>2, VisitorStepKeeps, JobStepKeeps, RunStepKeeps, LoadStepKeeps DEF Next
<1> QED
  BY <1>1, <1>2

(* The inductive invariant holds of every chat, for any models and however *)
(* often the visitor does what (AiChatPanel.vue, useWebLlmEngine.ts).      *)
THEOREM Invariance == Spec => []Inv
BY PanelBegins, StepKeeps, PTL DEF Spec

(* An open panel has one worker at most: a load into a new worker and one  *)
(* into the old never overlap, however loads are asked for and fail        *)
(* (useWebLlmEngine.ts:366).                                               *)
THEOREM OneWorkerAtATime == Spec => []OneWorker
<1>1. Inv => OneWorker
  BY DEF Inv, WorkerInv, OneWorker
<1> QED
  BY <1>1, Invariance, PTL

(* A wide panel with nothing in flight has looked for the GPU, and has its *)
(* list of models or was told why not (AiChatPanel.vue:971).               *)
THEOREM ListIsMadeUp == Spec => []CatalogMadeUp
<1>1. ASSUME Inv, mounted, ~narrow, \A k \in DOMAIN jobs : jobs[k] = 0
      PROVE  checked /\ (supported /\ ~listed => readFailed)
  <2>1. DOMAIN jobs = JobKinds
    BY <1>1 DEF Inv, CatalogInv
  <2>2. jobs.probe = 0 /\ jobs.read = 0 /\ jobs.reread = 0
    BY <1>1, <2>1, Kinds
  <2> QED
    BY <1>1, <2>2 DEF Inv, CatalogInv
<1>2. Inv => CatalogMadeUp
  BY <1>1 DEF CatalogMadeUp
<1> QED
  BY <1>2, Invariance, PTL

(* An answer is about the graph that was asked about, and one that a       *)
(* narrow window cut says so, until the chat is restarted                  *)
(* (AiChatPanel.vue:955, 1144, 1182, 1194).                                *)
THEOREM HonestAnswers == Spec => []AnswersAreHonest
<1>1. ASSUME Inv, moves.restart = Budget.restart, NEW b \in DOMAIN transcript,
             transcript[b].end = "answered"
      PROVE  ~runs[transcript[b].of].cut
  <2>1. CutInv /\ Unbroken /\ DOMAIN transcript = DOMAIN runs
    BY <1>1 DEF Inv, Unbroken, CutInv, PanelTypes
  <2> QED
    BY <1>1, <2>1 DEF CutInv
<1>2. Inv => AnswersAreHonest
  BY <1>1 DEF Inv, AnswersAreHonest, CutAnswersSaySo
<1> QED
  BY <1>2, Invariance, PTL
=================
