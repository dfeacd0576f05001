------------------------- MODULE RuntimeTraceProofs -------------------------
(* The safety properties of RuntimeTrace, for every set of runs, calls and *)
(* outcomes.                                                               *)
EXTENDS RuntimeTrace, TLAPS

Live(r) == phase[r] \in {"running", "waiting"}
Open(c) == mode[c] \notin {"unused", "frame"}

(* The stack holds each executing call once, and nothing else.             *)
StackInv ==
    /\ \A i \in 1..Len(stack) : mode[stack[i]] = "frame"
    /\ \A i, j \in 1..Len(stack) : stack[i] = stack[j] => i = j
    /\ \A c \in Calls : mode[c] = "frame" => \E i \in 1..Len(stack) : stack[i] = c

(* A call belongs to a started run and nests under a recorded span of it.  *)
InfoInv ==
    \A c \in Calls : mode[c] # "unused" =>
        /\ info[c] \in Infos
        /\ phase[info[c].owner] \in {"running", "waiting", "traced"}
        /\ LET p == info[c].parent IN
             \/ p = info[c].owner
             \/ /\ p \in Calls /\ mode[p] # "unused"
                /\ info[p].owner = info[c].owner /\ ~info[p].entry

(* Where the span of a call is: in the live map of its run or in its trace.*)
HomeInv ==
    /\ \A r \in Runs : \A c \in active[r] \cup trace[r] :
          Open(c) /\ info[c].owner = r /\ ~info[c].entry
    /\ \A r \in Runs, c \in Calls :
          Open(c) /\ info[c].owner = r /\ ~info[c].entry => c \in active[r] \cup trace[r]
    /\ \A r \in Runs : active[r] \cap trace[r] = {}
    /\ \A r \in Runs : ~Traced(r) => trace[r] = {}
    /\ \A r \in Runs : r \notin entries => active[r] = {}
    /\ \A r \in Runs : Traced(r) /\ r \in entries => active[r] # {}

(* A recorded span's parent is recorded too, or still executing: its own   *)
(* span is pushed before the event loop can do anything else.              *)
ParentInv ==
    \A r \in Runs :
        /\ \A c \in trace[r] : info[c].parent \in trace[r] \cup {r}
        /\ \A c \in active[r] : ~Traced(r) =>
              LET p == info[c].parent IN p = r \/ p \in active[r] \/ mode[p] = "frame"

(* While a run lives, its set of promises is exactly its pending spans.    *)
PendingInv ==
    \A r \in Runs :
        /\ Live(r) <=> r \in pendingKeys
        /\ r \notin pendingKeys => pending[r] = {}
        /\ pending[r] \subseteq Calls
        /\ \A c \in active[r] : Live(r) /\ mode[c] = "pending" => c \in pending[r]

(* A live span tells the truth, and a marked one is waited for.            *)
StatusInv ==
    /\ \A r \in Runs : \A c \in active[r] :
          status[c] = IF mode[c] = "pending" THEN "partial" ELSE mode[c]
    /\ \A c \in marked :
          \/ mode[c] \in Settled
          \/ /\ mode[c] = "pending"
             /\ phase[info[c].owner] = "waiting" /\ c \in wait[info[c].owner]
    /\ MarkedSpansSettled

Inv == TypeOK /\ StackInv /\ InfoInv /\ HomeInv /\ ParentInv /\ PendingInv /\ StatusInv

USE RunsAreNotCalls, OutcomesAssumption

-----------------------------------------------------------------------------
LEMMA FreshCallUnused ==
    ASSUME \E d \in Calls : mode[d] = "unused"
    PROVE  FreshCall \in Calls /\ mode[FreshCall] = "unused"
BY DEF FreshCall

(* What a return does to the stack: the innermost frame goes.              *)
LEMMA PopStack ==
    ASSUME NEW c \in Calls, TypeOK, StackInv, Returns(c)
    PROVE  /\ stack' \in Seq(Calls)
           /\ mode[c] = "frame"
           /\ \A i \in 1..Len(stack') : stack'[i] # c /\ stack'[i] = stack[i]
           /\ Len(stack') = Len(stack) - 1
           /\ \A i \in 1..Len(stack) : stack[i] # c => i \in 1..Len(stack')
<1>1. /\ stack \in Seq(Calls) /\ Len(stack) \in Nat \ {0}
      /\ c = stack[Len(stack)] /\ stack' = SubSeq(stack, 1, Len(stack) - 1)
  BY DEF TypeOK, Returns, Idle
<1> DEFINE n == Len(stack)
<1>a. stack' = [i \in 1..(n - 1) |-> stack[i]] /\ n - 1 \in Nat
  BY <1>1
<1>b. \A i \in 1..n : stack[i] \in Calls
  BY <1>1
<1>c. stack' \in [1..(n - 1) -> Calls]
  <2>1. \A i \in 1..(n - 1) : i \in 1..n
    BY <1>1
  <2>2. QED
    BY <1>a, <1>b, <2>1
<1>2. Len(stack') = n - 1 /\ stack' \in Seq(Calls)
  BY <1>a, <1>c
<1>3. \A i \in 1..Len(stack') : stack'[i] = stack[i]
  BY <1>a, <1>2
<1>4. \A i \in 1..Len(stack') : stack[i] # c
  BY <1>1, <1>2 DEF StackInv
<1>5. QED
  BY <1>1, <1>2, <1>3, <1>4 DEF StackInv

LEMMA InitInv == Init => Inv
<1> SUFFICES ASSUME Init PROVE Inv
  OBVIOUS
<1> USE DEF Init
<1>1. TypeOK
  BY DEF TypeOK
<1>2. StackInv /\ InfoInv
  BY DEF StackInv, InfoInv
<1>3. HomeInv /\ ParentInv
  BY DEF HomeInv, ParentInv, Open, Traced
<1>4. PendingInv /\ StatusInv
  BY DEF PendingInv, StatusInv, Live, MarkedSpansSettled, Traced
<1>5. QED
  BY <1>1, <1>2, <1>3, <1>4 DEF Inv

(* Type correctness of one step, one action at a time.                     *)
LEMMA TypeStep == Inv /\ [Next]_vars => TypeOK'
<1> SUFFICES ASSUME Inv, [Next]_vars PROVE TypeOK'
  OBVIOUS
<1> USE DEF Inv, TypeOK, callVars, mapVars, spanVars, Contexts
<1>1. ASSUME NEW r \in Runs, Refuse(r) \/ Start(r) PROVE TypeOK'
  <2>1. CASE Refuse(r)
    BY <2>1 DEF Refuse
  <2>2. CASE Start(r)
    BY <2>2 DEF Start
  <2>3. QED
    BY <1>1, <2>1, <2>2
<1>2. ASSUME NEW r \in Runs, MethodSettles(r) PROVE TypeOK'
  BY <1>2 DEF MethodSettles, StatusInv, HomeInv
<1>3. ASSUME NEW r \in Runs, FinishTrace(r) PROVE TypeOK'
  BY <1>3 DEF FinishTrace
<1>4. ASSUME NEW x \in Contexts, NEW e \in BOOLEAN, Call(x, e) PROVE TypeOK'
  <2> DEFINE c == FreshCall
  <2>1. c \in Calls /\ mode[c] = "unused"
    BY <1>4, FreshCallUnused DEF Call
  <2>2. x \in Calls => mode[x] # "unused"
    <3>1. CASE Idle
      BY <1>4, <3>1 DEF Call, CanCall, Started, Settled
    <3>2. CASE ~Idle
      BY <1>4, <3>2 DEF Call, CanCall, StackInv, Idle
    <3>3. QED
      BY <3>1, <3>2
  <2>3. OwnerOf(x) \in Runs
    BY <2>2 DEF OwnerOf, InfoInv, Infos
  <2>4. SpanContext(x) \in Contexts
    BY <2>2 DEF SpanContext, InfoInv, Infos
  <2>5. [owner |-> OwnerOf(x), from |-> x, parent |-> SpanContext(x), entry |-> e] \in Infos
    BY <2>3, <2>4 DEF Infos
  <2>6. stack' \in Seq(Calls)
    BY <1>4, <2>1 DEF Call
  <2>7. QED
    BY <1>4, <2>1, <2>5, <2>6 DEF Call
<1>5. ASSUME NEW c \in Calls, NEW st \in Outcomes, ReturnValue(c, st) PROVE TypeOK'
  <2>1. stack' \in Seq(Calls) /\ info[c].owner \in Runs
    BY <1>5, PopStack DEF ReturnValue, InfoInv, Infos
  <2>2. CASE info[c].entry
    BY <1>5, <2>1, <2>2 DEF ReturnValue, PushSpan, Settled
  <2>3. CASE ~info[c].entry
    <3>1. /\ mode' = [mode EXCEPT ![c] = st] /\ status' = [status EXCEPT ![c] = st]
          /\ entries' = entries \cup {info[c].owner}
          /\ active' = [active EXCEPT ![info[c].owner] = @ \cup {c}]
          /\ UNCHANGED <<phase, info, awaits, pendingKeys, pending, marked, wait, trace>>
      BY <1>5, <2>3 DEF ReturnValue, PushSpan
    <3>2. active' \in [Runs -> SUBSET Calls] /\ entries' \in SUBSET Runs
      BY <2>1, <3>1
    <3>3. QED
      BY <2>1, <3>1, <3>2 DEF Settled
  <2>4. QED
    BY <2>2, <2>3
<1>6. ASSUME NEW c \in Calls, NEW st \in Outcomes, Settle(c, st) PROVE TypeOK'
  <2>1. info[c].owner \in Runs
    BY <1>6 DEF Settle, InfoInv, Infos
  <2>2. QED
    BY <1>6, <2>1 DEF Settle, UpdateSpan, Settled
<1>7. ASSUME NEW c \in Calls, NEW a \in BOOLEAN, ReturnPromise(c, a) PROVE TypeOK'
  <2>1. stack' \in Seq(Calls) /\ info[c].owner \in Runs
    BY <1>7, PopStack DEF ReturnPromise, InfoInv, Infos
  <2>2. CASE info[c].entry
    BY <1>7, <2>1, <2>2 DEF ReturnPromise, PushSpan, TrackPendingSpan, Settled
  <2>3. CASE ~info[c].entry
    <3>1. /\ mode' = [mode EXCEPT ![c] = "pending"] /\ awaits' \in SUBSET Calls
          /\ status' = [status EXCEPT ![c] = "partial"]
          /\ UNCHANGED <<phase, info, marked, wait, trace>>
      BY <1>7, <2>3 DEF ReturnPromise, PushSpan, TrackPendingSpan
    <3>2. active' \in [Runs -> SUBSET Calls] /\ entries' \in SUBSET Runs
      BY <1>7, <2>1, <2>3 DEF ReturnPromise, PushSpan
    <3>3. pending' \in [Runs -> SUBSET Calls] /\ pendingKeys' \in SUBSET Runs
      BY <1>7, <2>1, <2>3 DEF ReturnPromise, TrackPendingSpan
    <3>4. QED
      BY <2>1, <3>1, <3>2, <3>3
  <2>4. QED
    BY <2>2, <2>3
<1>8. CASE UNCHANGED vars
  BY <1>8 DEF vars
<1>9. QED
  BY <1>1, <1>2, <1>3, <1>4, <1>5, <1>6, <1>7, <1>8 DEF Next

(* The stack and the executing calls change together.                      *)
LEMMA StackStep == Inv /\ [Next]_vars => StackInv'
<1> SUFFICES ASSUME Inv, [Next]_vars PROVE StackInv'
  OBVIOUS
<1> USE DEF Inv, callVars, mapVars, spanVars
<1>0. TypeOK /\ StackInv
  OBVIOUS
<1>1. ASSUME NEW r \in Runs, Refuse(r) \/ Start(r) \/ MethodSettles(r) \/ FinishTrace(r)
      PROVE  StackInv'
  BY <1>0, <1>1 DEF Refuse, Start, MethodSettles, FinishTrace, StackInv
<1>2. ASSUME NEW x \in Contexts, NEW e \in BOOLEAN, Call(x, e) PROVE StackInv'
  <2> DEFINE c == FreshCall
  <2>1. c \in Calls /\ mode[c] = "unused"
    BY <1>2, FreshCallUnused DEF Call
  <2>2. stack' = Append(stack, c) /\ mode' = [mode EXCEPT ![c] = "frame"]
    BY <1>2 DEF Call
  <2>3. /\ stack \in Seq(Calls) /\ mode \in [Calls -> {"unused", "frame", "pending"} \cup Settled]
        /\ \A i \in 1..Len(stack) : stack[i] \in Calls
    BY <1>0 DEF TypeOK
  <2>4. /\ Len(stack') = Len(stack) + 1 /\ stack'[Len(stack) + 1] = c
        /\ \A i \in 1..Len(stack) : stack'[i] = stack[i]
    BY <2>2, <2>3
  <2>5. \A i \in 1..Len(stack) : stack[i] # c
    BY <1>0, <2>1 DEF StackInv
  <2>6. Len(stack) \in Nat /\ \A i \in 1..Len(stack') : i \in 1..Len(stack) \/ i = Len(stack) + 1
    BY <2>3, <2>4
  <2>7. \A i \in 1..Len(stack') : mode'[stack'[i]] = "frame"
    BY <1>0, <2>1, <2>2, <2>3, <2>4, <2>6 DEF StackInv
  <2>8. \A i, j \in 1..Len(stack') : stack'[i] = stack'[j] => i = j
    BY <1>0, <2>4, <2>5, <2>6 DEF StackInv
  <2>9. \A d \in Calls : mode'[d] = "frame" => \E i \in 1..Len(stack') : stack'[i] = d
    <3> SUFFICES ASSUME NEW d \in Calls, mode'[d] = "frame"
                 PROVE  \E i \in 1..Len(stack') : stack'[i] = d
      OBVIOUS
    <3>1. CASE d = c
      BY <2>4, <2>6, <3>1
    <3>2. CASE d # c
      BY <1>0, <2>1, <2>2, <2>3, <2>4, <2>6, <3>2 DEF StackInv
    <3>3. QED
      BY <3>1, <3>2
  <2>10. QED
    BY <2>7, <2>8, <2>9 DEF StackInv
<1>3. ASSUME NEW c \in Calls, NEW st \in {"pending"} \cup Settled, Returns(c),
             mode' = [mode EXCEPT ![c] = st]
      PROVE  StackInv'
  <2>1. st # "frame"
    BY DEF Settled
  <2>2. /\ mode \in [Calls -> {"unused", "frame", "pending"} \cup Settled]
        /\ \A i \in 1..Len(stack) : stack[i] \in Calls
    BY <1>0 DEF TypeOK
  <2>3. /\ \A i \in 1..Len(stack') : stack'[i] # c /\ stack'[i] = stack[i]
        /\ \A i \in 1..Len(stack) : stack[i] # c => i \in 1..Len(stack')
        /\ \A i \in 1..Len(stack') : i \in 1..Len(stack)
    <3>1. Len(stack') = Len(stack) - 1 /\ Len(stack) \in Nat
      BY <1>0, <1>3, PopStack DEF TypeOK
    <3>2. QED
      BY <1>0, <1>3, <3>1, PopStack
  <2>4. \A i \in 1..Len(stack') : mode'[stack'[i]] = "frame"
    BY <1>0, <1>3, <2>2, <2>3 DEF StackInv
  <2>5. \A i, j \in 1..Len(stack') : stack'[i] = stack'[j] => i = j
    BY <1>0, <2>3 DEF StackInv
  <2>6. \A d \in Calls : mode'[d] = "frame" => \E i \in 1..Len(stack') : stack'[i] = d
    BY <1>0, <1>3, <2>1, <2>2, <2>3 DEF StackInv
  <2>7. QED
    BY <2>4, <2>5, <2>6 DEF StackInv
<1>4. ASSUME NEW c \in Calls, NEW st \in Outcomes, Settle(c, st) PROVE StackInv'
  BY <1>0, <1>4 DEF Settle, StackInv, TypeOK, Idle, Settled
<1>5. CASE UNCHANGED vars
  BY <1>0, <1>5 DEF vars, StackInv
<1>6. QED
  BY <1>1, <1>2, <1>3, <1>4, <1>5 DEF Next, ReturnValue, ReturnPromise, Settled

(* An idle event loop leaves no call executing: what StackInv is for.      *)
LEMMA IdleMeansNoFrame ==
    ASSUME Inv, Idle, NEW c \in Calls
    PROVE  mode[c] # "frame"
BY DEF Inv, StackInv, Idle
(* What a call knows about itself is written once, and runs only advance.  *)
LEMMA InfoStep == Inv /\ [Next]_vars => InfoInv'
<1> SUFFICES ASSUME Inv, [Next]_vars PROVE InfoInv'
  OBVIOUS
<1> USE DEF callVars, mapVars, spanVars
<1>0. TypeOK /\ StackInv /\ InfoInv
  BY DEF Inv
<1>1. ASSUME NEW r \in Runs, NEW st \in {"refused", "running"},
             phase[r] = "idle", phase' = [phase EXCEPT ![r] = st], UNCHANGED <<info, mode>>
      PROVE  InfoInv'
  BY <1>0, <1>1 DEF InfoInv, TypeOK, Infos
<1>2. ASSUME NEW r \in Runs, NEW st \in {"waiting", "traced"},
             phase' = [phase EXCEPT ![r] = st], UNCHANGED <<info, mode>>
      PROVE  InfoInv'
  BY <1>0, <1>2 DEF InfoInv, TypeOK, Infos
<1>3. ASSUME NEW x \in Contexts, NEW e \in BOOLEAN, Call(x, e) PROVE InfoInv'
  <2> DEFINE c == FreshCall
             rec == [owner |-> OwnerOf(x), from |-> x, parent |-> SpanContext(x), entry |-> e]
  <2>1. c \in Calls /\ mode[c] = "unused"
    BY <1>3, FreshCallUnused DEF Call
  <2>2. /\ info' = [info EXCEPT ![c] = rec] /\ mode' = [mode EXCEPT ![c] = "frame"]
        /\ phase' = phase
    BY <1>3 DEF Call
  <2>3. x \in Calls => mode[x] # "unused"
    BY <1>0, <1>3 DEF Call, CanCall, Started, StackInv, Idle, Settled, TypeOK
  <2>4. x \in Runs => phase[x] \in {"running", "waiting", "traced"}
    <3>1. CASE Idle
      BY <1>3, <3>1 DEF Call, CanCall, Started
    <3>2. CASE ~Idle
      BY <1>0, <1>3, <3>2 DEF Call, CanCall, TypeOK, Idle
    <3>3. QED
      BY <3>1, <3>2
  <2>5. rec \in Infos /\ phase[rec.owner] \in {"running", "waiting", "traced"}
    <3>1. CASE x \in Runs
      BY <2>4, <3>1 DEF OwnerOf, SpanContext, Infos, Contexts
    <3>2. CASE x \in Calls
      BY <1>0, <2>3, <3>2 DEF OwnerOf, SpanContext, Infos, Contexts, InfoInv
    <3>3. QED
      BY <3>1, <3>2 DEF Contexts
  <2>6. \/ rec.parent = rec.owner
        \/ /\ rec.parent \in Calls /\ mode[rec.parent] # "unused"
           /\ info[rec.parent].owner = rec.owner /\ ~info[rec.parent].entry
    <3>1. CASE x \in Runs
      BY <3>1 DEF OwnerOf, SpanContext
    <3>2. CASE x \in Calls
      BY <1>0, <2>3, <3>2 DEF OwnerOf, SpanContext, InfoInv
    <3>3. QED
      BY <3>1, <3>2 DEF Contexts
  <2>7. info'[c] = rec /\ \A d \in Calls : d # c => info'[d] = info[d] /\ mode'[d] = mode[d]
    BY <1>0, <2>1, <2>2 DEF TypeOK
  <2> HIDE DEF c, rec
  <2>8. ASSUME NEW d \in Calls, mode'[d] # "unused"
        PROVE  /\ info'[d] \in Infos
               /\ phase'[info'[d].owner] \in {"running", "waiting", "traced"}
               /\ \/ info'[d].parent = info'[d].owner
                  \/ /\ info'[d].parent \in Calls /\ mode'[info'[d].parent] # "unused"
                     /\ info'[info'[d].parent].owner = info'[d].owner
                     /\ ~info'[info'[d].parent].entry
    <3>1. CASE d = c
      BY <2>1, <2>2, <2>5, <2>6, <2>7, <3>1
    <3>2. CASE d # c
      BY <1>0, <2>1, <2>2, <2>7, <2>8, <3>2 DEF InfoInv
    <3>3. QED
      BY <3>1, <3>2
  <2>9. QED
    BY <2>8 DEF InfoInv
<1>4. ASSUME NEW c \in Calls, NEW st \in {"pending"} \cup Settled,
             mode[c] \in {"frame", "pending"}, mode' = [mode EXCEPT ![c] = st],
             UNCHANGED <<info, phase>>
      PROVE  InfoInv'
  BY <1>0, <1>4 DEF InfoInv, TypeOK, Settled
<1>5. CASE UNCHANGED vars
  BY <1>0, <1>5 DEF InfoInv, vars
<1>6. ASSUME NEW r \in Runs, Refuse(r) \/ Start(r) \/ MethodSettles(r) \/ FinishTrace(r)
      PROVE  InfoInv'
  BY <1>1, <1>2, <1>6 DEF Refuse, Start, MethodSettles, FinishTrace
<1>7. ASSUME NEW c \in Calls, NEW st \in Outcomes, ReturnValue(c, st) \/ Settle(c, st)
      PROVE  InfoInv'
  BY <1>0, <1>4, <1>7, PopStack DEF ReturnValue, Settle, Settled
<1>8. ASSUME NEW c \in Calls, NEW a \in BOOLEAN, ReturnPromise(c, a) PROVE InfoInv'
  BY <1>0, <1>4, <1>8, PopStack DEF ReturnPromise
<1>9. QED
  BY <1>3, <1>5, <1>6, <1>7, <1>8 DEF Next

(* A span is pushed once, stays in the live map until the trace is taken,  *)
(* and is in one of the two from then on.                                  *)
LEMMA HomeStep == Inv /\ [Next]_vars => HomeInv'
<1> SUFFICES ASSUME Inv, [Next]_vars PROVE HomeInv'
  OBVIOUS
<1> USE DEF callVars, mapVars, spanVars
<1>0. TypeOK /\ StackInv /\ InfoInv /\ HomeInv
  BY DEF Inv
<1>1. ASSUME NEW r \in Runs, Refuse(r) \/ MethodSettles(r) PROVE HomeInv'
  <2>1. UNCHANGED <<callVars, mapVars, trace>>
    BY <1>1 DEF Refuse, MethodSettles
  <2>2. \A q \in Runs : Traced(q)' <=> Traced(q)
    BY <1>0, <1>1 DEF Refuse, MethodSettles, TypeOK, Traced
  <2>3. QED
    BY <1>0, <2>1, <2>2 DEF HomeInv, Open
<1>2. ASSUME NEW r \in Runs, Start(r) PROVE HomeInv'
  <2>1. active[r] = {} /\ trace[r] = {}
    BY <1>0, <1>2 DEF Start, HomeInv, InfoInv, Open, Traced, TypeOK
  <2>2. active' = active
    BY <1>0, <1>2, <2>1 DEF Start, TypeOK
  <2>3. QED
    BY <1>0, <1>2, <2>2 DEF Start, HomeInv, TypeOK, Open, Traced
<1>3. ASSUME NEW r \in Runs, FinishTrace(r) PROVE HomeInv'
  <2>1. /\ trace[r] = {} /\ trace'[r] = active[r] /\ active'[r] = {}
        /\ phase'[r] = "traced" /\ entries' = entries \ {r}
        /\ \A q \in Runs : q # r => trace'[q] = trace[q] /\ active'[q] = active[q]
                                    /\ phase'[q] = phase[q]
        /\ info' = info /\ mode' = mode
    BY <1>0, <1>3 DEF FinishTrace, HomeInv, TypeOK, Traced
  <2>2. QED
    BY <1>0, <2>1 DEF HomeInv, Open, Traced
<1>4. ASSUME NEW x \in Contexts, NEW e \in BOOLEAN, Call(x, e) PROVE HomeInv'
  <2> DEFINE c == FreshCall
  <2>1. c \in Calls /\ mode[c] = "unused"
    BY <1>4, FreshCallUnused DEF Call
  <2>2. /\ mode' = [mode EXCEPT ![c] = "frame"]
        /\ \A d \in Calls : d # c => info'[d] = info[d]
        /\ UNCHANGED <<phase, entries, active, trace>>
    BY <1>0, <1>4 DEF Call, TypeOK
  <2>3. \A r \in Runs : c \notin active[r] \cup trace[r]
    BY <1>0, <2>1 DEF HomeInv, Open
  <2> HIDE DEF c
  <2>4. \A d \in Calls : (Open(d))' <=> (Open(d) /\ d # c)
    BY <1>0, <2>1, <2>2 DEF TypeOK, Open
  <2>5. QED
    BY <1>0, <2>1, <2>2, <2>3, <2>4 DEF HomeInv, TypeOK, Traced
<1>5. ASSUME NEW c \in Calls, NEW st \in {"pending"} \cup Settled, NEW sst,
             mode[c] = "frame", mode' = [mode EXCEPT ![c] = st],
             PushSpan(c, sst), UNCHANGED <<phase, info, trace>>
      PROVE  HomeInv'
  <2>1. /\ info[c].owner \in Runs
        /\ \A r \in Runs : c \notin active[r] \cup trace[r]
    BY <1>0, <1>5 DEF InfoInv, Infos, HomeInv, Open
  <2>2. \A d \in Calls : (Open(d))' <=> (Open(d) \/ d = c)
    BY <1>0, <1>5 DEF TypeOK, Open, Settled
  <2>3. CASE info[c].entry
    BY <1>0, <1>5, <2>1, <2>2, <2>3 DEF PushSpan, HomeInv, TypeOK, Traced
  <2>4. CASE ~info[c].entry
    <3> DEFINE q == info[c].owner
    <3>1. /\ entries' = entries \cup {q} /\ active'[q] = active[q] \cup {c}
          /\ \A r \in Runs : r # q => active'[r] = active[r]
          /\ UNCHANGED <<phase, info, trace>>
      BY <1>0, <1>5, <2>1, <2>4 DEF PushSpan, TypeOK
    <3> HIDE DEF q
    <3>2. \A r \in Runs : \A d \in active'[r] \cup trace'[r] :
             d \in active[r] \cup trace[r] \/ (d = c /\ r = q)
      BY <3>1
    <3>3. \A r \in Runs : (active'[r] \cap trace'[r] = {})
      BY <1>0, <2>1, <3>1 DEF HomeInv
    <3>4. \A r \in Runs : \A d \in active'[r] \cup trace'[r] :
             (Open(d) /\ info[d].owner = r /\ ~info[d].entry)'
      BY <1>0, <1>5, <2>2, <2>4, <3>1, <3>2 DEF HomeInv, TypeOK, q
    <3>5. \A r \in Runs, d \in Calls :
             (Open(d) /\ info[d].owner = r /\ ~info[d].entry)' => d \in active'[r] \cup trace'[r]
      BY <1>0, <1>5, <2>2, <3>1 DEF HomeInv, q
    <3>6. /\ \A r \in Runs : ~(Traced(r))' => trace'[r] = {}
          /\ \A r \in Runs : r \notin entries' => active'[r] = {}
          /\ \A r \in Runs : (Traced(r))' /\ r \in entries' => active'[r] # {}
      BY <1>0, <1>5, <3>1 DEF HomeInv, Traced
    <3>7. QED
      BY <3>3, <3>4, <3>5, <3>6 DEF HomeInv
  <2>5. QED
    BY <2>3, <2>4
<1>6. ASSUME NEW c \in Calls, NEW st \in Outcomes, Settle(c, st) PROVE HomeInv'
  <2>1. /\ \A d \in Calls : (Open(d))' <=> Open(d)
        /\ UNCHANGED <<phase, info, entries, active, trace>>
    BY <1>0, <1>6 DEF Settle, TypeOK, Open, Settled
  <2>2. QED
    BY <1>0, <2>1 DEF HomeInv, TypeOK, Traced
<1>7. ASSUME NEW c \in Calls, NEW st \in Outcomes, ReturnValue(c, st) PROVE HomeInv'
  BY <1>0, <1>5, <1>7, PopStack DEF ReturnValue, Settled
<1>8. ASSUME NEW c \in Calls, NEW a \in BOOLEAN, ReturnPromise(c, a) PROVE HomeInv'
  BY <1>0, <1>5, <1>8, PopStack DEF ReturnPromise
<1>9. CASE UNCHANGED vars
  BY <1>0, <1>9 DEF HomeInv, vars, Open, Traced
<1>10. QED
  BY <1>1, <1>2, <1>3, <1>4, <1>6, <1>7, <1>8, <1>9 DEF Next
(* A child is pushed before its executing parent; nothing else runs until  *)
(* the parent has been pushed as well.                                     *)
LEMMA ParentStep == Inv /\ [Next]_vars => ParentInv'
<1> SUFFICES ASSUME Inv, [Next]_vars PROVE ParentInv'
  OBVIOUS
<1> USE DEF callVars, mapVars, spanVars
<1>0. TypeOK /\ StackInv /\ InfoInv /\ HomeInv /\ ParentInv
  BY DEF Inv
<1>1. ASSUME NEW r \in Runs, Refuse(r) \/ MethodSettles(r) PROVE ParentInv'
  BY <1>0, <1>1 DEF Refuse, MethodSettles, ParentInv, TypeOK, Traced
<1>2. ASSUME NEW r \in Runs, Start(r) PROVE ParentInv'
  BY <1>0, <1>2 DEF Start, ParentInv, TypeOK, Traced
<1>3. ASSUME NEW r \in Runs, FinishTrace(r) PROVE ParentInv'
  <2>1. /\ trace'[r] = active[r] /\ active'[r] = {}
        /\ \A q \in Runs : q # r => trace'[q] = trace[q] /\ active'[q] = active[q]
                                    /\ phase'[q] = phase[q]
        /\ info' = info /\ mode' = mode /\ ~Traced(r)
    BY <1>0, <1>3 DEF FinishTrace, TypeOK, Traced
  <2>2. \A c \in active[r] : info[c].parent \in active[r] \cup {r}
    <3> SUFFICES ASSUME NEW c \in active[r] PROVE info[c].parent \in active[r] \cup {r}
      OBVIOUS
    <3>1. c \in Calls /\ mode[c] # "unused" /\ info[c].owner = r
      BY <1>0 DEF HomeInv, TypeOK, Open
    <3>2. info[c].parent = r \/ info[c].parent \in Calls
      BY <1>0, <3>1 DEF InfoInv
    <3>3. info[c].parent \in Calls => mode[info[c].parent] # "frame"
      BY <1>3, IdleMeansNoFrame DEF FinishTrace
    <3>4. QED
      BY <1>0, <2>1, <3>2, <3>3, RunsAreNotCalls DEF ParentInv
  <2>3. QED
    BY <1>0, <2>1, <2>2 DEF ParentInv, Traced
<1>4. ASSUME NEW x \in Contexts, NEW e \in BOOLEAN, Call(x, e) PROVE ParentInv'
  <2> DEFINE c == FreshCall
  <2>1. c \in Calls /\ mode[c] = "unused"
    BY <1>4, FreshCallUnused DEF Call
  <2>2. /\ \A d \in Calls : d # c => info'[d] = info[d] /\ mode'[d] = mode[d]
        /\ mode' = [mode EXCEPT ![c] = "frame"]
        /\ UNCHANGED <<phase, active, trace>>
    BY <1>0, <1>4 DEF Call, TypeOK
  <2>3. \A r \in Runs : c \notin active[r] \cup trace[r]
    BY <1>0, <2>1 DEF HomeInv, Open
  <2> HIDE DEF c
  <2>4. \A r \in Runs : \A d \in active[r] \cup trace[r] : d \in Calls /\ info'[d] = info[d]
    BY <1>0, <2>2, <2>3 DEF TypeOK
  <2>5. \A p : mode[p] = "frame" => mode'[p] = "frame"
    BY <2>2
  <2>6. QED
    BY <1>0, <2>2, <2>4, <2>5 DEF ParentInv, Traced
<1>5. ASSUME NEW c \in Calls, NEW st \in {"pending"} \cup Settled, NEW sst,
             mode[c] = "frame", mode' = [mode EXCEPT ![c] = st],
             PushSpan(c, sst), UNCHANGED <<phase, info, trace>>
      PROVE  ParentInv'
  <2>1. /\ info[c].owner \in Runs
        /\ \A d \in Calls : d # c => mode'[d] = mode[d]
    BY <1>0, <1>5 DEF InfoInv, Infos, TypeOK
  <2>2. \A r \in Runs : \A d \in active[r] :
           d \in Calls /\ mode[d] # "unused" /\ info[d].owner = r
    BY <1>0 DEF HomeInv, TypeOK, Open
  <2>3. CASE info[c].entry
    <3>1. active' = active
      BY <1>5, <2>3 DEF PushSpan
    <3>2. \A r \in Runs : \A d \in active[r] : info[d].parent # c
      BY <1>0, <2>2, <2>3, RunsAreNotCalls DEF InfoInv
    <3>3. \A r \in Runs : \A d \in active[r] :
             info[d].parent \in Calls \cup {r}
      BY <1>0, <2>2 DEF InfoInv
    <3>4. QED
      BY <1>0, <1>5, <2>1, <3>1, <3>2, <3>3 DEF ParentInv, Traced
  <2>4. CASE ~info[c].entry
    <3> DEFINE q == info[c].owner
    <3>1. /\ active'[q] = active[q] \cup {c}
          /\ \A r \in Runs : r # q => active'[r] = active[r]
          /\ UNCHANGED <<phase, info, trace>>
      BY <1>0, <1>5, <2>1, <2>4 DEF PushSpan, TypeOK
    <3>2. ASSUME NEW r \in Runs, NEW d \in active'[r], ~Traced(r)
          PROVE  \/ info[d].parent = r \/ info[d].parent \in active'[r]
                 \/ mode'[info[d].parent] = "frame"
      <4> DEFINE p == info[d].parent
      <4>1. d \in Calls /\ mode[d] # "unused" /\ info[d].owner = r
        BY <1>5, <2>2, <3>1, <3>2
      <4>2. p = r \/ (p \in Calls /\ mode[p] # "unused" /\ info[p].owner = r /\ ~info[p].entry)
        BY <1>0, <4>1 DEF InfoInv
      <4>3. CASE p = c
        BY <2>1, <3>1, <3>2, <4>2, <4>3, RunsAreNotCalls
      <4>4. CASE p \in Calls /\ p # c /\ mode[p] # "frame"
        <5>1. Open(p)
          BY <4>2, <4>4, RunsAreNotCalls DEF Open
        <5>2. p \in active[r] \cup trace[r]
          BY <1>0, <4>2, <4>4, <5>1, RunsAreNotCalls DEF HomeInv
        <5>3. trace[r] = {}
          BY <1>0, <3>2 DEF HomeInv
        <5>4. QED
          BY <3>1, <5>2, <5>3
      <4>5. CASE p \in Calls /\ p # c /\ mode[p] = "frame"
        BY <2>1, <4>5
      <4>6. QED
        BY <4>2, <4>3, <4>4, <4>5
    <3>3. QED
      BY <1>0, <3>1, <3>2 DEF ParentInv, Traced
  <2>5. QED
    BY <2>3, <2>4
<1>6. ASSUME NEW c \in Calls, NEW st \in Outcomes, Settle(c, st) PROVE ParentInv'
  <2>1. /\ \A p \in Calls : p # c => mode'[p] = mode[p]
        /\ mode[c] # "frame" /\ UNCHANGED <<phase, info, active, trace>>
    BY <1>0, <1>6 DEF Settle, TypeOK
  <2>2. \A r \in Runs : \A d \in active[r] : info[d].parent \in Calls \cup {r}
    BY <1>0 DEF HomeInv, InfoInv, Open, TypeOK
  <2>3. QED
    BY <1>0, <2>1, <2>2 DEF ParentInv, Traced
<1>7. ASSUME NEW c \in Calls, NEW st \in Outcomes, ReturnValue(c, st) PROVE ParentInv'
  BY <1>0, <1>5, <1>7, PopStack DEF ReturnValue, Settled
<1>8. ASSUME NEW c \in Calls, NEW a \in BOOLEAN, ReturnPromise(c, a) PROVE ParentInv'
  BY <1>0, <1>5, <1>8, PopStack DEF ReturnPromise
<1>9. CASE UNCHANGED vars
  BY <1>0, <1>9 DEF ParentInv, vars, Traced
<1>10. QED
  BY <1>1, <1>2, <1>3, <1>4, <1>6, <1>7, <1>8, <1>9 DEF Next

(* A promise enters the set with its span and leaves it when it settles.   *)
LEMMA PendingStep == Inv /\ [Next]_vars => PendingInv'
<1> SUFFICES ASSUME Inv, [Next]_vars PROVE PendingInv'
  OBVIOUS
<1> USE DEF callVars, mapVars, spanVars
<1>0. TypeOK /\ StackInv /\ InfoInv /\ HomeInv /\ PendingInv
  BY DEF Inv
<1>1. ASSUME NEW r \in Runs, Refuse(r) \/ MethodSettles(r) PROVE PendingInv'
  BY <1>0, <1>1 DEF Refuse, MethodSettles, PendingInv, TypeOK, Live
<1>2. ASSUME NEW r \in Runs, Start(r) PROVE PendingInv'
  BY <1>0, <1>2 DEF Start, PendingInv, TypeOK, Live
<1>3. ASSUME NEW r \in Runs, FinishTrace(r) PROVE PendingInv'
  BY <1>0, <1>3 DEF FinishTrace, PendingInv, TypeOK, Live
<1>4. ASSUME NEW x \in Contexts, NEW e \in BOOLEAN, Call(x, e) PROVE PendingInv'
  <2>1. FreshCall \in Calls /\ mode[FreshCall] = "unused"
    BY <1>4, FreshCallUnused DEF Call
  <2>2. /\ mode' = [mode EXCEPT ![FreshCall] = "frame"]
        /\ UNCHANGED <<phase, active, pendingKeys, pending>>
    BY <1>4 DEF Call
  <2>3. QED
    BY <1>0, <2>1, <2>2 DEF PendingInv, TypeOK, Live
<1>5. ASSUME NEW c \in Calls, NEW st \in Outcomes, ReturnValue(c, st) PROVE PendingInv'
  <2>1. /\ mode[c] = "frame" /\ mode' = [mode EXCEPT ![c] = st] /\ st # "pending"
        /\ UNCHANGED <<phase, pendingKeys, pending>>
    BY <1>0, <1>5, PopStack, OutcomesAssumption DEF ReturnValue
  <2>2. \A r \in Runs : \A d \in active'[r] : d \in active[r] \/ d = c
    BY <1>0, <1>5 DEF ReturnValue, PushSpan, TypeOK
  <2>3. QED
    BY <1>0, <2>1, <2>2 DEF PendingInv, TypeOK, Live
<1>6. ASSUME NEW c \in Calls, NEW a \in BOOLEAN, ReturnPromise(c, a) PROVE PendingInv'
  <2> DEFINE q == info[c].owner
  <2>1. /\ mode[c] = "frame" /\ mode' = [mode EXCEPT ![c] = "pending"] /\ q \in Runs
        /\ UNCHANGED <<phase, pendingKeys>>
    BY <1>0, <1>6, PopStack DEF ReturnPromise, InfoInv, Infos
  <2>2. CASE info[c].entry
    <3>1. active' = active /\ pending' = pending
      BY <1>6, <2>2 DEF ReturnPromise, PushSpan, TrackPendingSpan
    <3>2. \A r \in Runs : c \notin active[r]
      BY <1>0, <2>2 DEF HomeInv
    <3>3. QED
      BY <1>0, <2>1, <3>1, <3>2 DEF PendingInv, TypeOK, Live
  <2>3. CASE ~info[c].entry
    <3>1. /\ active'[q] = active[q] \cup {c}
          /\ \A r \in Runs : r # q => active'[r] = active[r]
          /\ pending' = IF q \in pendingKeys
                        THEN [pending EXCEPT ![q] = @ \cup {c}] ELSE pending
      BY <1>0, <1>6, <2>1, <2>3 DEF ReturnPromise, PushSpan, TrackPendingSpan, TypeOK
    <3>2. \A r \in Runs : pending[r] \subseteq pending'[r]
      BY <1>0, <2>1, <3>1 DEF TypeOK
    <3>3. q \in pendingKeys => c \in pending'[q]
      BY <1>0, <2>1, <3>1 DEF TypeOK
    <3>4. ASSUME NEW r \in Runs, NEW d \in active'[r], Live(r), mode'[d] = "pending"
          PROVE  d \in pending'[r]
      <4>1. c \notin active[r]
        BY <1>0, <2>1 DEF HomeInv, Open
      <4>2. CASE d \in active[r]
        BY <1>0, <2>1, <3>2, <3>4, <4>1, <4>2 DEF PendingInv, TypeOK
      <4>3. CASE d \notin active[r]
        BY <1>0, <3>1, <3>3, <3>4, <4>3 DEF PendingInv
      <4>4. QED
        BY <4>2, <4>3
    <3>5. \A r \in Runs : r \notin pendingKeys => pending'[r] = {}
      BY <1>0, <2>1, <3>1 DEF PendingInv, TypeOK
    <3>6. \A r \in Runs : pending'[r] \subseteq Calls
      BY <1>0, <2>1, <3>1 DEF TypeOK
    <3>7. QED
      BY <1>0, <2>1, <3>4, <3>5, <3>6 DEF PendingInv, Live
  <2>4. QED
    BY <2>2, <2>3
<1>7. ASSUME NEW c \in Calls, NEW st \in Outcomes, Settle(c, st) PROVE PendingInv'
  <2>1. /\ mode' = [mode EXCEPT ![c] = st] /\ st # "pending" /\ info[c].owner \in Runs
        /\ pending' = [pending EXCEPT ![info[c].owner] = @ \ {c}]
        /\ UNCHANGED <<phase, active, pendingKeys>>
    BY <1>0, <1>7, OutcomesAssumption DEF Settle, InfoInv, Infos
  <2>2. QED
    BY <1>0, <2>1 DEF PendingInv, TypeOK, Live
<1>8. CASE UNCHANGED vars
  BY <1>0, <1>8 DEF PendingInv, vars, Live
<1>9. QED
  BY <1>1, <1>2, <1>3, <1>4, <1>5, <1>6, <1>7, <1>8 DEF Next
(* The status of a live span follows its call; a marked span is settled, or*)
(* is among the promises its run waits for.                                *)
LEMMA StatusStep == Inv /\ [Next]_vars => StatusInv'
<1> SUFFICES ASSUME Inv, [Next]_vars PROVE StatusInv'
  OBVIOUS
<1> USE DEF callVars, mapVars, spanVars
<1>0. TypeOK /\ StackInv /\ InfoInv /\ HomeInv /\ PendingInv /\ StatusInv
  BY DEF Inv
<1>m. \A c \in marked : mode[c] \in {"pending"} \cup Settled
  BY <1>0 DEF StatusInv
<1>1. ASSUME NEW r \in Runs, Refuse(r) \/ Start(r) PROVE StatusInv'
  <2>1. /\ phase[r] = "idle" /\ phase'[r] # "traced"
        /\ \A q \in Runs : q # r => phase'[q] = phase[q]
        /\ \A q \in Runs : active'[q] \subseteq active[q]
        /\ UNCHANGED <<mode, info, marked, wait, status, trace>>
    BY <1>0, <1>1 DEF Refuse, Start, TypeOK
  <2>2. \A q \in Runs : phase[q] = "waiting" => phase'[q] = "waiting"
    BY <2>1
  <2>3. \A q \in Runs : (Traced(q))' => Traced(q)
    BY <2>1 DEF Traced
  <2>4. \A c \in marked : info[c].owner \in Runs
    BY <1>0, <1>m DEF InfoInv, Infos, TypeOK, Settled
  <2>5. QED
    BY <1>0, <2>1, <2>2, <2>3, <2>4 DEF StatusInv, MarkedSpansSettled
<1>2. ASSUME NEW r \in Runs, MethodSettles(r) PROVE StatusInv'
  <2>1. /\ phase[r] = "running" /\ phase' = [phase EXCEPT ![r] = "waiting"]
        /\ marked' = marked \cup {c \in active[r] : status[c] = "partial"}
        /\ wait' = [wait EXCEPT ![r] = pending[r]]
        /\ UNCHANGED <<mode, info, active, status, trace>>
    BY <1>2 DEF MethodSettles
  <2>2. ASSUME NEW c \in active[r], status[c] = "partial"
        PROVE  /\ c \in Calls /\ mode[c] = "pending" /\ info[c].owner = r
               /\ phase'[r] = "waiting" /\ c \in wait'[r]
    <3>1. c \in Calls /\ Open(c) /\ info[c].owner = r
      BY <1>0 DEF HomeInv, TypeOK
    <3>2. mode[c] = "pending"
      BY <1>0, <2>2, <3>1, OutcomesAssumption DEF StatusInv, TypeOK, Settled
    <3>3. c \in pending[r]
      BY <1>0, <2>1, <3>2 DEF PendingInv, Live
    <3>4. QED
      BY <1>0, <2>1, <3>1, <3>2, <3>3 DEF TypeOK
  <2>3. ASSUME NEW c \in marked
        PROVE  \/ mode[c] \in Settled
               \/ /\ mode[c] = "pending"
                  /\ phase'[info[c].owner] = "waiting" /\ c \in wait'[info[c].owner]
    BY <1>0, <2>1 DEF StatusInv, TypeOK
  <2>4. \A q \in Runs : (Traced(q))' => Traced(q) /\ q # r
    BY <1>0, <2>1 DEF Traced, TypeOK
  <2>5. \A q \in Runs : q # r => trace[q] \cap active[r] = {}
    BY <1>0 DEF HomeInv
  <2>6. QED
    BY <1>0, <2>1, <2>2, <2>3, <2>4, <2>5 DEF StatusInv, MarkedSpansSettled
<1>3. ASSUME NEW r \in Runs, FinishTrace(r) PROVE StatusInv'
  <2>1. /\ phase[r] = "waiting" /\ \A c \in wait[r] : mode[c] \in Settled
        /\ trace'[r] = active[r] /\ active'[r] = {}
        /\ \A q \in Runs : q # r => trace'[q] = trace[q] /\ active'[q] = active[q]
                                    /\ phase'[q] = phase[q]
        /\ UNCHANGED <<mode, info, marked, wait, status>>
    BY <1>0, <1>3 DEF FinishTrace, TypeOK
  <2>2. \A c \in marked : info[c].owner \in Runs /\ c \in Calls
    BY <1>0, <1>m DEF InfoInv, Infos, TypeOK, Settled
  <2>3. ASSUME NEW c \in marked
        PROVE  \/ mode[c] \in Settled
               \/ /\ mode[c] = "pending" /\ info[c].owner # r
                  /\ phase'[info[c].owner] = "waiting" /\ c \in wait[info[c].owner]
    BY <1>0, <2>1, <2>2 DEF StatusInv
  <2>4. \A c \in active[r] \cap marked : mode[c] \in Settled /\ status[c] = mode[c]
    <3> SUFFICES ASSUME NEW c \in active[r] \cap marked
                 PROVE  mode[c] \in Settled /\ status[c] = mode[c]
      OBVIOUS
    <3>1. info[c].owner = r
      BY <1>0 DEF HomeInv
    <3>2. mode[c] \in Settled
      BY <2>3, <3>1
    <3>3. QED
      BY <1>0, <3>2, OutcomesAssumption DEF StatusInv, Settled
  <2>5. MarkedSpansSettled'
    BY <1>0, <2>1, <2>4 DEF StatusInv, MarkedSpansSettled, Traced
  <2>6. QED
    BY <1>0, <2>1, <2>3, <2>5 DEF StatusInv
<1>4. ASSUME NEW x \in Contexts, NEW e \in BOOLEAN, Call(x, e) PROVE StatusInv'
  <2> DEFINE c == FreshCall
  <2>1. c \in Calls /\ mode[c] = "unused"
    BY <1>4, FreshCallUnused DEF Call
  <2>2. /\ \A d \in Calls : d # c => info'[d] = info[d] /\ mode'[d] = mode[d]
        /\ UNCHANGED <<phase, active, trace, marked, wait, status>>
    BY <1>0, <1>4 DEF Call, TypeOK
  <2>3. \A r \in Runs : \A d \in active[r] \cup trace[r] : d \in Calls /\ d # c
    BY <1>0, <2>1 DEF HomeInv, Open, TypeOK
  <2>4. \A d \in marked : d \in Calls /\ d # c
    BY <1>0, <1>m, <2>1, OutcomesAssumption DEF TypeOK, Settled
  <2> HIDE DEF c
  <2>5. QED
    BY <1>0, <2>2, <2>3, <2>4 DEF StatusInv, MarkedSpansSettled, Traced
<1>5. ASSUME NEW c \in Calls, NEW st \in {"pending"} \cup Settled,
             NEW sst, sst = IF st = "pending" THEN "partial" ELSE st,
             mode[c] = "frame", mode' = [mode EXCEPT ![c] = st],
             PushSpan(c, sst), UNCHANGED <<phase, info, marked, wait, trace>>
      PROVE  StatusInv'
  <2>1. \A d \in Calls : d # c => mode'[d] = mode[d] /\ status'[d] = status[d]
    BY <1>0, <1>5 DEF PushSpan, TypeOK
  <2>2. c \notin marked /\ \A r \in Runs : c \notin active[r] \cup trace[r]
    BY <1>0, <1>5, <1>m, OutcomesAssumption DEF HomeInv, Open, Settled
  <2>3. \A r \in Runs : \A d \in active'[r] :
           \/ d \in active[r]
           \/ d = c /\ status'[c] = sst /\ mode'[c] = st
    BY <1>0, <1>5 DEF PushSpan, TypeOK, InfoInv, Infos
  <2>4. \A r \in Runs : \A d \in active'[r] :
           status'[d] = IF mode'[d] = "pending" THEN "partial" ELSE mode'[d]
    BY <1>0, <1>5, <2>1, <2>2, <2>3 DEF StatusInv, TypeOK
  <2>5. MarkedSpansSettled'
    BY <1>0, <1>5, <2>1, <2>2 DEF StatusInv, MarkedSpansSettled, Traced, TypeOK
  <2>6. QED
    BY <1>0, <1>5, <2>1, <2>2, <2>4, <2>5 DEF StatusInv, TypeOK
<1>6. ASSUME NEW c \in Calls, NEW st \in Outcomes, Settle(c, st) PROVE StatusInv'
  <2>1. /\ mode[c] = "pending" /\ mode' = [mode EXCEPT ![c] = st]
        /\ UpdateSpan(c, st) /\ info[c].owner \in Runs
        /\ UNCHANGED <<phase, info, marked, wait, trace, active>>
    BY <1>0, <1>6 DEF Settle, InfoInv, Infos
  <2>2. \A d \in Calls : d # c => mode'[d] = mode[d] /\ status'[d] = status[d]
    BY <1>0, <2>1 DEF UpdateSpan, TypeOK
  <2>3. \A r \in Runs : c \in active[r] => status'[c] = st /\ mode'[c] = st
    BY <1>0, <2>1 DEF UpdateSpan, TypeOK, HomeInv
  <2>4. \A r \in Runs : \A d \in active[r] :
           status'[d] = IF mode'[d] = "pending" THEN "partial" ELSE mode'[d]
    BY <1>0, <2>1, <2>2, <2>3, OutcomesAssumption DEF StatusInv, TypeOK
  <2>5. \A r \in Runs : Traced(r) => c \notin trace[r] \cap marked
    BY <1>0, <2>1, OutcomesAssumption DEF StatusInv, MarkedSpansSettled, Settled
  <2>6. MarkedSpansSettled'
    BY <1>0, <2>1, <2>2, <2>5 DEF StatusInv, MarkedSpansSettled, Traced, TypeOK
  <2>7. mode'[c] \in Settled
    BY <1>0, <2>1 DEF TypeOK, Settled
  <2>8. QED
    BY <1>0, <2>1, <2>2, <2>4, <2>6, <2>7 DEF StatusInv, TypeOK
<1>7. ASSUME NEW c \in Calls, NEW st \in Outcomes, ReturnValue(c, st) PROVE StatusInv'
  BY <1>0, <1>5, <1>7, PopStack, OutcomesAssumption DEF ReturnValue, Settled
<1>8. ASSUME NEW c \in Calls, NEW a \in BOOLEAN, ReturnPromise(c, a) PROVE StatusInv'
  BY <1>0, <1>5, <1>8, PopStack DEF ReturnPromise
<1>9. CASE UNCHANGED vars
  BY <1>0, <1>9 DEF StatusInv, MarkedSpansSettled, vars, Traced
<1>10. QED
  BY <1>1, <1>2, <1>3, <1>4, <1>6, <1>7, <1>8, <1>9 DEF Next

-----------------------------------------------------------------------------
(* Inv is inductive, and holds of every reachable state.                   *)
THEOREM Invariance == Spec => []Inv
<1>1. Inv /\ [Next]_vars => Inv'
  BY TypeStep, StackStep, InfoStep, HomeStep, ParentStep, PendingStep, StatusStep DEF Inv
<1>2. QED
  BY <1>1, InitInv, PTL DEF Spec

(* Every variable keeps its type.                                          *)
THEOREM TypeCorrect == Spec => []TypeOK
<1>1. Inv => TypeOK
  BY DEF Inv
<1>2. QED
  BY <1>1, Invariance, PTL

(* No span of a completed trace is an orphan.                              *)
THEOREM ParentsPresent == Spec => []TraceParentsPresent
<1>1. Inv => TraceParentsPresent
  BY DEF Inv, ParentInv, TraceParentsPresent
<1>2. QED
  BY <1>1, Invariance, PTL

(* A span reported as not awaited carries its real outcome.                *)
THEOREM MarkedSettled == Spec => []MarkedSpansSettled
<1>1. Inv => MarkedSpansSettled
  BY DEF Inv, StatusInv
<1>2. QED
  BY <1>1, Invariance, PTL

(* Together: a completed trace is a tree whose marks are true.             *)
THEOREM TracesSound == Spec => []TraceSound
<1>1. Inv => TraceSound
  BY DEF Inv, ParentInv, StatusInv, TraceParentsPresent, TraceSound
<1>2. QED
  BY <1>1, Invariance, PTL

(* What a finished run leaves in the recorder's maps are late calls only.  *)
THEOREM NothingElseLingers == Spec => []OnlyLateSpansLinger
<1>1. Inv => OnlyLateSpansLinger
  BY DEF Inv, HomeInv, PendingInv, OnlyLateSpansLinger, Traced, Live
<1>2. QED
  BY <1>1, Invariance, PTL

(* A completed trace never changes.                                        *)
THEOREM CompletedTracesFrozen == Spec => TraceFrozen
<1> DEFINE Frozen == \A r \in Runs : Traced(r) =>
              /\ trace'[r] = trace[r]
              /\ \A c \in trace[r] : /\ status'[c] = status[c]
                                     /\ (c \in marked') = (c \in marked)
<1>1. Inv /\ [Next]_vars => [Frozen]_vars
  <2> SUFFICES ASSUME Inv, [Next]_vars, NEW r \in Runs, Traced(r)
               PROVE  /\ trace'[r] = trace[r]
                      /\ \A c \in trace[r] : /\ status'[c] = status[c]
                                             /\ (c \in marked') = (c \in marked)
    OBVIOUS
  <2> USE DEF callVars, mapVars, spanVars
  <2>0. TypeOK /\ StackInv /\ InfoInv /\ HomeInv
    BY DEF Inv
  <2>1. ASSUME NEW q \in Runs, Refuse(q) \/ Start(q) PROVE UNCHANGED <<trace, status, marked>>
    BY <2>1 DEF Refuse, Start
  <2>2. ASSUME NEW q \in Runs, MethodSettles(q)
        PROVE  UNCHANGED <<trace, status>> /\ \A c \in trace[r] : c \in marked' <=> c \in marked
    <3>1. q # r /\ trace[r] \cap active[q] = {}
      BY <2>0, <2>2 DEF MethodSettles, Traced, HomeInv
    <3>2. QED
      BY <2>2, <3>1 DEF MethodSettles
  <2>3. ASSUME NEW q \in Runs, FinishTrace(q)
        PROVE  trace'[r] = trace[r] /\ UNCHANGED <<status, marked>>
    BY <2>0, <2>3 DEF FinishTrace, Traced, TypeOK
  <2>4. ASSUME NEW x \in Contexts, NEW e \in BOOLEAN, Call(x, e)
        PROVE  UNCHANGED <<trace, status, marked>>
    BY <2>4 DEF Call
  <2>5. ASSUME NEW c \in Calls, NEW st, mode[c] = "frame", PushSpan(c, st)
        PROVE  \A d \in trace[r] : status'[d] = status[d]
    <3>1. c \notin trace[r] /\ trace[r] \subseteq Calls
      BY <2>0, <2>5 DEF HomeInv, Open, TypeOK
    <3>2. QED
      BY <2>0, <2>5, <3>1 DEF PushSpan, TypeOK
  <2>6. ASSUME NEW c \in Calls, NEW st \in Outcomes, Settle(c, st)
        PROVE  UNCHANGED <<trace, marked>> /\ \A d \in trace[r] : status'[d] = status[d]
    <3>1. c \in trace[r] => info[c].owner = r /\ c \notin active[r]
      BY <2>0 DEF HomeInv
    <3>2. trace[r] \subseteq Calls
      BY <2>0 DEF TypeOK
    <3>3. QED
      BY <2>0, <2>6, <3>1, <3>2 DEF Settle, UpdateSpan, TypeOK
  <2>7. ASSUME NEW c \in Calls, NEW st \in Outcomes, ReturnValue(c, st)
        PROVE  UNCHANGED <<trace, marked>> /\ \A d \in trace[r] : status'[d] = status[d]
    BY <2>0, <2>5, <2>7, PopStack DEF ReturnValue
  <2>8. ASSUME NEW c \in Calls, NEW a \in BOOLEAN, ReturnPromise(c, a)
        PROVE  UNCHANGED <<trace, marked>> /\ \A d \in trace[r] : status'[d] = status[d]
    BY <2>0, <2>5, <2>8, PopStack DEF ReturnPromise
  <2>9. CASE UNCHANGED vars
    BY <2>9 DEF vars
  <2>10. QED
    BY <2>1, <2>2, <2>3, <2>4, <2>6, <2>7, <2>8, <2>9 DEF Next
<1>2. QED
  BY <1>1, Invariance, PTL DEF Spec, TraceFrozen
(* A trace misses no call of its run that has returned.                    *)
THEOREM TracesComplete == Spec => TraceComplete
<1> DEFINE Whole == \A r \in Runs : phase[r] = "waiting" /\ phase'[r] = "traced" =>
              trace'[r] = {c \in Calls : /\ mode[c] \notin {"unused", "frame"}
                                         /\ info[c].owner = r
                                         /\ ~info[c].entry}
<1>1. Inv /\ [Next]_vars => [Whole]_vars
  <2> SUFFICES ASSUME Inv, [Next]_vars, NEW r \in Runs,
                      phase[r] = "waiting", phase'[r] = "traced"
               PROVE  trace'[r] = {c \in Calls : /\ mode[c] \notin {"unused", "frame"}
                                                 /\ info[c].owner = r
                                                 /\ ~info[c].entry}
    OBVIOUS
  <2>1. TypeOK /\ HomeInv
    BY DEF Inv
  <2>2. FinishTrace(r)
    <3>1. ASSUME NEW q \in Runs, Refuse(q) \/ Start(q) \/ MethodSettles(q) PROVE FALSE
      BY <2>1, <3>1 DEF Refuse, Start, MethodSettles, TypeOK
    <3>2. ASSUME NEW q \in Runs, FinishTrace(q) PROVE q = r
      BY <2>1, <3>2 DEF FinishTrace, TypeOK
    <3>3. ASSUME UNCHANGED phase PROVE FALSE
      BY <3>3
    <3>4. QED
      BY <3>1, <3>2, <3>3 DEF Next, Call, ReturnValue, ReturnPromise, Settle, vars
  <2>3. trace'[r] = active[r] /\ trace[r] = {} /\ active[r] \subseteq Calls
    BY <2>1, <2>2 DEF FinishTrace, TypeOK, HomeInv, Traced
  <2>4. QED
    BY <2>1, <2>3 DEF HomeInv, Open
<1>2. QED
  BY <1>1, Invariance, PTL DEF Spec, TraceComplete
=============================================================================
