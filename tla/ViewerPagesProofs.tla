------------------------- MODULE ViewerPagesProofs -------------------------
(* One pod at most, however often the demo is started, stopped, retried    *)
(* and waited for, and from whatever page; and a graph file that outlives  *)
(* whatever the landing card it was opened on was waiting for.             *)
EXTENDS ViewerPages, TLAPS

Published == {"spawn", "wait", "won"}

(* A startup in charge is the one the store's promise is of, and what is   *)
(* printed is its own application's.                                       *)
OwnerInv ==
    /\ startP = owner
    /\ owner # 0 => printed \subseteq {pod}

(* A pod that is up is its startup's, which is in charge, and it is laid   *)
(* over the browser's own fetch.                                           *)
PodInv ==
    /\ fetchIs = pod
    /\ pod # 0 => /\ pod \in live /\ owner = pod
                  /\ at[pod] \in Published /\ under[pod] = 0

(* Any other is held by its startup, and one that is about to be published *)
(* is still in charge.                                                     *)
HeldInv ==
    /\ \A r \in live : pod = r \/ at[r] \in Unpublished
    /\ \A r \in Runs : at[r] \in Unpublished => r \in live
    /\ \A r \in Runs : at[r] = "write" => owner = r
    /\ \A r \in processes : at[r] \in {"wait", "won", "lost"}

(* Address and graphs are of the pod that is up, once it has come up.      *)
OfThePod(x) == x # 0 => x = pod /\ at[pod] = "won"
ReadInv ==
    /\ OfThePod(endpoint) /\ OfThePod(graph)
    /\ \A i \in Reads : read[i] = "reading" /\ graphP = i => OfThePod(readP[i])
    /\ status = "ready" => endpoint # 0

DemoInv == DemoTypeOK /\ OwnerInv /\ PodInv /\ HeldInv /\ ReadInv

LEMMA RunsAreNumbers ==
    /\ Runs \subseteq Nat /\ 0 \notin Runs /\ Yes \notin Runs /\ Yes = 0
    /\ MaxRuns \in Nat /\ MaxReads \in Nat
BY DemoAssumption DEF DemoAssumption, Runs, Yes

LEMMA DemoBegins == Init => DemoInv
<1> SUFFICES ASSUME Init PROVE DemoInv
  OBVIOUS
<1> USE DEF Init, DemoInit
<1>1. DemoTypeOK
  BY RunsAreNumbers DEF DemoTypeOK
<1>2. OwnerInv /\ PodInv /\ HeldInv
  BY DEF OwnerInv, PodInv, HeldInv, Unpublished
<1>3. ReadInv
  BY DEF ReadInv, OfThePod
<1> QED
  BY <1>1, <1>2, <1>3 DEF DemoInv

(* The pod is put away for a startup that begins, or for nobody.           *)
LEMMA PodPutAway ==
    ASSUME DemoInv, NEW o, DisposePod(o)
    PROVE  /\ pod' = 0 /\ fetchIs' = 0 /\ endpoint' = 0 /\ owner' = o /\ exited' = FALSE
           /\ live' = live \ {pod} /\ under' = under
BY DEF DemoInv, PodInv, DisposePod

(* A startup begins when nobody is in charge, or when it takes the place   *)
(* of another that is not in the middle of its writes.                     *)
LEMMA BeginKeeps ==
    ASSUME DemoInv, NEW r \in Runs, Begin(r),
           \A q \in Runs : at[q] # "write",
           read' \in [Reads -> {"unused", "starting", "reading", "done"}],
           readP' \in [Reads -> Runs \cup {Yes}],
           graphP' \in Reads \cup {0},
           graph' = 0 \/ (graph' = graph /\ owner = 0),
           \A i \in Reads : read'[i] = "reading" /\ graphP' = i => readP'[i] = 0
    PROVE  DemoInv'
<1>0. /\ DemoTypeOK /\ OwnerInv /\ PodInv /\ HeldInv /\ ReadInv
      /\ at \in [Runs -> Running \cup {"unused", "won", "lost"}]
  BY DEF DemoInv, DemoTypeOK
<1>1. /\ pod' = 0 /\ fetchIs' = 0 /\ endpoint' = 0 /\ owner' = r /\ exited' = FALSE
      /\ live' = live \ {pod} /\ under' = under
  BY PodPutAway DEF Begin
<1>2. /\ at[r] = "unused" /\ at' = [at EXCEPT ![r] = "manifest"]
      /\ status' = "downloading" /\ printed' = {} /\ startP' = r /\ processes' = processes
  BY DEF Begin
<1>3. DemoTypeOK'
  BY <1>0, <1>1, <1>2, RunsAreNumbers DEF DemoTypeOK, Busy, Running, Fetching
<1>4. OwnerInv' /\ PodInv'
  BY <1>1, <1>2 DEF OwnerInv, PodInv
<1>5. HeldInv'
  BY <1>0, <1>1, <1>2, RunsAreNumbers DEF HeldInv, PodInv, Published, DemoTypeOK, Unpublished
<1>6. ReadInv'
  <2>1. owner = 0 => pod = 0
    BY <1>0, RunsAreNumbers DEF PodInv, DemoTypeOK
  <2>2. graph' = 0
    BY <1>0, <2>1 DEF ReadInv, OfThePod
  <2> QED
    BY <1>1, <1>2, <2>2 DEF ReadInv, OfThePod
<1> QED
  BY <1>3, <1>4, <1>5, <1>6 DEF DemoInv

LEMMA StartKeeps ==
    ASSUME DemoInv, NEW p \in Runs \cup {Yes}, StartGives(p), SettledWrites,
           read' \in [Reads -> {"unused", "starting", "reading", "done"}],
           readP' \in [Reads -> Runs \cup {Yes}],
           graphP' \in Reads \cup {0}, graph' = graph,
           \A i \in Reads : read'[i] = "reading" /\ graphP' = i =>
              read[i] = "reading" /\ graphP = i /\ readP'[i] = readP[i]
    PROVE  DemoInv'
<1>0. DemoTypeOK /\ OwnerInv /\ PodInv /\ HeldInv /\ ReadInv
  BY DEF DemoInv
<1>1. CASE UNCHANGED <<status, at, owner, startP, podVars, procVars, endpoint>>
  BY <1>0, <1>1 DEF DemoInv, DemoTypeOK, OwnerInv, PodInv, HeldInv, ReadInv, OfThePod,
                    podVars, procVars
<1>2. CASE startP = 0 /\ p \in Runs /\ Begin(p)
  <2>1. owner = 0 /\ \A q \in Runs : at[q] # "write"
    BY <1>0, <1>2, RunsAreNumbers DEF OwnerInv, HeldInv
  <2>2. pod = 0
    BY <1>0, <2>1, RunsAreNumbers DEF PodInv, DemoTypeOK
  <2>3. \A i \in Reads : read'[i] = "reading" /\ graphP' = i => readP'[i] = 0
    BY <1>0, <2>2 DEF ReadInv, OfThePod
  <2> QED
    BY <1>2, <2>1, <2>3, BeginKeeps
<1> QED
  BY <1>1, <1>2 DEF StartGives

(* A step of one startup.                                                  *)
LEMMA StartupKeeps ==
    ASSUME DemoInv, NEW r \in Runs, Startup(r)
    PROVE  DemoInv'
<1> USE RunsAreNumbers DEF podVars, procVars, readVars, Current, Goes, Stays
<1>0. /\ DemoTypeOK /\ OwnerInv /\ PodInv /\ HeldInv /\ ReadInv
      /\ at \in [Runs -> Running \cup {"unused", "won", "lost"}]
  BY DEF DemoInv, DemoTypeOK
<1> USE DEF DemoTypeOK, Running, Fetching, Unpublished, Busy, Published
<1>1. ASSUME NEW from \in {"manifest", "payload", "boot", "spawn", "wait"},
             GiveUp(r, from), UNCHANGED podVars
      PROVE  DemoInv'
  <2>1. DemoTypeOK' /\ OwnerInv'
    BY <1>0, <1>1 DEF GiveUp, OwnerInv
  <2>2. PodInv' /\ HeldInv'
    BY <1>0, <1>1 DEF GiveUp, PodInv, HeldInv
  <2>3. ReadInv'
    BY <1>0, <1>1 DEF GiveUp, ReadInv, OfThePod
  <2> QED
    BY <2>1, <2>2, <2>3 DEF DemoInv
<1>2. CASE Download(r)
  <2>1. CASE /\ owner = r
             /\ \/ Goes(r, "manifest", "payload") /\ UNCHANGED status
                \/ Goes(r, "payload", "boot") /\ status' = "booting"
             /\ UNCHANGED <<owner, startP, podVars, procVars, endpoint, readVars>>
    <3>1. DemoTypeOK' /\ OwnerInv'
      BY <1>0, <2>1 DEF OwnerInv
    <3>2. PodInv' /\ HeldInv'
      BY <1>0, <2>1 DEF PodInv, HeldInv
    <3>3. ReadInv'
      BY <1>0, <2>1 DEF ReadInv, OfThePod
    <3> QED
      BY <3>1, <3>2, <3>3 DEF DemoInv
  <2> QED
    BY <1>1, <1>2, <2>1 DEF Download
<1>3. CASE Boot(r)
  <2>1. CASE /\ owner = r /\ Goes(r, "boot", "restore") /\ live' = live \cup {r}
             /\ UNCHANGED <<status, owner, startP, pod, fetchIs, under, procVars, endpoint, readVars>>
    <3>1. DemoTypeOK' /\ OwnerInv'
      BY <1>0, <2>1 DEF OwnerInv
    <3>2. PodInv' /\ HeldInv'
      BY <1>0, <2>1 DEF PodInv, HeldInv
    <3>3. ReadInv'
      BY <1>0, <2>1 DEF ReadInv, OfThePod
    <3> QED
      BY <3>1, <3>2, <3>3 DEF DemoInv
  <2> QED
    BY <1>1, <1>3, <2>1 DEF Boot
<1>4. CASE Restore(r)
  <2>1. CASE /\ owner = r /\ Goes(r, "restore", "write")
             /\ UNCHANGED <<status, owner, startP, podVars, procVars, endpoint, readVars>>
    <3>1. DemoTypeOK' /\ OwnerInv'
      BY <1>0, <2>1 DEF OwnerInv
    <3>2. PodInv' /\ HeldInv'
      BY <1>0, <2>1 DEF PodInv, HeldInv
    <3>3. ReadInv'
      BY <1>0, <2>1 DEF ReadInv, OfThePod
    <3> QED
      BY <3>1, <3>2, <3>3 DEF DemoInv
  <2>2. CASE /\ GiveUp(r, "restore") /\ live' = live \ {r}
             /\ UNCHANGED <<pod, fetchIs, under>>
    <3>0. pod # r
      BY <1>0, <2>2 DEF GiveUp, PodInv
    <3>1. DemoTypeOK' /\ OwnerInv'
      BY <1>0, <2>2, <3>0 DEF GiveUp, OwnerInv
    <3>2. PodInv' /\ HeldInv'
      BY <1>0, <2>2, <3>0 DEF GiveUp, PodInv, HeldInv
    <3>3. ReadInv'
      BY <1>0, <2>2 DEF GiveUp, ReadInv, OfThePod
    <3> QED
      BY <3>1, <3>2, <3>3 DEF DemoInv
  <2> QED
    BY <1>4, <2>1, <2>2 DEF Restore
<1>5. CASE Publish(r)
  <2>1. owner = r /\ pod = 0 /\ r \in Nat \ {0}
    BY <1>0, <1>5 DEF Publish, HeldInv, PodInv
  <2>3. /\ at' = [at EXCEPT ![r] = "spawn"] /\ pod' = r /\ fetchIs' = r
        /\ under' = [under EXCEPT ![r] = 0]
        /\ status' = "starting" /\ at[r] = "write"
        /\ UNCHANGED <<owner, startP, live, processes, printed, exited, endpoint, read, readP, graphP, graph>>
    BY <1>0, <1>5, <2>1 DEF Publish, PodInv
  <2>4. r \in live
    BY <1>0, <2>3 DEF HeldInv
  <2>5. DemoTypeOK' /\ OwnerInv'
    BY <1>0, <2>1, <2>3, <2>4 DEF OwnerInv
  <2>6. PodInv' /\ HeldInv'
    BY <1>0, <2>1, <2>3, <2>4 DEF PodInv, HeldInv
  <2>7. ReadInv'
    BY <1>0, <2>1, <2>3 DEF ReadInv, OfThePod
  <2> QED
    BY <2>5, <2>6, <2>7 DEF DemoInv
<1>6. CASE Spawn(r)
  <2>1. CASE /\ owner = r /\ Goes(r, "spawn", "wait") /\ processes' = processes \cup {r}
             /\ UNCHANGED <<status, owner, startP, podVars, printed, exited, endpoint, readVars>>
    <3>1. DemoTypeOK' /\ OwnerInv'
      BY <1>0, <2>1 DEF OwnerInv
    <3>2. PodInv' /\ HeldInv'
      BY <1>0, <2>1 DEF PodInv, HeldInv
    <3>3. ReadInv'
      BY <1>0, <2>1 DEF ReadInv, OfThePod
    <3> QED
      BY <3>1, <3>2, <3>3 DEF DemoInv
  <2> QED
    BY <1>1, <1>6, <2>1 DEF Spawn
<1>7. CASE ReadEndpoint(r)
  <2>1. CASE /\ owner = r /\ Goes(r, "wait", "won")
             /\ \E q \in printed : endpoint' = q
             /\ status' = "ready"
             /\ UNCHANGED <<owner, startP, podVars, procVars, readVars>>
    <3>1. endpoint' = pod /\ pod # 0
      BY <1>0, <2>1 DEF OwnerInv
    <3>2. pod = r /\ pod \in Runs
      BY <1>0, <2>1, <3>1 DEF PodInv
    <3>3. DemoTypeOK' /\ OwnerInv'
      BY <1>0, <2>1, <3>1, <3>2 DEF OwnerInv
    <3>4. PodInv' /\ HeldInv'
      BY <1>0, <2>1, <3>2 DEF PodInv, HeldInv
    <3>5. ReadInv'
      BY <1>0, <2>1, <3>1, <3>2 DEF ReadInv, OfThePod
    <3> QED
      BY <3>3, <3>4, <3>5 DEF DemoInv
  <2> QED
    BY <1>1, <1>7, <2>1 DEF ReadEndpoint
<1>8. CASE Fail(r)
  <2>1. /\ at[r] \in Running /\ at' = [at EXCEPT ![r] = "lost"]
        /\ UNCHANGED <<under, processes, printed, readVars>>
    BY <1>8 DEF Fail
  <2>2. CASE /\ owner = r /\ status' = "error" /\ startP' = 0
             /\ fetchIs' = IF pod # 0 /\ fetchIs = pod THEN under[pod] ELSE fetchIs
             /\ live' = live \ ({pod} \cup IF at[r] \in Unpublished THEN {r} ELSE {})
             /\ pod' = 0 /\ exited' = FALSE /\ endpoint' = 0 /\ owner' = 0
    <3>1. fetchIs' = 0
      BY <1>0, <2>2 DEF PodInv
    <3>2. pod \in {0, r} /\ graph = 0
      BY <1>0, <2>1, <2>2 DEF PodInv, ReadInv, OfThePod
    <3>3. \A i \in Reads : read[i] = "reading" /\ graphP = i => readP[i] = 0
      BY <1>0, <2>1, <2>2, <3>2 DEF ReadInv, OfThePod
    <3>4. DemoTypeOK' /\ OwnerInv' /\ PodInv'
      BY <1>0, <2>1, <2>2, <3>1 DEF OwnerInv, PodInv
    <3>5. HeldInv'
      BY <1>0, <2>1, <2>2, <3>2 DEF HeldInv
    <3>6. ReadInv'
      BY <2>1, <2>2, <3>2, <3>3 DEF ReadInv, OfThePod
    <3> QED
      BY <3>4, <3>5, <3>6 DEF DemoInv
  <2>3. CASE /\ owner # r /\ live' = live \ (IF at[r] \in Unpublished THEN {r} ELSE {})
             /\ UNCHANGED <<status, startP, fetchIs, pod, exited, endpoint, owner>>
    <3>1. pod # r
      BY <1>0, <2>3 DEF PodInv
    <3>2. DemoTypeOK' /\ OwnerInv' /\ PodInv'
      BY <1>0, <2>1, <2>3, <3>1 DEF OwnerInv, PodInv
    <3>3. HeldInv'
      BY <1>0, <2>1, <2>3, <3>1 DEF HeldInv
    <3>4. ReadInv'
      BY <1>0, <2>1, <2>3, <3>1 DEF ReadInv, OfThePod
    <3> QED
      BY <3>2, <3>3, <3>4 DEF DemoInv
  <2> QED
    BY <1>8, <2>2, <2>3 DEF Fail
<1> QED
  BY <1>2, <1>3, <1>4, <1>5, <1>6, <1>7, <1>8 DEF Startup

(* What an application does, and what a read of its graph is answered.     *)
LEMMA AnswersKeep ==
    ASSUME DemoInv, Demo
    PROVE  DemoInv'
<1> USE RunsAreNumbers DEF podVars, procVars, readVars, Current
<1>0. DemoTypeOK /\ OwnerInv /\ PodInv /\ HeldInv /\ ReadInv
  BY DEF DemoInv
<1>1. ASSUME NEW r \in Runs, LogLine(r)
      PROVE  DemoInv'
  <2>1. r = pod
    BY <1>0, <1>1 DEF LogLine, HeldInv, Unpublished
  <2>2. DemoTypeOK' /\ OwnerInv'
    BY <1>0, <1>1, <2>1 DEF LogLine, DemoTypeOK, OwnerInv
  <2>3. PodInv' /\ HeldInv' /\ ReadInv'
    BY <1>0, <1>1 DEF LogLine, PodInv, HeldInv, ReadInv, OfThePod
  <2> QED
    BY <2>2, <2>3 DEF DemoInv
<1>2. ASSUME NEW r \in Runs, Exit(r)
      PROVE  DemoInv'
  <2>1. DemoTypeOK' /\ OwnerInv'
    BY <1>0, <1>2 DEF Exit, DemoTypeOK, OwnerInv
  <2>2. PodInv' /\ HeldInv' /\ ReadInv'
    BY <1>0, <1>2 DEF Exit, PodInv, HeldInv, ReadInv, OfThePod
  <2> QED
    BY <2>1, <2>2 DEF DemoInv
<1>3. ASSUME NEW i \in Reads, ReadStarts(i)
      PROVE  DemoInv'
  <2>1. DemoTypeOK' /\ OwnerInv'
    BY <1>0, <1>3 DEF ReadStarts, SameDemo, DemoTypeOK, OwnerInv, PodInv, Yes
  <2>2. PodInv' /\ HeldInv'
    BY <1>0, <1>3 DEF ReadStarts, SameDemo, PodInv, HeldInv
  <2>3. ReadInv'
    <3>1. /\ UNCHANGED <<status, at, pod, endpoint, graph>>
          /\ graphP' \in {graphP, 0}
          /\ \A j \in Reads \ {i} : read'[j] = read[j] /\ readP'[j] = readP[j]
          /\ readP'[i] \in {0} \cup (IF endpoint # 0 THEN {pod} ELSE {})
      BY <1>0, <1>3 DEF ReadStarts, SameDemo, DemoTypeOK, PodInv
    <3>2. 0 \notin Reads
      BY DEF Reads
    <3> QED
      BY <1>0, <3>1, <3>2 DEF ReadInv, OfThePod
  <2> QED
    BY <2>1, <2>2, <2>3 DEF DemoInv
<1>4. ASSUME NEW i \in Reads, ReadAnswered(i)
      PROVE  DemoInv'
  <2>1. DemoTypeOK' /\ OwnerInv'
    BY <1>0, <1>4 DEF ReadAnswered, SameDemo, DemoTypeOK, OwnerInv
  <2>2. PodInv' /\ HeldInv'
    BY <1>0, <1>4 DEF ReadAnswered, SameDemo, PodInv, HeldInv
  <2>3. ReadInv'
    <3>1. /\ UNCHANGED <<at, pod, endpoint, readP>>
          /\ status' \in {status, "error"} /\ graphP' \in {graphP, 0}
          /\ \/ graph' = graph
             \/ graph' = readP[i] /\ graphP = i /\ read[i] = "reading"
          /\ \A j \in Reads : read'[j] = "reading" => read[j] = "reading"
      BY <1>0, <1>4 DEF ReadAnswered, SameDemo, DemoTypeOK
    <3>2. 0 \notin Reads
      BY DEF Reads
    <3> QED
      BY <1>0, <3>1, <3>2 DEF ReadInv, OfThePod
  <2> QED
    BY <2>1, <2>2, <2>3 DEF DemoInv
<1> QED
  BY StartupKeeps, <1>1, <1>2, <1>3, <1>4 DEF Demo

-----------------------------------------------------------------------------
(* What the pages do to the demo.                                          *)
LEMMA StopKeeps ==
    ASSUME DemoInv, SettledWrites, Stop
    PROVE  DemoInv'
<1>0. DemoTypeOK /\ OwnerInv /\ PodInv /\ HeldInv /\ ReadInv
  BY DEF DemoInv
<1>1. /\ pod' = 0 /\ fetchIs' = 0 /\ endpoint' = 0 /\ owner' = 0 /\ exited' = FALSE
      /\ live' = live \ {pod} /\ under' = under
  BY PodPutAway DEF Stop
<1>2. /\ startP' = 0 /\ graphP' = 0 /\ graph' = 0 /\ status' = "idle"
      /\ UNCHANGED <<at, processes, printed, read, readP>>
      /\ \A r \in Runs : at[r] # "write"
  BY DEF Stop, Interruptible
<1>3. DemoTypeOK' /\ OwnerInv' /\ PodInv'
  BY <1>0, <1>1, <1>2, RunsAreNumbers DEF DemoTypeOK, OwnerInv, PodInv
<1>4. HeldInv'
  BY <1>0, <1>1, <1>2, RunsAreNumbers DEF HeldInv, PodInv, Published, Unpublished
<1>5. ReadInv'
  <2>1. 0 \notin Reads
    BY DEF Reads
  <2> QED
    BY <1>1, <1>2, <2>1 DEF ReadInv, OfThePod
<1> QED
  BY <1>3, <1>4, <1>5 DEF DemoInv

LEMMA RetryKeeps ==
    ASSUME DemoInv, SettledWrites, Retry
    PROVE  DemoInv'
<1>1. PICK r \in Runs, i \in Reads :
        /\ Begin(r)
        /\ read[i] = "unused" /\ read' = [read EXCEPT ![i] = "starting"]
        /\ readP' = [readP EXCEPT ![i] = r] /\ graphP' = i /\ graph' = 0
  BY DEF Retry
<1>2. /\ read \in [Reads -> {"unused", "starting", "reading", "done"}]
      /\ readP \in [Reads -> Runs \cup {Yes}]
      /\ \A q \in Runs : at[q] # "write"
  BY DEF DemoInv, DemoTypeOK, Retry, Interruptible
<1>3. \A j \in Reads : ~(read'[j] = "reading" /\ graphP' = j)
  BY <1>1, <1>2
<1>4. /\ read' \in [Reads -> {"unused", "starting", "reading", "done"}]
      /\ readP' \in [Reads -> Runs \cup {Yes}]
  BY <1>1, <1>2
<1> QED
  BY <1>1, <1>2, <1>3, <1>4, BeginKeeps

LEMMA LoadKeeps ==
    ASSUME DemoInv, SettledWrites, LoadGraphOutput
    PROVE  DemoInv'
<1>0. /\ read \in [Reads -> {"unused", "starting", "reading", "done"}]
      /\ readP \in [Reads -> Runs \cup {Yes}]
  BY DEF DemoInv, DemoTypeOK
<1>1. CASE UNCHANGED demoVars
  BY <1>1 DEF DemoInv, DemoTypeOK, OwnerInv, PodInv, HeldInv, ReadInv, OfThePod,
              demoVars, podVars, procVars, readVars
<1>2. CASE graphP = 0 /\ ~UNCHANGED demoVars
  <2>1. PICK i \in Reads, p \in Runs \cup {Yes} :
          /\ read[i] = "unused" /\ StartGives(p)
          /\ read' = [read EXCEPT ![i] = "starting"] /\ readP' = [readP EXCEPT ![i] = p]
          /\ graphP' = i /\ graph' = graph
    BY <1>2 DEF LoadGraphOutput
  <2>2. \A j \in Reads : ~(read'[j] = "reading" /\ graphP' = j)
    BY <1>0, <2>1
  <2>3. /\ read' \in [Reads -> {"unused", "starting", "reading", "done"}]
        /\ readP' \in [Reads -> Runs \cup {Yes}]
    BY <1>0, <2>1
  <2> QED
    BY <2>1, <2>2, <2>3, StartKeeps
<1> QED
  BY <1>1, <1>2 DEF LoadGraphOutput

LEMMA ReloadKeeps ==
    ASSUME DemoInv, Reload
    PROVE  DemoInv'
<1>0. DemoTypeOK /\ OwnerInv /\ PodInv /\ HeldInv /\ ReadInv
  BY DEF DemoInv
<1>1. DemoTypeOK'
  BY <1>0, RunsAreNumbers DEF Reload, DemoTypeOK
<1>2. OwnerInv' /\ PodInv' /\ ReadInv'
  BY DEF Reload, OwnerInv, PodInv, ReadInv, OfThePod
<1>3. HeldInv'
  BY DEF Reload, HeldInv, Unpublished
<1> QED
  BY <1>1, <1>2, <1>3 DEF DemoInv

LEMMA DismissKeeps ==
    ASSUME DemoInv, DismissError
    PROVE  DemoInv'
BY DEF DismissError, SameDemo, DemoInv, DemoTypeOK, OwnerInv, PodInv, HeldInv, ReadInv, OfThePod,
       podVars, procVars, readVars

(* Every step of the pages leaves the demo alone, or is one of the above.  *)
DemoStep ==
    \/ UNCHANGED demoVars \/ Demo \/ Stop \/ Retry \/ LoadGraphOutput \/ Reload \/ DismissError
    \/ \E p \in Runs \cup {Yes} : StartGives(p) /\ UNCHANGED readVars

LEMMA LoadPageSteps ==
    ASSUME NEW t, NEW ref, NEW cards, LoadPage(t, ref, cards)
    PROVE  UNCHANGED demoVars \/ Stop
BY DEF LoadPage

LEMMA EnterViewerSteps ==
    ASSUME NEW t, NEW ref, NEW cards, EnterViewer(t, ref, cards)
    PROVE  UNCHANGED demoVars \/ Stop
BY LoadPageSteps DEF EnterViewer

LEMMA OpenDemoSteps ==
    ASSUME NEW v, NEW cards, OpenDemo(v, cards)
    PROVE  UNCHANGED demoVars \/ Stop
<1>1. CASE cards[v].nav
  BY <1>1 DEF OpenDemo
<1>2. CASE ~cards[v].nav
  <2> DEFINE after == [cards EXCEPT ![v] = [RetirePoll(@) EXCEPT !.nav = TRUE]]
             ref == IF tab.source = "demo" THEN refused ELSE 0
  <2>1. EnterViewer(Tab("demo", endpoint), ref, after) \/ UNCHANGED demoVars
    BY <1>2 DEF OpenDemo
  <2> HIDE DEF after, ref
  <2> QED
    BY <2>1, EnterViewerSteps
<1> QED
  BY <1>1, <1>2

LEMMA PagesStep == [Next]_vars => DemoStep
<1> SUFFICES ASSUME [Next]_vars PROVE DemoStep
  OBVIOUS
<1>1. ASSUME Moves PROVE DemoStep
  <2>1. ASSUME NEW q, OpenLanding(q) PROVE DemoStep
    BY <2>1 DEF OpenLanding, DemoStep
  <2>2. CASE OpenViewer \/ Refresh
    BY <2>2, EnterViewerSteps, LoadPageSteps DEF OpenViewer, Refresh, DemoStep
  <2>3. CASE GoAway \/ OpenGraphFile \/ CloseGraphFile
    BY <2>3 DEF GoAway, OpenGraphFile, CloseGraphFile, DemoStep
  <2>4. CASE Reload
    BY <2>4 DEF DemoStep
  <2>5. CASE LoadExample
    BY <2>5 DEF LoadExample, DemoStep
  <2>6. CASE CancelDemo
    BY <2>6 DEF CancelDemo, DemoStep
  <2>7. CASE Elsewhere
    BY <2>7 DEF Elsewhere, DemoStep
  <2> QED
    BY <1>1, <2>1, <2>2, <2>3, <2>4, <2>5, <2>6, <2>7 DEF Moves
<1>2. ASSUME Answers PROVE DemoStep
  <2>1. CASE Demo
    BY <2>1 DEF DemoStep
  <2>2. CASE GraphLoads \/ JoinEnds
    BY <2>2 DEF GraphLoads, JoinEnds, DemoStep
  <2>3. CASE DemoComesUp
    BY <2>3, OpenDemoSteps DEF DemoComesUp, DemoStep
  <2>4. ASSUME NEW v \in Visits, DemoAnswers(v) PROVE DemoStep
    <3> DEFINE cards == [card EXCEPT ![v].waits = Nothing]
    <3>1. OpenDemo(v, cards) \/ UNCHANGED demoVars
      BY <2>4 DEF DemoAnswers
    <3> HIDE DEF cards
    <3> QED
      BY <3>1, OpenDemoSteps DEF DemoStep
  <2>5. ASSUME NEW v \in Visits, ExampleAnswers(v) \/ Probe(v) \/ ProbeAnswered(v) PROVE DemoStep
    BY <2>5 DEF ExampleAnswers, Probe, ProbeAnswered, DemoStep
  <2>6. ASSUME NEW r \in Runs, Expire(r) PROVE DemoStep
    BY <2>6 DEF Expire, DemoStep
  <2> QED
    BY <1>2, <2>1, <2>2, <2>3, <2>4, <2>5, <2>6 DEF Answers
<1>3. CASE UNCHANGED vars
  BY <1>3 DEF vars, DemoStep
<1> QED
  BY <1>1, <1>2, <1>3 DEF Next

LEMMA DemoStepKeeps ==
    ASSUME SettledWrites, DemoInv, DemoStep
    PROVE  DemoInv'
<1>1. CASE UNCHANGED demoVars
  BY <1>1 DEF DemoInv, DemoTypeOK, OwnerInv, PodInv, HeldInv, ReadInv, OfThePod,
              demoVars, podVars, procVars, readVars
<1>2. ASSUME NEW p \in Runs \cup {Yes}, StartGives(p), UNCHANGED readVars
      PROVE  DemoInv'
  <2>1. /\ read' \in [Reads -> {"unused", "starting", "reading", "done"}]
        /\ readP' \in [Reads -> Runs \cup {Yes}] /\ graphP' \in Reads \cup {0}
        /\ graph' = graph /\ read' = read /\ readP' = readP /\ graphP' = graphP
    BY <1>2 DEF DemoInv, DemoTypeOK, readVars
  <2> QED
    BY <1>2, <2>1, StartKeeps
<1> QED
  BY <1>1, <1>2, AnswersKeep, StopKeeps, RetryKeeps, LoadKeeps, ReloadKeeps, DismissKeeps
     DEF DemoStep

LEMMA InvariantPublishes == DemoInv => PodIsPublished
BY RunsAreNumbers DEF DemoInv, DemoTypeOK, OwnerInv, PodInv, HeldInv, ReadInv, OfThePod,
                      PodIsPublished, OnePod, GraphOfThePod, IsRunning, Current

(* DemoInv is an invariant when the writes of a payload run as one burst.  *)
THEOREM DemoInvariance == SettledWrites /\ Spec => []DemoInv
<1> SUFFICES ASSUME SettledWrites PROVE Spec => []DemoInv
  OBVIOUS
<1>1. DemoInv /\ [Next]_vars => DemoInv'
  BY PagesStep, DemoStepKeeps
<1> QED
  BY <1>1, DemoBegins, PTL DEF Spec

(* One pod is up at most, published as a whole, and the graph drawn is its,*)
(* however many startups there are and whoever asked for them.             *)
THEOREM OnePodPublished == SettledWrites /\ Spec => []PodIsPublished
BY DemoInvariance, InvariantPublishes, PTL
-----------------------------------------------------------------------------
(* The pages: what the tab, the cards and the waits for the demo may hold. *)
Tabs == [source : {"none", "example", "file", "demo", "application"},
         token : Runs \cup {0, Own}]

(* The demo is well typed even when other events come between the writes of*)
(* a payload: whoever is published has left the stages that give a pod up. *)
DemoTypes ==
    /\ DemoTypeOK
    /\ \A r \in Runs : at[r] \in Unpublished => r \in live
    /\ pod # 0 => at[pod] \in Published \cup {"lost"}

PagesTypes ==
    /\ page \in {"away", "landing", "viewer"} /\ visit \in Visits \cup {0}
    /\ tab \in Tabs /\ refused \in Runs \cup {0, Own} /\ expired \subseteq Runs
    /\ view \in {"idle", "joining", "loading", "shown", "failed"}
    /\ viewP \in 0..Nothing /\ card \in [Visits -> Cards]
    /\ openedOn \in Visits \cup {0} /\ (page = "landing" => visit # 0)

(* The card a file was opened on is behind the visitor, waits for nothing, *)
(* and asks for nothing any more; a probe it had sent no longer counts.    *)
Calm(c) == c.waits = Nothing /\ ~c.example /\ ~c.polling /\ c.probe # "counts"

OpenedInv == openedOn # 0 =>
    /\ openedOn <= visit
    /\ page = "landing" => openedOn # visit
    /\ Calm(card[openedOn])

PageInv == DemoTypes /\ PagesTypes /\ OpenedInv /\ moves \in 0..MaxMoves

(* What a step that moves the tab leaves of the card.                      *)
Outlived == openedOn # 0 /\ tab' # tab =>
    /\ card'[openedOn].waits = card[openedOn].waits
    /\ card'[openedOn].example = card[openedOn].example
    /\ page # "landing" => card'[openedOn].probe = card[openedOn].probe

Kept == PagesTypes' /\ OpenedInv' /\ Outlived

LEMMA VisitsAreNumbers ==
    /\ Visits \subseteq Nat /\ 0 \notin Visits /\ MaxVisits \in Nat /\ MaxMoves \in Nat
    /\ \A v \in Visits \cup {0} : v < MaxVisits => v + 1 \in Visits
    /\ Nothing \in 0..Nothing /\ 0 \in 0..Nothing /\ Runs \subseteq 0..Nothing
    /\ No \in 0..Nothing /\ Yes \in 0..Nothing
BY DemoAssumption, PagesAssumption DEF Visits, Nothing, Runs, No, Yes

(* What the helpers make of a card.                                        *)
LEMMA CardFacts ==
    ASSUME NEW c \in Cards
    PROVE  /\ RetirePoll(c) \in Cards
           /\ RetirePoll(c).waits = c.waits /\ RetirePoll(c).example = c.example
           /\ ~RetirePoll(c).polling /\ RetirePoll(c).probe # "counts"
           /\ \A t : Polling(c, t) \in Cards
           /\ [c EXCEPT !.waits = Nothing] \in Cards
           /\ [c EXCEPT !.example = FALSE] \in Cards /\ [c EXCEPT !.nav = TRUE] \in Cards
           /\ \A p \in 0..Nothing : [c EXCEPT !.asked = TRUE, !.waits = p] \in Cards
BY VisitsAreNumbers DEF Cards, RetirePoll, Polling

LEMMA JoinLent == DemoTypes => JoinGives \in 0..Nothing
BY VisitsAreNumbers DEF DemoTypes, DemoTypeOK, JoinGives

LEMMA OpeningFacts ==
    ASSUME DemoTypes, NEW action, NEW t
    PROVE  Opening(action, t) \in Cards
<1>1. Blank \in Cards
  BY VisitsAreNumbers DEF Blank, Cards
<1>2. [Blank EXCEPT !.auto = TRUE, !.asked = TRUE, !.waits = JoinGives] \in Cards
  BY JoinLent DEF Blank, Cards
<1>3. [Blank EXCEPT !.auto = TRUE, !.nav = TRUE, !.example = TRUE] \in Cards
  BY VisitsAreNumbers DEF Blank, Cards
<1>4. Polling(Blank, t) \in Cards
  BY <1>1, CardFacts
<1> QED
  BY <1>2, <1>3, <1>4 DEF Opening

(* The visitor arrives somewhere, cards being the cards so far: a card that*)
(* is there stays as it is, but for the poll of the one just left.         *)
Arrives(cards) ==
    /\ tab' \in Tabs /\ page' \in {"away", "landing", "viewer"}
    /\ visit' \in Visits \cup {0} /\ visit <= visit'
    /\ view' \in {"idle", "joining", "loading", "shown", "failed"}
    /\ card' \in [Visits -> Cards]
    /\ page' = "landing" => visit' # visit
    /\ \A v \in Visits : v <= visit =>
          \/ card'[v] = cards[v]
          \/ v = visit /\ page = "landing" /\ card'[v] = RetirePoll(cards[v])

LEMMA GoToArrives ==
    ASSUME PagesTypes, NEW cards \in [Visits -> Cards], NEW p \in {"away", "viewer"},
           GoTo(p, cards), tab' \in Tabs,
           view' \in {"idle", "joining", "loading", "shown", "failed"}
    PROVE  Arrives(cards)
<1>1. \A v \in Visits : RetirePoll(cards[v]) \in Cards
  BY CardFacts
<1>2. page' = p /\ visit' = visit
      /\ card' = IF page = "landing" THEN [cards EXCEPT ![visit] = RetirePoll(@)] ELSE cards
  BY DEF GoTo, Left
<1>3. visit \in Nat /\ visit \in Visits \cup {0}
  BY VisitsAreNumbers DEF PagesTypes
<1>4. card' \in [Visits -> Cards]
  BY <1>1, <1>2
<1>5. \A v \in Visits : \/ card'[v] = cards[v]
                        \/ v = visit /\ page = "landing" /\ card'[v] = RetirePoll(cards[v])
  BY <1>2
<1> QED
  BY <1>2, <1>3, <1>4, <1>5 DEF Arrives

LEMMA LandArrives ==
    ASSUME PagesTypes, DemoTypes, NEW cards \in [Visits -> Cards], NEW t \in Tabs, NEW action,
           Land(t, action, cards)
    PROVE  Arrives(cards)
<1>1. CASE action = "open-session"
  BY <1>1, GoToArrives DEF Land
<1>2. CASE action # "open-session"
  <2>1. \A v \in Visits : RetirePoll(cards[v]) \in Cards
    BY CardFacts
  <2>2. Left(cards) \in [Visits -> Cards] /\ \A v \in Visits :
           Left(cards)[v] = IF v = visit /\ page = "landing" THEN RetirePoll(cards[v]) ELSE cards[v]
    BY <2>1 DEF Left
  <2>3. /\ tab' = t /\ visit < MaxVisits /\ visit' = visit + 1 /\ page' = "landing" /\ view' = "idle"
        /\ card' = [Left(cards) EXCEPT ![visit + 1] = Opening(action, t)]
    BY <1>2 DEF Land
  <2>4. visit \in Nat /\ visit + 1 \in Visits
    BY <2>3, VisitsAreNumbers DEF PagesTypes
  <2>5. Opening(action, t) \in Cards
    BY OpeningFacts
  <2>6. card' \in [Visits -> Cards] /\ \A v \in Visits : v <= visit => card'[v] = Left(cards)[v]
    BY <2>2, <2>3, <2>4, <2>5
  <2> QED
    BY <2>2, <2>3, <2>4, <2>6 DEF Arrives
<1> QED
  BY <1>1, <1>2

(* Whatever the demo lends: a session, a promise.                          *)
LEMMA TabsHold ==
    /\ NoTab \in Tabs /\ Tab("file", 0) \in Tabs /\ Tab("example", 0) \in Tabs
    /\ Tab("application", 0) \in Tabs
    /\ DemoTypes => Tab("demo", endpoint) \in Tabs
BY DEF NoTab, Tab, Tabs, DemoTypes, DemoTypeOK

LEMMA LoadPageArrives ==
    ASSUME PagesTypes, DemoTypes, NEW cards \in [Visits -> Cards], NEW t \in Tabs,
           NEW ref \in Runs \cup {0, Own}, LoadPage(t, ref, cards)
    PROVE  Arrives(cards) /\ refused' \in Runs \cup {0, Own} /\ viewP' \in 0..Nothing
<1>1. refused' \in Runs \cup {0, Own} /\ viewP' \in 0..Nothing
  BY JoinLent DEF LoadPage, PagesTypes
<1>2. \/ GoTo("viewer", cards) /\ tab' \in Tabs /\ view' \in {"joining", "loading", "shown"}
      \/ Land(NoTab, "manual", cards)
  BY TabsHold DEF LoadPage
<1>3. Arrives(cards)
  BY <1>2, GoToArrives, LandArrives, TabsHold
<1> QED
  BY <1>1, <1>3

LEMMA EnterViewerArrives ==
    ASSUME PagesTypes, DemoTypes, NEW cards \in [Visits -> Cards], NEW t \in Tabs,
           NEW ref \in Runs \cup {0, Own}, EnterViewer(t, ref, cards)
    PROVE  Arrives(cards) /\ refused' \in Runs \cup {0, Own} /\ viewP' \in 0..Nothing
<1>1. \/ LoadPage(Tab("demo", endpoint), 0, cards) \/ LoadPage(t, ref, cards)
      \/ Land(t, LandingAction(t, "none"), cards) /\ refused' = ref /\ viewP' = viewP
  BY DEF EnterViewer
<1>2. CASE Land(t, LandingAction(t, "none"), cards) /\ refused' = ref /\ viewP' = viewP
  BY <1>2, LandArrives DEF PagesTypes
<1>3. CASE LoadPage(Tab("demo", endpoint), 0, cards) \/ LoadPage(t, ref, cards)
  BY <1>3, LoadPageArrives, TabsHold
<1> QED
  BY <1>1, <1>2, <1>3

(* Arriving keeps the card of the file calm, if nothing was done to it     *)
(* before.                                                                 *)
LEMMA ArrivalKeeps ==
    ASSUME PageInv, NEW cards \in [Visits -> Cards], Arrives(cards),
           openedOn # 0 => cards[openedOn] = card[openedOn],
           openedOn' \in {openedOn, 0},
           refused' \in Runs \cup {0, Own}, expired' = expired, viewP' \in 0..Nothing
    PROVE  Kept
<1>1. PagesTypes'
  <2>1. page' = "landing" => visit' # 0
    BY VisitsAreNumbers DEF PageInv, PagesTypes, Arrives
  <2> QED
    BY <2>1 DEF PageInv, PagesTypes, Arrives
<1>2. ASSUME openedOn # 0
      PROVE  /\ openedOn \in Visits /\ openedOn <= visit /\ (page = "landing" => openedOn # visit)
             /\ Calm(card[openedOn]) /\ card'[openedOn] = card[openedOn]
  <2>1. /\ openedOn \in Visits /\ openedOn <= visit /\ (page = "landing" => openedOn # visit)
        /\ Calm(card[openedOn])
    BY <1>2 DEF PageInv, PagesTypes, OpenedInv
  <2>2. card'[openedOn] = cards[openedOn]
    BY <2>1 DEF Arrives
  <2> QED
    BY <1>2, <2>1, <2>2
<1>3. OpenedInv'
  <2> SUFFICES ASSUME openedOn' # 0 PROVE OpenedInv'
    BY DEF OpenedInv
  <2>1. openedOn' = openedOn /\ visit <= visit' /\ (page' = "landing" => visit' # visit)
    BY DEF Arrives
  <2>2. openedOn <= visit' /\ (page' = "landing" => openedOn # visit')
    BY <1>2, <2>1, VisitsAreNumbers DEF Arrives, PageInv, PagesTypes
  <2> QED
    BY <1>2, <2>1, <2>2 DEF OpenedInv
<1>4. Outlived
  BY <1>2 DEF Outlived
<1> QED
  BY <1>1, <1>3, <1>4 DEF Kept

LEMMA OpenDemoKeeps ==
    ASSUME PageInv, NEW v \in Visits, NEW cards \in [Visits -> Cards], OpenDemo(v, cards),
           openedOn # 0 => v # openedOn /\ cards[openedOn] = card[openedOn],
           openedOn' = openedOn, expired' = expired
    PROVE  Kept
<1>1. CASE cards[v].nav
  BY <1>1, VisitsAreNumbers DEF OpenDemo, Kept, PageInv, PagesTypes, OpenedInv, Outlived
<1>2. CASE ~cards[v].nav
  <2> DEFINE after == [cards EXCEPT ![v] = [RetirePoll(@) EXCEPT !.nav = TRUE]]
             ref == IF tab.source = "demo" THEN refused ELSE 0
  <2>0. RetirePoll(cards[v]) \in Cards
    BY CardFacts
  <2>1. [RetirePoll(cards[v]) EXCEPT !.nav = TRUE] \in Cards
    BY <2>0, CardFacts
  <2>2. after \in [Visits -> Cards] /\ (openedOn # 0 => after[openedOn] = card[openedOn])
    BY <2>1 DEF PageInv, PagesTypes
  <2>3. ref \in Runs \cup {0, Own}
    BY DEF PageInv, PagesTypes
  <2>4. \/ EnterViewer(Tab("demo", endpoint), ref, after)
        \/ /\ page = "viewer" /\ tab' = Tab("demo", endpoint) /\ view' = "failed"
           /\ card' = after /\ refused' = ref /\ UNCHANGED <<page, visit, viewP>>
    BY <1>2 DEF OpenDemo
  <2> HIDE DEF after, ref
  <2>5. CASE EnterViewer(Tab("demo", endpoint), ref, after)
    BY <2>2, <2>3, <2>5, EnterViewerArrives, ArrivalKeeps, TabsHold DEF PageInv
  <2>6. CASE /\ page = "viewer" /\ tab' = Tab("demo", endpoint) /\ view' = "failed"
             /\ card' = after /\ refused' = ref /\ UNCHANGED <<page, visit, viewP>>
    <3>1. Arrives(after)
      BY <2>2, <2>6, TabsHold, VisitsAreNumbers DEF Arrives, PageInv, PagesTypes
    <3> QED
      BY <2>2, <2>3, <2>6, <3>1, ArrivalKeeps DEF PageInv, PagesTypes
  <2> QED
    BY <2>4, <2>5, <2>6
<1> QED
  BY <1>1, <1>2

(* The steps the visitor takes.                                            *)
LEMMA MovesKeep == ASSUME PageInv, Moves PROVE Kept
<1>0. /\ PagesTypes /\ DemoTypes /\ OpenedInv /\ card \in [Visits -> Cards] /\ tab \in Tabs
      /\ refused \in Runs \cup {0, Own} /\ viewP \in 0..Nothing
      /\ visit \in Nat /\ openedOn \in Visits \cup {0}
  BY VisitsAreNumbers DEF PageInv, PagesTypes
<1>1. ASSUME NEW q \in Queries, OpenLanding(q) PROVE Kept
  <2>1. Arrives(card)
    BY <1>0, <1>1, LandArrives DEF OpenLanding
  <2> QED
    BY <1>0, <1>1, <2>1, ArrivalKeeps DEF OpenLanding
<1>2. CASE OpenViewer
  BY <1>0, <1>2, EnterViewerArrives, ArrivalKeeps DEF OpenViewer
<1>3. CASE Refresh
  BY <1>0, <1>3, LoadPageArrives, ArrivalKeeps DEF Refresh
<1>4. CASE GoAway
  <2>1. Arrives(card)
    BY <1>0, <1>4, GoToArrives DEF GoAway
  <2> QED
    BY <1>0, <1>4, <2>1, ArrivalKeeps DEF GoAway
<1>5. CASE Reload
  <2>1. Blank \in Cards
    BY VisitsAreNumbers DEF Blank, Cards
  <2> QED
    BY <1>0, <1>5, <2>1, VisitsAreNumbers DEF Reload, Kept, PagesTypes, OpenedInv, Outlived
<1>6. CASE LoadExample
  <2>1. PICK p \in Runs \cup {Yes} :
          card' = [card EXCEPT ![visit] = [RetirePoll(@) EXCEPT !.asked = TRUE, !.waits = p]]
    BY <1>6 DEF LoadExample
  <2>2. \A v \in Visits : [RetirePoll(card[v]) EXCEPT !.asked = TRUE, !.waits = p] \in Cards
    <3>1. \A v \in Visits : RetirePoll(card[v]) \in Cards
      BY <1>0, CardFacts
    <3>2. p \in 0..Nothing
      BY VisitsAreNumbers
    <3> QED
      BY <3>1, <3>2, CardFacts
  <2>3. card' \in [Visits -> Cards] /\ \A v \in Visits : v # visit => card'[v] = card[v]
    BY <1>0, <2>1, <2>2
  <2> QED
    BY <1>0, <1>6, <2>3 DEF LoadExample, SameVisitor, Kept, PagesTypes, OpenedInv, Outlived
<1>7. CASE CancelDemo
  <2>1. card' = [card EXCEPT ![visit] =
                  Polling([@ EXCEPT !.waits = Nothing, !.asked = FALSE, !.auto = FALSE], tab)]
    BY <1>7 DEF CancelDemo
  <2>2. \A v \in Visits :
           [card[v] EXCEPT !.waits = Nothing, !.asked = FALSE, !.auto = FALSE] \in Cards
    BY <1>0, VisitsAreNumbers DEF Cards
  <2>3. \A v \in Visits :
           Polling([card[v] EXCEPT !.waits = Nothing, !.asked = FALSE, !.auto = FALSE], tab) \in Cards
    BY <2>2, CardFacts
  <2>4. card' \in [Visits -> Cards] /\ \A v \in Visits : v # visit => card'[v] = card[v]
    BY <1>0, <2>1, <2>3
  <2> QED
    BY <1>0, <1>7, <2>4 DEF CancelDemo, SameVisitor, Kept, PagesTypes, OpenedInv, Outlived
<1>8. CASE OpenGraphFile
  <2>1. \A v \in Visits : Prepared(card[v]) \in Cards /\ Calm(Prepared(card[v]))
                          /\ Calm(RetirePoll(Prepared(card[v])))
    <3> SUFFICES ASSUME NEW v \in Visits
                 PROVE  Prepared(card[v]) \in Cards /\ Calm(Prepared(card[v]))
                        /\ Calm(RetirePoll(Prepared(card[v])))
      OBVIOUS
    <3>1. card[v] \in Cards /\ RetirePoll(card[v]) \in Cards /\ ~RetirePoll(card[v]).polling
          /\ RetirePoll(card[v]).probe # "counts"
      BY <1>0, CardFacts
    <3>2. Prepared(card[v]) \in Cards /\ Calm(Prepared(card[v]))
      BY <3>1, VisitsAreNumbers DEF Prepared, Cards, Calm
    <3> QED
      BY <3>2, CardFacts DEF Calm
  <2>2. CASE page = "landing"
    <3> DEFINE cards == [card EXCEPT ![visit] = Prepared(@)]
    <3>1. cards \in [Visits -> Cards] /\ \A v \in Visits : v # visit => cards[v] = card[v]
      BY <1>0, <2>1
    <3>2. visit # 0 => cards[visit] = Prepared(card[visit]) /\ visit \in Visits
      BY <1>0 DEF PagesTypes
    <3>3. GoTo("viewer", cards) /\ tab' \in Tabs /\ view' = "shown" /\ openedOn' = visit
          /\ refused' = 0 /\ expired' = expired /\ viewP' = viewP
      BY <1>8, <2>2, TabsHold DEF OpenGraphFile
    <3> HIDE DEF cards
    <3>4. Arrives(cards) /\ page' = "viewer" /\ visit' = visit
      BY <1>0, <3>1, <3>3, GoToArrives DEF GoTo
    <3>5. PagesTypes'
      BY <1>0, <3>3, <3>4 DEF PagesTypes, Arrives
    <3>6. OpenedInv'
      BY <1>0, <2>1, <3>2, <3>3, <3>4 DEF OpenedInv, Arrives
    <3>7. Outlived
      BY <1>0, <2>2, <3>1, <3>4 DEF Outlived, Arrives, OpenedInv
    <3> QED
      BY <3>5, <3>6, <3>7 DEF Kept
  <2>3. CASE page # "landing"
    <3>1. Arrives(card)
      BY <1>0, <1>8, <2>3, TabsHold DEF OpenGraphFile, Arrives, PagesTypes
    <3> QED
      BY <1>0, <1>8, <2>3, <3>1, ArrivalKeeps DEF OpenGraphFile
  <2> QED
    BY <2>2, <2>3
<1>9. CASE CloseGraphFile
  <2>1. Arrives(card)
    BY <1>0, <1>9, LandArrives, TabsHold DEF CloseGraphFile
  <2> QED
    BY <1>0, <1>9, <2>1, ArrivalKeeps DEF CloseGraphFile
<1>10. CASE Elsewhere
  BY <1>0, <1>10 DEF Elsewhere, pages, Kept, PagesTypes, OpenedInv, Outlived
<1> QED
  BY <1>1, <1>2, <1>3, <1>4, <1>5, <1>6, <1>7, <1>8, <1>9, <1>10 DEF Moves

(* The answers that come, to the page or to a card.                        *)
LEMMA PageAnswersKeep == ASSUME PageInv, Answers PROVE Kept
<1>0. /\ PagesTypes /\ DemoTypes /\ OpenedInv /\ card \in [Visits -> Cards] /\ tab \in Tabs
      /\ refused \in Runs \cup {0, Own} /\ viewP \in 0..Nothing
      /\ visit \in Nat /\ openedOn \in Visits \cup {0} /\ Nothing \in 0..Nothing
  BY VisitsAreNumbers DEF PageInv, PagesTypes
<1>1. CASE UNCHANGED pages
  BY <1>0, <1>1 DEF pages, Kept, PagesTypes, OpenedInv, Outlived
<1>2. CASE GraphLoads
  <2>1. tab' \in Tabs
    BY <1>0, <1>2 DEF GraphLoads, Tabs
  <2>2. refused' \in Runs \cup {0, Own} /\ view' \in {"shown", "failed"}
    BY <1>0, <1>2 DEF GraphLoads, PagesTypes
  <2> QED
    BY <1>0, <1>2, <2>1, <2>2 DEF GraphLoads, Kept, PagesTypes, OpenedInv, Outlived
<1>3. CASE JoinEnds
  <2>1. CASE Won(viewP)
    BY <1>0, <1>3, <2>1, TabsHold DEF JoinEnds, Kept, PagesTypes, OpenedInv, Outlived
  <2>2. CASE ~Won(viewP)
    BY <1>0, <1>3, <2>2, LandArrives, ArrivalKeeps DEF JoinEnds
  <2> QED
    BY <2>1, <2>2
<1>4. CASE DemoComesUp
  <2>1. page = "landing" /\ OpenDemo(visit, card) /\ openedOn' = openedOn /\ expired' = expired
    BY <1>4 DEF DemoComesUp
  <2>2. visit \in Visits
    BY <1>0, <2>1 DEF PagesTypes
  <2> QED
    BY <1>0, <2>1, <2>2, OpenDemoKeeps DEF OpenedInv
<1>5. ASSUME NEW v \in Visits, DemoAnswers(v) PROVE Kept
  <2> DEFINE cards == [card EXCEPT ![v].waits = Nothing]
  <2>1. cards \in [Visits -> Cards] /\ \A w \in Visits : w # v => cards[w] = card[w]
    BY <1>0, CardFacts
  <2>2. openedOn # 0 => v # openedOn
    BY <1>0, <1>5 DEF DemoAnswers, OpenedInv, Calm
  <2>3. openedOn' = openedOn /\ expired' = expired
    BY <1>5 DEF DemoAnswers
  <2>4. \/ OpenDemo(v, cards)
        \/ /\ card' = [cards EXCEPT ![v] = Polling([@ EXCEPT !.auto = FALSE], tab)]
           /\ UNCHANGED <<page, visit, tab, refused, view, viewP>>
    BY <1>5 DEF DemoAnswers
  <2> HIDE DEF cards
  <2>5. CASE OpenDemo(v, cards)
    BY <1>0, <2>1, <2>2, <2>3, <2>5, OpenDemoKeeps
  <2>6. CASE /\ card' = [cards EXCEPT ![v] = Polling([@ EXCEPT !.auto = FALSE], tab)]
             /\ UNCHANGED <<page, visit, tab, refused, view, viewP>>
    <3>0. cards[v] \in Cards
      BY <2>1
    <3>1. [cards[v] EXCEPT !.auto = FALSE] \in Cards
      BY <3>0 DEF Cards
    <3>2. Polling([cards[v] EXCEPT !.auto = FALSE], tab) \in Cards
      BY <3>1, CardFacts
    <3>3. card' \in [Visits -> Cards] /\ \A w \in Visits : w # v => card'[w] = card[w]
      BY <2>1, <2>6, <3>2
    <3> QED
      BY <1>0, <2>2, <2>3, <2>6, <3>3 DEF Kept, PagesTypes, OpenedInv, Outlived
  <2> QED
    BY <2>4, <2>5, <2>6
<1>6. ASSUME NEW v \in Visits, ExampleAnswers(v) PROVE Kept
  <2> DEFINE cards == [card EXCEPT ![v].example = FALSE]
  <2>1. cards \in [Visits -> Cards] /\ \A w \in Visits : w # v => cards[w] = card[w]
    BY <1>0, CardFacts
  <2>2. openedOn # 0 => v # openedOn
    BY <1>0, <1>6 DEF ExampleAnswers, OpenedInv, Calm
  <2>3. openedOn' = openedOn /\ expired' = expired /\ viewP' = viewP
    BY <1>6 DEF ExampleAnswers
  <2>4. \/ tab' = Tab("example", 0) /\ refused' = 0 /\ view' = "shown" /\ GoTo("viewer", cards)
        \/ /\ card' = [cards EXCEPT ![v] = Polling([@ EXCEPT !.nav = FALSE, !.auto = FALSE], tab)]
           /\ UNCHANGED <<page, visit, tab, refused, view>>
    BY <1>6 DEF ExampleAnswers
  <2> HIDE DEF cards
  <2>5. CASE tab' = Tab("example", 0) /\ refused' = 0 /\ view' = "shown" /\ GoTo("viewer", cards)
    BY <1>0, <2>1, <2>2, <2>3, <2>5, GoToArrives, ArrivalKeeps, TabsHold
  <2>6. CASE /\ card' = [cards EXCEPT ![v] = Polling([@ EXCEPT !.nav = FALSE, !.auto = FALSE], tab)]
             /\ UNCHANGED <<page, visit, tab, refused, view>>
    <3>0. cards[v] \in Cards
      BY <2>1
    <3>1. [cards[v] EXCEPT !.nav = FALSE, !.auto = FALSE] \in Cards
      BY <3>0 DEF Cards
    <3>2. Polling([cards[v] EXCEPT !.nav = FALSE, !.auto = FALSE], tab) \in Cards
      BY <3>1, CardFacts
    <3>3. card' \in [Visits -> Cards] /\ \A w \in Visits : w # v => card'[w] = card[w]
      BY <2>1, <2>6, <3>2
    <3> QED
      BY <1>0, <2>2, <2>3, <2>6, <3>3 DEF Kept, PagesTypes, OpenedInv, Outlived
  <2> QED
    BY <2>4, <2>5, <2>6
<1>7. ASSUME NEW v \in Visits, Probe(v) PROVE Kept
  <2>1. openedOn # 0 => v # openedOn
    BY <1>0, <1>7 DEF Probe, OpenedInv, Calm
  <2>2. [card[v] EXCEPT !.probe = "counts"] \in Cards
    BY <1>0 DEF Cards
  <2>3. card' \in [Visits -> Cards] /\ \A w \in Visits : w # v => card'[w] = card[w]
    BY <1>0, <1>7, <2>2 DEF Probe
  <2> QED
    BY <1>0, <1>7, <2>1, <2>3 DEF Probe, SameVisitor, Kept, PagesTypes, OpenedInv, Outlived
<1>8. ASSUME NEW v \in Visits, ProbeAnswered(v) PROVE Kept
  <2>1. card[v] \in Cards
    BY <1>0
  <2>2. \E c \in Cards :
           /\ card' = [card EXCEPT ![v] = c]
           /\ c.waits = card[v].waits /\ c.example = card[v].example
           /\ (c.polling => card[v].polling) /\ c.probe = "none"
    <3>0. /\ [card[v] EXCEPT !.probe = "none"] \in Cards
          /\ [card[v] EXCEPT !.probe = "none", !.polling = FALSE] \in Cards
      BY <2>1 DEF Cards
    <3>1. CASE card' = [card EXCEPT ![v].probe = "none"]
      BY <2>1, <3>0, <3>1 DEF Cards
    <3>2. CASE card' = [card EXCEPT ![v].probe = "none", ![v].polling = FALSE]
      <4>1. card' = [card EXCEPT ![v] = [card[v] EXCEPT !.probe = "none", !.polling = FALSE]]
        BY <1>0, <3>2
      <4> QED
        BY <2>1, <3>0, <4>1 DEF Cards
    <3> QED
      BY <1>8, <3>1, <3>2 DEF ProbeAnswered
  <2>3. /\ tab' \in Tabs /\ refused' \in Runs \cup {0, Own}
        /\ tab' # tab => card[v].probe = "counts"
        /\ UNCHANGED <<page, visit, expired, view, viewP, openedOn>>
    BY <1>0, <1>8, TabsHold DEF ProbeAnswered
  <2>4. PagesTypes'
    BY <1>0, <2>2, <2>3 DEF PagesTypes
  <2>5. OpenedInv'
    BY <1>0, <2>2, <2>3 DEF OpenedInv, Calm
  <2>6. Outlived
    BY <1>0, <2>2, <2>3 DEF Outlived, OpenedInv, Calm
  <2> QED
    BY <2>4, <2>5, <2>6 DEF Kept
<1>9. ASSUME NEW r \in Runs, Expire(r) PROVE Kept
  BY <1>0, <1>9 DEF Expire, Kept, PagesTypes, OpenedInv, Outlived
<1> QED
  BY <1>1, <1>2, <1>3, <1>4, <1>5, <1>6, <1>7, <1>8, <1>9 DEF Answers

(* A startup lets go of its pod before it ends, or has published it: the   *)
(* pod that is published stays one of those that live.                     *)
LEMMA TypesKeep == ASSUME DemoTypes, DemoStep PROVE DemoTypes'
<1> USE RunsAreNumbers DEF podVars, procVars, readVars, Published, Unpublished
<1>0. /\ DemoTypeOK /\ at \in [Runs -> Running \cup {"unused", "won", "lost"}]
      /\ read \in [Reads -> {"unused", "starting", "reading", "done"}]
      /\ readP \in [Reads -> Runs \cup {Yes}]
  BY DEF DemoTypes, DemoTypeOK
<1>1. ASSUME NEW r \in Runs, Begin(r),
             read' \in [Reads -> {"unused", "starting", "reading", "done"}],
             readP' \in [Reads -> Runs \cup {Yes}],
             graphP' \in Reads \cup {0}, graph' \in Runs \cup {0}
      PROVE  DemoTypes'
  <2>1. DemoTypeOK'
    BY <1>0, <1>1 DEF Begin, DisposePod, DemoTypeOK, Busy, Running, Fetching
  <2>2. pod' = 0 /\ live' = live \ {pod} /\ at' = [at EXCEPT ![r] = "manifest"]
    BY <1>1 DEF Begin, DisposePod
  <2> QED
    BY <1>0, <2>1, <2>2 DEF DemoTypes
<1>2. ASSUME NEW p \in Runs \cup {Yes}, StartGives(p), graph' = graph,
             read' \in [Reads -> {"unused", "starting", "reading", "done"}],
             readP' \in [Reads -> Runs \cup {Yes}], graphP' \in Reads \cup {0}
      PROVE  DemoTypes'
  <2>1. CASE UNCHANGED <<status, at, owner, startP, podVars, procVars, endpoint>>
    BY <1>0, <1>2, <2>1 DEF DemoTypes, DemoTypeOK
  <2>2. CASE p \in Runs /\ Begin(p)
    BY <1>0, <1>1, <1>2, <2>2 DEF DemoTypeOK
  <2> QED
    BY <1>2, <2>1, <2>2 DEF StartGives
<1>3. ASSUME NEW r \in Runs, Startup(r) PROVE DemoTypes'
  <2> USE DEF Goes, Stays, Running, Fetching
  <2>1. ASSUME NEW from \in {"manifest", "payload", "boot", "spawn", "wait"},
               GiveUp(r, from), UNCHANGED podVars
        PROVE  DemoTypes'
    BY <1>0, <2>1 DEF GiveUp, DemoTypes, DemoTypeOK
  <2>2. CASE Download(r)
    <3>1. CASE /\ \/ Goes(r, "manifest", "payload") /\ UNCHANGED status
                  \/ Goes(r, "payload", "boot") /\ status' = "booting"
               /\ UNCHANGED <<owner, startP, podVars, procVars, endpoint, readVars>>
      <4>1. DemoTypeOK'
        BY <1>0, <3>1 DEF DemoTypeOK, Busy
      <4>2. at[r] \in Fetching /\ \E x \in {"payload", "boot"} : at' = [at EXCEPT ![r] = x]
        BY <3>1
      <4> QED
        BY <1>0, <3>1, <4>1, <4>2 DEF DemoTypes
    <3> QED
      BY <2>1, <2>2, <3>1 DEF Download
  <2>3. CASE Boot(r)
    <3>1. CASE /\ Goes(r, "boot", "restore") /\ live' = live \cup {r}
               /\ UNCHANGED <<status, owner, startP, pod, fetchIs, under, procVars, endpoint, readVars>>
      <4>1. DemoTypeOK'
        BY <1>0, <3>1 DEF DemoTypeOK, Busy
      <4> QED
        BY <1>0, <3>1, <4>1 DEF DemoTypes
    <3> QED
      BY <2>1, <2>3, <3>1 DEF Boot
  <2>4. CASE Restore(r)
    <3>1. CASE /\ Goes(r, "restore", "write")
               /\ UNCHANGED <<status, owner, startP, podVars, procVars, endpoint, readVars>>
      <4>1. DemoTypeOK'
        BY <1>0, <3>1 DEF DemoTypeOK
      <4> QED
        BY <1>0, <3>1, <4>1 DEF DemoTypes
    <3>2. CASE GiveUp(r, "restore") /\ live' = live \ {r} /\ UNCHANGED <<pod, fetchIs, under>>
      <4>1. pod # r
        BY <3>2 DEF GiveUp, DemoTypes
      <4>2. DemoTypeOK'
        BY <1>0, <3>2, <4>1 DEF GiveUp, DemoTypeOK
      <4> QED
        BY <1>0, <3>2, <4>2 DEF GiveUp, DemoTypes
    <3> QED
      BY <2>4, <3>1, <3>2 DEF Restore
  <2>5. CASE Publish(r)
    BY <1>0, <2>5 DEF Publish, DemoTypes, DemoTypeOK, Busy
  <2>6. CASE Spawn(r)
    <3>1. CASE /\ Goes(r, "spawn", "wait") /\ processes' = processes \cup {r}
               /\ UNCHANGED <<status, owner, startP, podVars, printed, exited, endpoint, readVars>>
      <4>1. DemoTypeOK'
        BY <1>0, <3>1 DEF DemoTypeOK, Busy
      <4> QED
        BY <1>0, <3>1, <4>1 DEF DemoTypes
    <3> QED
      BY <2>1, <2>6, <3>1 DEF Spawn
  <2>7. CASE ReadEndpoint(r)
    <3>1. CASE /\ Goes(r, "wait", "won") /\ (\E q \in printed : endpoint' = q)
               /\ status' = "ready"
               /\ UNCHANGED <<owner, startP, podVars, procVars, readVars>>
      <4>1. DemoTypeOK'
        BY <1>0, <3>1 DEF DemoTypeOK, Busy
      <4> QED
        BY <1>0, <3>1, <4>1 DEF DemoTypes
    <3> QED
      BY <2>1, <2>7, <3>1 DEF ReadEndpoint
  <2>8. CASE Fail(r)
    <3>1. /\ at[r] \in Running /\ at' = [at EXCEPT ![r] = "lost"]
          /\ UNCHANGED <<under, processes, printed, readVars>>
      BY <2>8 DEF Fail
    <3>2. CASE /\ status' = "error" /\ startP' = 0
               /\ fetchIs' = IF pod # 0 /\ fetchIs = pod THEN under[pod] ELSE fetchIs
               /\ live' = live \ ({pod} \cup IF at[r] \in Unpublished THEN {r} ELSE {})
               /\ pod' = 0 /\ exited' = FALSE /\ endpoint' = 0 /\ owner' = 0
      <4>1. DemoTypeOK'
        BY <1>0, <3>1, <3>2 DEF DemoTypeOK
      <4> QED
        BY <1>0, <3>1, <3>2, <4>1 DEF DemoTypes
    <3>3. CASE /\ live' = live \ (IF at[r] \in Unpublished THEN {r} ELSE {})
               /\ UNCHANGED <<status, startP, fetchIs, pod, exited, endpoint, owner>>
      <4>1. DemoTypeOK'
        BY <1>0, <3>1, <3>3 DEF DemoTypes, DemoTypeOK
      <4> QED
        BY <1>0, <3>1, <3>3, <4>1 DEF DemoTypes
    <3> QED
      BY <2>8, <3>2, <3>3 DEF Fail
  <2> QED
    BY <1>3, <2>2, <2>3, <2>4, <2>5, <2>6, <2>7, <2>8 DEF Startup
<1>4. ASSUME NEW r \in Runs, LogLine(r) \/ Exit(r) PROVE DemoTypes'
  <2>1. CASE LogLine(r)
    BY <1>0, <2>1 DEF LogLine, DemoTypes, DemoTypeOK
  <2>2. CASE Exit(r)
    <3>1. status' \in {status, "error"} /\ exited' \in BOOLEAN /\ processes' \subseteq processes
      BY <1>0, <2>2 DEF Exit, DemoTypeOK
    <3> QED
      BY <1>0, <2>2, <3>1 DEF Exit, DemoTypes, DemoTypeOK
  <2> QED
    BY <1>4, <2>1, <2>2
<1>5. ASSUME NEW i \in Reads, ReadStarts(i) PROVE DemoTypes'
  BY <1>0, <1>5 DEF ReadStarts, SameDemo, DemoTypes, DemoTypeOK, Yes
<1>6. ASSUME NEW i \in Reads, ReadAnswered(i) PROVE DemoTypes'
  BY <1>0, <1>6 DEF ReadAnswered, SameDemo, DemoTypes, DemoTypeOK
<1>7. CASE Stop
  BY <1>0, <1>7 DEF Stop, DisposePod, DemoTypes, DemoTypeOK
<1>8. CASE Retry
  <2>1. PICK r \in Runs, i \in Reads :
          /\ Begin(r) /\ read' = [read EXCEPT ![i] = "starting"]
          /\ readP' = [readP EXCEPT ![i] = r] /\ graphP' = i /\ graph' = 0
    BY <1>8 DEF Retry
  <2> QED
    BY <1>0, <1>1, <2>1
<1>9. CASE LoadGraphOutput
  <2>1. CASE UNCHANGED demoVars
    BY <2>1 DEF demoVars, DemoTypes, DemoTypeOK
  <2>2. CASE ~UNCHANGED demoVars
    <3>1. PICK i \in Reads, p \in Runs \cup {Yes} :
            /\ StartGives(p)
            /\ read' = [read EXCEPT ![i] = "starting"] /\ readP' = [readP EXCEPT ![i] = p]
            /\ graphP' = i /\ graph' = graph
      BY <1>9, <2>2 DEF LoadGraphOutput
    <3> QED
      BY <1>0, <1>2, <3>1
  <2> QED
    BY <2>1, <2>2
<1>10. CASE Reload
  BY <1>0, <1>10 DEF Reload, DemoTypes, DemoTypeOK
<1>11. CASE DismissError \/ UNCHANGED demoVars
  <2>1. /\ UNCHANGED <<at, owner, startP, podVars, procVars, endpoint, readVars>>
        /\ status' \in {status, "idle"}
    BY <1>11 DEF DismissError, SameDemo, demoVars
  <2> QED
    BY <2>1 DEF DemoTypes, DemoTypeOK
<1>12. ASSUME NEW p \in Runs \cup {Yes}, StartGives(p), UNCHANGED readVars PROVE DemoTypes'
  BY <1>0, <1>2, <1>12 DEF DemoTypeOK
<1> QED
  BY <1>3, <1>4, <1>5, <1>6, <1>7, <1>8, <1>9, <1>10, <1>11, <1>12 DEF DemoStep, Demo

LEMMA PagesBegin == Init => PageInv
<1>1. Init => DemoTypes
  BY DemoBegins DEF DemoInv, HeldInv, DemoTypes, Init, DemoInit
<1>2. Init => PagesTypes /\ OpenedInv /\ moves \in 0..MaxMoves
  BY VisitsAreNumbers, TabsHold DEF Init, PagesTypes, OpenedInv, Tab, NoTab, Tabs, Blank, Cards, Own
<1> QED
  BY <1>1, <1>2 DEF PageInv

LEMMA PageStepKeeps == ASSUME PageInv, [Next]_vars PROVE PageInv' /\ Outlived
<1>1. DemoTypes'
  BY PagesStep, TypesKeep DEF PageInv
<1>2. Kept
  <2>1. CASE UNCHANGED vars
    BY <2>1 DEF vars, pages, PageInv, Kept, PagesTypes, OpenedInv, Outlived
  <2>2. CASE Next
    BY <2>2, MovesKeep, PageAnswersKeep DEF Next
  <2> QED
    BY <2>1, <2>2
<1>3. moves' \in 0..MaxMoves
  BY VisitsAreNumbers DEF Next, vars, PageInv
<1> QED
  BY <1>1, <1>2, <1>3 DEF PageInv, Kept

(* The invariant of the pages holds however the payloads are written.      *)
THEOREM PageInvariance == Spec => []PageInv
<1>1. PageInv /\ [Next]_vars => PageInv'
  BY PageStepKeeps
<1> QED
  BY <1>1, PagesBegin, PTL DEF Spec

(* Every state of the pages and of the demo under them is well typed: no   *)
(* promise, pod or session of a startup that never was (nodepod-demo.ts).  *)
THEOREM TypeCorrect == Spec => []TypeOK
<1>1. PageInv => TypeOK
  BY DEF PageInv, DemoTypes, PagesTypes, Tabs, TypeOK
<1> QED
  BY <1>1, PageInvariance, PTL

(* A graph file outlives whatever the card it was opened on was waiting    *)
(* for: the demo it asked for, an example, a probe (pages/view/index.vue,  *)
(* prepareForGraphFile).                                                   *)
THEOREM FilesOutliveTheirCards == Spec => FileOutlivesItsCard
<1>1. PageInv /\ [Next]_vars =>
        [tab.source = "file" /\ tab'.source # "file" /\ openedOn # 0
           => card'[openedOn].waits = card[openedOn].waits
              /\ card'[openedOn].example = card[openedOn].example
              /\ (page # "landing" => card'[openedOn].probe = card[openedOn].probe)]_vars
  BY PageStepKeeps DEF Outlived
<1> QED
  BY <1>1, PageInvariance, PTL DEF Spec, FileOutlivesItsCard
=============================================================================
