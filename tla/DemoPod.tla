------------------------------- MODULE DemoPod -------------------------------
(***************************************************************************)
(* The in-browser demo of site/app/stores/nodepod-demo.ts: one runtime     *)
(* (pod) serving every preview and the viewer, started, joined, stopped    *)
(* and restarted by whoever asks, with the bridge that routes the tab's    *)
(* fetch to it.                                                            *)
(*                                                                         *)
(* A startup is a chain of awaits; each action below is what runs between  *)
(* two of them.  The generation counter of the run guard is abstracted to  *)
(* the startup whose claim still holds (owner).  A promise of a startup is *)
(* named by the startup; Yes and No are promises already resolved.         *)
(***************************************************************************)
EXTENDS Naturals, FiniteSets

CONSTANTS
    MaxRuns,       \* bound on the startups of a tab
    MaxReads,      \* bound on the reads of the demo's graph
    SettledWrites  \* whether the in-memory writes of a payload run as one burst

ASSUME DemoAssumption ==
    MaxRuns \in Nat /\ MaxReads \in Nat /\ SettledWrites \in BOOLEAN

Runs  == 1..MaxRuns
Reads == 1..MaxReads
Yes   == 0
No    == MaxRuns + 1

VARIABLES
    status,      \* what the store shows
    at,          \* where each startup is
    owner,       \* the startup whose claim holds, 0 after supersede()
    startP,      \* startPromise, 0 when there is none
    pod,         \* the published pod, 0 when there is none
    live,        \* the pods booted and not torn down
    fetchIs,     \* the startup whose bridge window.fetch is, 0 for the browser's
    under,       \* originalFetch: what each bridge was laid over
    processes,   \* the startups whose application process is watched
    printed,     \* the startups whose viewer link is in the log
    exited,      \* exitCode is set
    endpoint,    \* the pod endpointUrl and accessToken are of, 0 when empty
    read, readP, \* where each graph read is, and the promise it awaits
    graphP,      \* graphPromise, 0 when there is none
    graph        \* the pod whose graph graphOutput is, 0 when there is none

podVars  == <<pod, live, fetchIs, under>>
procVars == <<processes, printed, exited>>
readVars == <<read, readP, graphP, graph>>
demoVars == <<status, at, owner, startP, podVars, procVars, endpoint, readVars>>

Fetching == {"manifest", "payload"}
Unpublished == {"restore", "write"}     \* booted, and held by the startup alone
Running  == Fetching \cup {"boot", "spawn", "wait"} \cup Unpublished
Busy     == {"downloading", "booting", "starting"}

DemoTypeOK ==
    /\ status \in Busy \cup {"idle", "ready", "error"}
    /\ at \in [Runs -> Running \cup {"unused", "won", "lost"}]
    /\ owner \in Runs \cup {0} /\ startP \in Runs \cup {0}
    /\ pod \in live \cup {0} /\ live \subseteq Runs
    /\ fetchIs \in Runs \cup {0} /\ under \in [Runs -> Runs \cup {0}]
    /\ processes \subseteq Runs /\ printed \subseteq Runs /\ exited \in BOOLEAN
    /\ endpoint \in Runs \cup {0}
    /\ read \in [Reads -> {"unused", "starting", "reading", "done"}]
    /\ readP \in [Reads -> Runs \cup {Yes}]
    /\ graphP \in Reads \cup {0} /\ graph \in Runs \cup {0}

DemoInit ==
    /\ status = "idle" /\ at = [r \in Runs |-> "unused"]
    /\ owner = 0 /\ startP = 0
    /\ pod = 0 /\ live = {} /\ fetchIs = 0 /\ under = [r \in Runs |-> 0]
    /\ processes = {} /\ printed = {} /\ exited = FALSE /\ endpoint = 0
    /\ read = [i \in Reads |-> "unused"] /\ readP = [i \in Reads |-> Yes]
    /\ graphP = 0 /\ graph = 0

IsRunning  == status = "ready"
IsBusy     == status \in Busy
Current(r) == owner = r
Settled(p) == p \in Runs => at[p] \in {"won", "lost"}
Won(p)     == p = Yes \/ (p \in Runs /\ at[p] = "won")

(* Nothing comes between the writes of a payload when they run as one burst. *)
Interruptible == SettledWrites => \A r \in Runs : at[r] # "write"

-----------------------------------------------------------------------------
(* disposePod, handing the store to the startup o (0: to none).            *)
DisposePod(o) ==
    /\ fetchIs' = IF pod # 0 /\ fetchIs = pod THEN under[pod] ELSE fetchIs
    /\ live' = live \ {pod} /\ pod' = 0
    /\ exited' = FALSE /\ endpoint' = 0
    /\ owner' = o
    /\ UNCHANGED under

(* run(), up to its first await. *)
Begin(r) ==
    /\ at[r] = "unused" /\ \A q \in Runs : q < r => at[q] # "unused"
    /\ at' = [at EXCEPT ![r] = "manifest"]
    /\ DisposePod(r)
    /\ status' = "downloading" /\ printed' = {} /\ startP' = r
    /\ UNCHANGED processes

(* start(): p is the promise it returns. *)
StartGives(p) ==
    \/ /\ status = "ready" /\ p = Yes
       /\ UNCHANGED <<status, at, owner, startP, podVars, procVars, endpoint>>
    \/ /\ status # "ready" /\ startP # 0 /\ p = startP
       /\ UNCHANGED <<status, at, owner, startP, podVars, procVars, endpoint>>
    \/ /\ status # "ready" /\ startP = 0 /\ p \in Runs
       /\ Begin(p)

(* join() *)
JoinGives == IF status = "ready" THEN Yes ELSE IF startP # 0 THEN startP ELSE No

Stays(r, stage)    == at[r] = stage
Goes(r, from, to)  == Stays(r, from) /\ at' = [at EXCEPT ![r] = to]
SameReads          == UNCHANGED readVars

(* A startup that finds itself superseded gives up. *)
GiveUp(r, from) ==
    /\ ~Current(r) /\ Goes(r, from, "lost")
    /\ UNCHANGED <<status, owner, startP, procVars, endpoint, readVars>>

Download(r) ==
    \/ /\ Current(r)
       /\ \/ Goes(r, "manifest", "payload") /\ UNCHANGED status
          \/ Goes(r, "payload", "boot") /\ status' = "booting"
       /\ UNCHANGED <<owner, startP, podVars, procVars, endpoint, readVars>>
    \/ \E s \in Fetching : GiveUp(r, s) /\ UNCHANGED podVars

(* The boot is answered: a pod nobody waits for any more is torn down.     *)
Boot(r) ==
    \/ /\ Current(r) /\ Goes(r, "boot", "restore") /\ live' = live \cup {r}
       /\ UNCHANGED <<status, owner, startP, pod, fetchIs, under, procVars, endpoint, readVars>>
    \/ GiveUp(r, "boot") /\ UNCHANGED podVars

(* Mutant: a superseded startup forgets the pod it booted. *)
RestoreLeaking(r) ==
    \/ /\ Current(r) /\ Goes(r, "restore", "write")
       /\ UNCHANGED <<status, owner, startP, podVars, procVars, endpoint, readVars>>
    \/ GiveUp(r, "restore") /\ UNCHANGED podVars

Restore(r) ==
    \/ /\ Current(r) /\ Goes(r, "restore", "write")
       /\ UNCHANGED <<status, owner, startP, podVars, procVars, endpoint, readVars>>
    \/ /\ GiveUp(r, "restore") /\ live' = live \ {r}
       /\ UNCHANGED <<pod, fetchIs, under>>

(* The last write is done; the pod is published without another look at    *)
(* whether the startup is still the current one.                           *)
Publish(r) ==
    /\ Goes(r, "write", "spawn")
    /\ pod' = r /\ under' = [under EXCEPT ![r] = fetchIs] /\ fetchIs' = r
    /\ status' = "starting"
    /\ UNCHANGED <<owner, startP, live, procVars, endpoint, readVars>>

Spawn(r) ==
    \/ /\ Current(r) /\ Goes(r, "spawn", "wait") /\ processes' = processes \cup {r}
       /\ UNCHANGED <<status, owner, startP, podVars, printed, exited, endpoint, readVars>>
    \/ GiveUp(r, "spawn") /\ UNCHANGED podVars

(* The application prints its viewer link, or ends.                        *)
LogLine(r) ==
    /\ r \in processes \cap live /\ r \notin printed
    /\ printed' = printed \cup {r}
    /\ UNCHANGED <<status, at, owner, startP, podVars, processes, exited, endpoint, readVars>>

Exit(r) ==
    /\ r \in processes /\ processes' = processes \ {r}
    /\ exited' = (exited \/ Current(r))
    /\ status' = IF Current(r) /\ status \notin {"ready", "error"} THEN "error" ELSE status
    /\ UNCHANGED <<at, owner, startP, podVars, printed, endpoint, readVars>>

(* waitForEndpoint and the end of run(). *)
ReadEndpoint(r) ==
    \/ /\ Current(r) /\ Goes(r, "wait", "won")
       /\ \E q \in printed : endpoint' = q
       /\ status' = "ready"
       /\ UNCHANGED <<owner, startP, podVars, procVars, readVars>>
    \/ GiveUp(r, "wait") /\ UNCHANGED podVars

(* A fetch, the runtime or the wait (an exit, a timeout) fails: run()      *)
(* throws, and start() reports it if the startup is still the current one. *)
Fail(r) ==
    /\ at[r] \in Running /\ (at[r] = "wait" => Current(r) /\ printed = {})
    /\ at' = [at EXCEPT ![r] = "lost"]
    /\ \/ /\ Current(r) /\ status' = "error" /\ startP' = 0
          /\ fetchIs' = IF pod # 0 /\ fetchIs = pod THEN under[pod] ELSE fetchIs
          /\ live' = live \ ({pod} \cup IF at[r] \in Unpublished THEN {r} ELSE {})
          /\ pod' = 0 /\ exited' = FALSE /\ endpoint' = 0 /\ owner' = 0
       \/ /\ ~Current(r) /\ live' = live \ (IF at[r] \in Unpublished THEN {r} ELSE {})
          /\ UNCHANGED <<status, startP, fetchIs, pod, exited, endpoint, owner>>
    /\ UNCHANGED <<under, processes, printed, readVars>>

Startup(r) ==
    \/ Download(r) \/ Boot(r) \/ Restore(r) \/ Publish(r) \/ Spawn(r)
    \/ ReadEndpoint(r) \/ Fail(r)

-----------------------------------------------------------------------------
(* loadGraphOutput(): every caller shares the read in flight or done.      *)
LoadGraphOutput ==
    IF graphP # 0
    THEN UNCHANGED demoVars
    ELSE \E i \in Reads, p \in Runs \cup {Yes} :
            /\ read[i] = "unused" /\ StartGives(p)
            /\ read' = [read EXCEPT ![i] = "starting"] /\ readP' = [readP EXCEPT ![i] = p]
            /\ graphP' = i
            /\ UNCHANGED graph

SameDemo == UNCHANGED <<at, owner, startP, podVars, procVars, endpoint>>

(* The startup a read waits for settles: the request goes out over the     *)
(* bridge of the moment.  A read that was stopped ends.                    *)
ReadStarts(i) ==
    /\ read[i] = "starting" /\ Settled(readP[i])
    /\ LET ok == graphP = i /\ Won(readP[i])
       IN  /\ read' = [read EXCEPT ![i] = IF ok THEN "reading" ELSE "done"]
           /\ readP' = [readP EXCEPT ![i] = IF ok /\ endpoint # 0 THEN fetchIs ELSE 0]
           /\ graphP' = IF graphP = i /\ ~Won(readP[i]) THEN 0 ELSE graphP
    /\ UNCHANGED <<status, graph>> /\ SameDemo

(* Mutant: a read answers whether or not it still speaks for the store.    *)
ReadAnsweredUnchecked(i) ==
    /\ read[i] = "reading" /\ read' = [read EXCEPT ![i] = "done"]
    /\ \/ /\ readP[i] # 0 /\ graph' = readP[i]
          /\ UNCHANGED <<status, graphP>>
       \/ /\ status' = "error" /\ graphP' = 0
          /\ UNCHANGED graph
    /\ UNCHANGED readP /\ SameDemo

(* The graph arrives, or a failure (a deadline passed, a refusal, no        *)
(* endpoint).                                                               *)
ReadAnswered(i) ==
    /\ read[i] = "reading" /\ read' = [read EXCEPT ![i] = "done"]
    /\ \/ /\ graphP # i
          /\ UNCHANGED <<status, graphP, graph>>
       \/ /\ graphP = i /\ readP[i] # 0 /\ graph' = readP[i]
          /\ UNCHANGED <<status, graphP>>
       \/ /\ graphP = i /\ status' = "error" /\ graphP' = 0
          /\ UNCHANGED graph
    /\ UNCHANGED readP /\ SameDemo

DismissError ==
    /\ status = "error" /\ status' = "idle"
    /\ UNCHANGED readVars /\ SameDemo

(* Mutant: stopping leaves what the store shows as it was.                 *)
StopSilent ==
    /\ Interruptible
    /\ DisposePod(0)
    /\ startP' = 0 /\ graphP' = 0 /\ graph' = 0
    /\ UNCHANGED <<at, processes, printed, read, readP, status>>

(* stop(): the read in flight is aborted with the pod it reads from.       *)
Stop ==
    /\ Interruptible
    /\ DisposePod(0)
    /\ startP' = 0 /\ graphP' = 0 /\ graph' = 0 /\ status' = "idle"
    /\ UNCHANGED <<at, processes, printed, read, readP>>

(* Retry and retryExample: stop, then load the graph from nothing.         *)
Retry ==
    /\ Interruptible
    /\ \E r \in Runs, i \in Reads :
         /\ Begin(r)
         /\ read[i] = "unused" /\ read' = [read EXCEPT ![i] = "starting"]
         /\ readP' = [readP EXCEPT ![i] = r] /\ graphP' = i /\ graph' = 0

Demo ==
    \/ \E r \in Runs : Startup(r) \/ LogLine(r) \/ Exit(r)
    \/ \E i \in Reads : ReadStarts(i) \/ ReadAnswered(i)
=============================================================================
