----------------------------- MODULE LayoutFile -----------------------------
(***************************************************************************)
(* The layout routes of HttpOutputAdapter                                  *)
(* (lib/src/adapters/http-output.adapter.ts): saves and loads of one       *)
(* layout, kept in a file (ui.layout.saveAs: 'file') through a chain of    *)
(* writes, or in memory ('runtime'), across failures of the disk and       *)
(* restarts of the process.  A layout is named by the save that sent it.   *)
(***************************************************************************)
EXTENDS Naturals, Sequences

CONSTANTS
    Requests,               \* the requests the layout routes receive
    None,                   \* no promise
    MaxRestarts, MaxEdits   \* bounds of a run

ASSUME LayoutAssumption ==
    /\ None \notin Requests
    /\ Requests \cap {"empty", "broken", "none", "ok", "error", "refused"} = {}
    /\ MaxRestarts \in Nat /\ MaxEdits \in Nat

VARIABLES
    saveAs,     \* the configuration of the process
    pc,         \* where the handler of each request is
    pendingWrite, \* pendingLayoutWrites.get(file): the save whose promise it is
    prev,       \* the promise a queued save is chained to, or a load awaits
    disk,       \* the layout file
    memory,     \* inMemoryLayout
    temps,      \* temporary files on disk, named by the save they belong to
    answer,     \* what each request was answered
    restarts, edits,
    \* history, for the properties
    order,      \* the saves in the order writeLayout was called for them
    ahead,      \* for a load: the saves queued and not settled when it began
    diskFailed  \* the saves for which a file operation failed

store   == <<saveAs, disk, memory, temps>>
history == <<order, ahead, diskFailed>>
vars == <<pc, pendingWrite, prev, store, answer, restarts, edits, history>>

Layouts  == Requests \cup {"empty", "broken"}
Queued   == {"queued", "writing", "temp"}   \* the save's promise is pending
SavePCs  == {"body", "written", "failed"} \cup Queued
Finished == {"idle", "answered", "lost"}

TypeOK ==
    /\ saveAs \in {"file", "runtime"}
    /\ pc \in [Requests -> SavePCs \cup {"awaiting"} \cup Finished]
    /\ pendingWrite \in Requests \cup {None}
    /\ prev \in [Requests -> Requests \cup {None}]
    /\ disk \in Layouts /\ memory \in Requests \cup {"empty"}
    /\ temps \subseteq Requests
    /\ answer \in [Requests -> Layouts \cup {"none", "ok", "error", "refused"}]
    /\ restarts \in 0..MaxRestarts /\ edits \in 0..MaxEdits
    /\ order \in Seq(Requests)
    /\ ahead \in [Requests -> SUBSET Requests]
    /\ diskFailed \subseteq Requests

Init ==
    /\ saveAs \in {"file", "runtime"}
    /\ pc = [q \in Requests |-> "idle"]
    /\ pendingWrite = None
    /\ prev = [q \in Requests |-> None]
    /\ disk = "empty" /\ memory = "empty" /\ temps = {}
    /\ answer = [q \in Requests |-> "none"]
    /\ restarts = 0 /\ edits = 0
    /\ order = <<>> /\ ahead = [q \in Requests |-> {}] /\ diskFailed = {}

Goes(q, from, to) == pc[q] = from /\ pc' = [pc EXCEPT ![q] = to]
Answers(q, a) == answer' = [answer EXCEPT ![q] = a]

(* Mutant: only a write that succeeded lets go of what waits for it.       *)
ReadyIfSucceeded(p) ==
    p # None => pc[p] \notin Queued \cup {"failed"} /\ answer[p] # "error"

(* The promise of a save is settled once its file operations are over.     *)
Ready(p) == p # None => pc[p] \notin Queued

-----------------------------------------------------------------------------
(* POST: the body is read, which takes as long as its sender likes.        *)
BeginSave(q) ==
    /\ Goes(q, "idle", "body")
    /\ UNCHANGED <<pendingWrite, prev, store, answer, restarts, edits, history>>

(* Too large, not JSON, or not a layout: 413 or 400.                       *)
RefuseSave(q) ==
    /\ Goes(q, "body", "answered") /\ Answers(q, "refused")
    /\ UNCHANGED <<pendingWrite, prev, store, restarts, edits, history>>

(* saveLayoutToMemory                                                      *)
SaveToMemory(q) ==
    /\ saveAs = "runtime"
    /\ Goes(q, "body", "answered") /\ Answers(q, "ok")
    /\ memory' = q
    /\ order' = Append(order, q)
    /\ UNCHANGED <<pendingWrite, prev, saveAs, disk, temps, restarts, edits, ahead, diskFailed>>

(* Mutant: the write is chained to nothing.                                *)
QueueSaveUnchained(q) ==
    /\ saveAs = "file"
    /\ Goes(q, "body", "queued")
    /\ prev' = [prev EXCEPT ![q] = None]
    /\ pendingWrite' = q
    /\ order' = Append(order, q)
    /\ UNCHANGED <<store, answer, restarts, edits, ahead, diskFailed>>

(* writeLayout up to its await: the write is chained to the last one.      *)
QueueSave(q) ==
    /\ saveAs = "file"
    /\ Goes(q, "body", "queued")
    /\ prev' = [prev EXCEPT ![q] = pendingWrite]
    /\ pendingWrite' = q
    /\ order' = Append(order, q)
    /\ UNCHANGED <<store, answer, restarts, edits, ahead, diskFailed>>

(* Mutant: without the catch, the failure of the write before is its own.  *)
StartWriteOrFail(q) ==
    /\ Ready(prev[q])
    /\ IF prev[q] # None /\ (pc[prev[q]] = "failed" \/ answer[prev[q]] = "error")
          THEN Goes(q, "queued", "failed")
          ELSE Goes(q, "queued", "writing")
    /\ UNCHANGED <<pendingWrite, prev, store, answer, restarts, edits, history>>

(* The write before it has settled, whichever way: catch(() => undefined). *)
StartWrite(q) ==
    /\ Goes(q, "queued", "writing") /\ Ready(prev[q])
    /\ UNCHANGED <<pendingWrite, prev, store, answer, restarts, edits, history>>

(* mkdir and writeFile to a temporary path of its own.                     *)
WriteTemp(q) ==
    /\ Goes(q, "writing", "temp")
    /\ temps' = temps \cup {q}
    /\ UNCHANGED <<pendingWrite, prev, saveAs, disk, memory, answer, restarts, edits, history>>

(* rename puts the whole file in place at once.                            *)
Rename(q) ==
    /\ Goes(q, "temp", "written")
    /\ disk' = q /\ temps' = temps \ {q}
    /\ UNCHANGED <<pendingWrite, prev, saveAs, memory, answer, restarts, edits, history>>

(* mkdir, writeFile or rename fails: the temporary file is unlinked, which *)
(* may fail too and is ignored.                                            *)
FailWrite(q) ==
    /\ pc[q] \in {"writing", "temp"}
    /\ pc' = [pc EXCEPT ![q] = "failed"]
    /\ temps' \in {temps, temps \ {q}} \cup (IF pc[q] = "writing" THEN {temps \cup {q}} ELSE {})
    /\ diskFailed' = diskFailed \cup {q}
    /\ UNCHANGED <<pendingWrite, prev, saveAs, disk, memory, answer, restarts, edits,
                   order, ahead>>

(* The finally of writeLayout: the entry goes only if it is still q's own. *)
EntryAfter(q) == IF pendingWrite = q THEN None ELSE pendingWrite

(* Mutant: the save is answered before its write.                          *)
ReplyEarly(q) ==
    /\ \/ Goes(q, "temp", "answered") /\ Answers(q, "ok")
       \/ Goes(q, "written", "answered") /\ Answers(q, "ok")
       \/ Goes(q, "failed", "answered")  /\ Answers(q, "error")
    /\ pendingWrite' = EntryAfter(q)
    /\ UNCHANGED <<prev, store, restarts, edits, history>>

(* The write has settled: 200, or 500 with the reason.                     *)
Reply(q) ==
    /\ \/ Goes(q, "written", "answered") /\ Answers(q, "ok")
       \/ Goes(q, "failed", "answered")  /\ Answers(q, "error")
    /\ pendingWrite' = EntryAfter(q)
    /\ UNCHANGED <<prev, store, restarts, edits, history>>

-----------------------------------------------------------------------------
(* GET: takes the promise of the write still running or last queued.       *)
BeginLoad(q) ==
    /\ Goes(q, "idle", "awaiting")
    /\ prev' = [prev EXCEPT ![q] = IF saveAs = "file" THEN pendingWrite ELSE None]
    /\ ahead' = [ahead EXCEPT ![q] = {s \in Requests : pc[s] \in Queued}]
    /\ UNCHANGED <<pendingWrite, store, answer, restarts, edits, order, diskFailed>>

(* Mutant: the load does not wait for the write.                           *)
LoadAtOnce(q) ==
    /\ Goes(q, "awaiting", "answered")
    /\ Answers(q, IF saveAs = "file" THEN disk ELSE memory)
    /\ UNCHANGED <<pendingWrite, prev, store, restarts, edits, history>>

(* Then reads the file, or memory.  A missing file is an empty layout; one *)
(* that is not a layout is answered 500, never empty.                      *)
Load(q) ==
    /\ Goes(q, "awaiting", "answered") /\ Ready(prev[q])
    /\ Answers(q, IF saveAs = "file" THEN disk ELSE memory)
    /\ UNCHANGED <<pendingWrite, prev, store, restarts, edits, history>>

-----------------------------------------------------------------------------
(* Somebody edits the committed file into something that is not a layout.  *)
EditFile ==
    /\ saveAs = "file" /\ edits < MaxEdits
    /\ edits' = edits + 1 /\ disk' = "broken"
    /\ UNCHANGED <<pc, pendingWrite, prev, saveAs, memory, temps, answer, restarts, history>>

(* The process dies between two steps and another takes over: what is on   *)
(* disk stays, temporary files included.                                   *)
Restart ==
    /\ restarts < MaxRestarts /\ restarts' = restarts + 1
    /\ pc' = [q \in Requests |-> IF pc[q] \in Finished THEN pc[q] ELSE "lost"]
    /\ pendingWrite' = None /\ memory' = "empty"
    /\ UNCHANGED <<prev, saveAs, disk, temps, answer, edits, history>>

WriteSteps(q) == StartWrite(q) \/ WriteTemp(q) \/ Rename(q) \/ FailWrite(q) \/ Reply(q)

Next ==
    \/ \E q \in Requests : \/ BeginSave(q) \/ RefuseSave(q) \/ SaveToMemory(q) \/ QueueSave(q)
                           \/ WriteSteps(q) \/ BeginLoad(q) \/ Load(q)
    \/ EditFile \/ Restart

Spec == Init /\ [][Next]_vars

(* The file system answers every operation, and the event loop runs every  *)
(* continuation that is ready.  A request body may never end.              *)
Fairness == \A q \in Requests : WF_vars(WriteSteps(q)) /\ WF_vars(Load(q))
FairSpec == Spec /\ Fairness

-----------------------------------------------------------------------------
(* "Writes to one file run one at a time."                                 *)
OneWriterAtATime ==
    \A p, q \in Requests : {pc[p], pc[q]} \subseteq {"writing", "temp"} => p = q

(* A save answered 200 stays on disk, through failures of later saves and  *)
(* through a restart at any step, until a later save or an editor replaces *)
(* it.                                                                     *)
AcknowledgedSaveStands ==
    saveAs = "file" =>
        \A i \in DOMAIN order :
            answer[order[i]] = "ok" /\ disk # "broken" =>
                \E j \in DOMAIN order : j >= i /\ disk = order[j]

(* Only a save whose own file operations failed is answered 500: a failure *)
(* does not poison the writes chained behind it.                           *)
FailsAlone == \A q \in Requests : answer[q] = "error" => q \in diskFailed

(* The map holds an entry only while the save it belongs to is in flight,  *)
(* so that an idle inspector holds on to no layout.                        *)
NoStaleEntry == pendingWrite # None => pc[pendingWrite] \in Queued \cup {"written", "failed"}

(* A queued save is answered, unless the process dies, and so is a load    *)
(* that waits for it.                                                      *)
RequestsAnswered ==
    \A q \in Requests : pc[q] \in Queued \cup {"awaiting"} ~> pc[q] \in {"answered", "lost"}

(* The routes implement one register.                                      *)
OpOf(q) ==
    CASE pc[q] = "body" -> "saving"
      [] pc[q] \in Queued -> "accepted"
      [] pc[q] = "written" -> "taken"
      [] pc[q] = "awaiting" -> "loading"
      [] pc[q] = "answered" -> "done"
      [] OTHER -> pc[q]

Register == INSTANCE LayoutRegister WITH
    reg <- IF saveAs = "file" THEN disk ELSE memory,
    op  <- [q \in Requests |-> OpOf(q)]

ImplementsRegister == Register!Spec
=============================================================================
