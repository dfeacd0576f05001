-------------------------- MODULE LayoutFileProofs --------------------------
(* The safety properties of LayoutFile, for every set of requests and any  *)
(* number of restarts and edits; and that it implements LayoutRegister.    *)
EXTENDS LayoutFile, TLAPS

InQueue(q) == pc[q] \in Queued

(* The saves writeLayout was called for: each once, and no longer at its   *)
(* body; every save whose promise is pending is one of them.               *)
OrderInv ==
    /\ \A i, j \in 1..Len(order) : order[i] = order[j] => i = j
    /\ \A i \in 1..Len(order) : pc[order[i]] \notin {"idle", "body", "awaiting"}
    /\ \A q \in Requests : pc[q] \in Queued \cup {"written", "failed"} =>
          /\ \E i \in 1..Len(order) : order[i] = q
          /\ saveAs = "file"

(* The chain: while a save is pending, none after it has begun, and each   *)
(* save still queued waits for the one just before it, or for nobody.      *)
ChainInv ==
    /\ \A i, j \in 1..Len(order) : i < j /\ InQueue(order[i]) => pc[order[j]] = "queued"
    /\ \A j \in 1..Len(order) : pc[order[j]] = "queued" =>
          \/ j > 1 /\ prev[order[j]] = order[j - 1]
          \/ \A i \in 1..(j - 1) : ~InQueue(order[i])

(* The map holds the last save of the chain while any save is pending.     *)
EntryInv ==
    /\ (\E q \in Requests : InQueue(q)) => pendingWrite = order[Len(order)]
    /\ pendingWrite # None => Len(order) > 0 /\ pendingWrite = order[Len(order)]
    /\ NoStaleEntry

(* Failures are the disk's, and successes are on it.                       *)
FailureInv ==
    \A q \in Requests : pc[q] = "failed" \/ answer[q] = "error" => q \in diskFailed

Done(q) == pc[q] = "written" \/ answer[q] = "ok"

DiskInv ==
    saveAs = "file" /\ disk # "broken" =>
        \A i \in 1..Len(order) : Done(order[i]) =>
            \E j \in 1..Len(order) : j >= i /\ disk = order[j]

(* A save that is done had its turn, and one at its body has no answer.    *)
AnswerInv == \A q \in Requests : answer[q] # "none" => pc[q] = "answered"

Inv == TypeOK /\ OrderInv /\ ChainInv /\ EntryInv /\ FailureInv /\ AnswerInv /\ DiskInv

USE LayoutAssumption

LEMMA InitInv == Init => Inv
BY SMT DEF Init, Inv, TypeOK, OrderInv, ChainInv, EntryInv, FailureInv, AnswerInv, DiskInv, Done,
       InQueue, Queued, SavePCs, Finished, Layouts, NoStaleEntry

(* The promise of no save but the first pending one is released.           *)
LEMMA OnlyFirstReady ==
    ASSUME Inv, NEW q \in Requests, pc[q] = "queued", Ready(prev[q]),
           NEW p \in Requests, InQueue(p), p # q
    PROVE  /\ pc[p] = "queued"
           /\ \E i, j \in 1..Len(order) : order[i] = q /\ order[j] = p /\ i < j
<1>1. PICK i \in 1..Len(order) : order[i] = q
    BY DEF Inv, OrderInv, Queued
<1>2. PICK j \in 1..Len(order) : order[j] = p
    BY DEF Inv, OrderInv, InQueue, Queued
<1>3. order \in Seq(Requests) /\ None \notin Requests
    BY DEF Inv, TypeOK
<1>4. CASE j < i
    <2>1. \/ i > 1 /\ prev[q] = order[i - 1]
          \/ ~InQueue(order[j])
        BY <1>1, <1>2, <1>4, SMT DEF Inv, ChainInv
    <2>2. i > 1 /\ prev[q] = order[i - 1] /\ i - 1 \in 1..Len(order)
        BY <2>1, <1>2, <1>1, SMT
    <2>3. order[i - 1] \in Requests
        BY <2>2, <1>3, SMT
    <2>4. ~InQueue(order[i - 1])
        BY <2>2, <2>3, <1>3 DEF Ready, InQueue
    <2>5. CASE j = i - 1
        BY <2>4, <2>5, <1>2
    <2>6. CASE j < i - 1
        <3>1. pc[order[i - 1]] = "queued"
            BY <2>6, <2>2, <1>2, SMT DEF Inv, ChainInv
        <3> QED BY <3>1, <2>4 DEF InQueue, Queued
    <2> QED BY <2>5, <2>6, <1>4, SMT
<1>5. CASE i < j
    <2>1. InQueue(order[i])
        BY <1>1 DEF InQueue, Queued
    <2> QED BY <2>1, <1>1, <1>2, <1>5, SMT DEF Inv, ChainInv
<1> QED BY <1>1, <1>2, <1>4, <1>5, SMT

(* A pending save is behind no save of the chain but pending ones.         *)
LEMMA BehindPending ==
    ASSUME Inv, NEW i \in 1..Len(order), InQueue(order[i]),
           NEW j \in 1..Len(order), i < j
    PROVE  pc[order[j]] = "queued" /\ answer[order[j]] = "none"
<1>1. pc[order[j]] = "queued"
    BY SMT DEF Inv, ChainInv
<1>2. order[j] \in Requests
    BY DEF Inv, TypeOK
<1> QED BY <1>1, <1>2 DEF Inv, AnswerInv

(* Steps outside the chain: a request that is not a pending save moves     *)
(* between positions that are not one either.                              *)
LEMMA OutsideChain ==
    ASSUME Inv, NEW q \in Requests,
           BeginSave(q) \/ RefuseSave(q) \/ BeginLoad(q) \/ Load(q)
    PROVE  Inv'
<1> USE DEF Inv, store, history
<1>1. /\ pc[q] \in {"idle", "body", "awaiting"}
      /\ pc' = [pc EXCEPT ![q] = pc'[q]] /\ pc'[q] \in {"body", "awaiting", "answered"}
      /\ UNCHANGED <<pendingWrite, disk, memory, saveAs, temps, restarts, edits, order, diskFailed>>
    BY SMT DEF BeginSave, RefuseSave, BeginLoad, Load, Goes, TypeOK
<1>2. \A i \in 1..Len(order) : order[i] # q /\ order[i] \in Requests
    BY <1>1, SMT DEF OrderInv, TypeOK
<1>3. TypeOK'
    BY SMT DEF BeginSave, RefuseSave, BeginLoad, Load, Goes, Answers, TypeOK, Queued, SavePCs,
               Finished, Layouts
<1>4. \A p \in Requests : p # q => pc'[p] = pc[p] /\ prev'[p] = prev[p] /\ answer'[p] = answer[p]
    BY SMT DEF BeginSave, RefuseSave, BeginLoad, Load, Goes, Answers, TypeOK
<1>5. OrderInv'
    BY <1>1, <1>2, <1>4, SMT DEF OrderInv, Queued, TypeOK
<1>6. ChainInv'
    <2>1. \A i \in 1..Len(order) : pc'[order[i]] = pc[order[i]] /\ prev'[order[i]] = prev[order[i]]
        BY <1>2, <1>4
    <2> QED BY <1>1, <2>1 DEF ChainInv, InQueue
<1>7. EntryInv'
    BY <1>1, <1>2, <1>3, <1>4, SMT DEF EntryInv, NoStaleEntry, InQueue, Queued, TypeOK
<1>8. /\ answer'[q] # "none" => pc'[q] = "answered"
      /\ answer'[q] # "error"
      /\ pc'[q] # "failed"
    BY <1>1, SMT DEF BeginSave, RefuseSave, BeginLoad, Load, Goes, Answers, TypeOK, AnswerInv, Layouts
<1>9. FailureInv' /\ AnswerInv'
    BY <1>1, <1>4, <1>8, SMT DEF FailureInv, AnswerInv
<1>10. DiskInv'
    BY <1>1, <1>2, <1>4, SMT DEF DiskInv, Done
<1> QED BY <1>3, <1>5, <1>6, <1>7, <1>9, <1>10

(* A save enters the order at its end, as the only one of its name.        *)
LEMMA AppendOrder ==
    ASSUME TypeOK, OrderInv, NEW q \in Requests, pc[q] = "body", order' = Append(order, q)
    PROVE  /\ order' \in Seq(Requests)
           /\ Len(order') = Len(order) + 1 /\ Len(order) \in Nat
           /\ order'[Len(order) + 1] = q
           /\ \A i \in 1..Len(order) :
                 order'[i] = order[i] /\ order[i] # q /\ order[i] \in Requests
BY SMT DEF TypeOK, OrderInv

(* In memory, no save is ever pending.                                     *)
LEMMA SaveToMemoryInv ==
    ASSUME Inv, NEW q \in Requests, SaveToMemory(q)
    PROVE  Inv'
<1> USE DEF Inv, SaveToMemory, Goes, Answers
<1>1. /\ order' \in Seq(Requests)
      /\ Len(order') = Len(order) + 1 /\ Len(order) \in Nat
      /\ order'[Len(order) + 1] = q
      /\ \A i \in 1..Len(order) : order'[i] = order[i] /\ order[i] # q /\ order[i] \in Requests
    BY AppendOrder
<1>2. TypeOK'
    BY <1>1, SMT DEF TypeOK, Queued, SavePCs, Finished, Layouts
<1>3. \A p \in Requests : /\ pc[p] \notin Queued \cup {"written", "failed"}
                          /\ pc'[p] \notin Queued \cup {"written", "failed"}
    BY SMT DEF OrderInv, TypeOK, Queued
<1>4. \A i \in 1..Len(order') : order'[i] \in Requests
    BY <1>1
<1>5. OrderInv'
    BY <1>1, <1>3, SMT DEF OrderInv, TypeOK
<1>6. ChainInv'
    BY <1>3, <1>4 DEF ChainInv, InQueue, Queued
<1>7. pendingWrite = None
    BY <1>3 DEF EntryInv, NoStaleEntry, TypeOK
<1>8. EntryInv'
    BY <1>3, <1>7 DEF EntryInv, NoStaleEntry, InQueue
<1>9. FailureInv' /\ AnswerInv'
    BY SMT DEF FailureInv, AnswerInv, TypeOK
<1>10. DiskInv'
    BY DEF DiskInv
<1> QED BY <1>2, <1>5, <1>6, <1>8, <1>9, <1>10

LEMMA QueueSaveInv ==
    ASSUME Inv, NEW q \in Requests, QueueSave(q)
    PROVE  Inv'
<1> USE DEF Inv, QueueSave, Goes, store
<1>1. /\ order' \in Seq(Requests)
      /\ Len(order') = Len(order) + 1 /\ Len(order) \in Nat
      /\ order'[Len(order) + 1] = q
      /\ \A i \in 1..Len(order) : order'[i] = order[i] /\ order[i] # q /\ order[i] \in Requests
    BY AppendOrder
<1>2. TypeOK'
    BY <1>1, SMT DEF TypeOK, Queued, SavePCs, Finished
<1>3. /\ pc'[q] = "queued" /\ prev'[q] = pendingWrite /\ pc[q] = "body"
      /\ \A p \in Requests : p # q => pc'[p] = pc[p] /\ prev'[p] = prev[p]
      /\ saveAs' = "file" /\ pendingWrite' = q /\ UNCHANGED <<answer, disk, diskFailed>>
    BY SMT DEF TypeOK
<1>4. OrderInv'
    <2>1. \A i, j \in 1..Len(order') : order'[i] = order'[j] => i = j
        BY <1>1, SMT DEF OrderInv
    <2>2. \A i \in 1..Len(order') : pc'[order'[i]] \notin {"idle", "body", "awaiting"}
        BY <1>1, <1>3, SMT DEF OrderInv
    <2>3. \A p \in Requests : pc'[p] \in Queued \cup {"written", "failed"} =>
             /\ \E i \in 1..Len(order') : order'[i] = p
             /\ saveAs' = "file"
        BY <1>1, <1>3, SMT DEF OrderInv
    <2> QED BY <2>1, <2>2, <2>3 DEF OrderInv
<1>5. ASSUME NEW i \in 1..Len(order), InQueue(order[i])
      PROVE  pendingWrite = order[Len(order)] /\ Len(order) > 0
    BY <1>1, <1>5, SMT DEF EntryInv
<1>6. ChainInv'
    <2>1. ASSUME NEW i \in 1..Len(order'), NEW j \in 1..Len(order'), i < j, InQueue(order[i])' 
          PROVE  pc'[order'[j]] = "queued"
        <3>1. i \in 1..Len(order) /\ InQueue(order[i])
            BY <1>1, <1>3, <2>1, SMT DEF InQueue
        <3>2. CASE j \in 1..Len(order)
            BY <1>1, <1>3, <2>1, <3>1, <3>2, SMT DEF ChainInv
        <3>3. CASE j = Len(order) + 1
            BY <1>1, <1>3, <3>3, SMT
        <3> QED BY <1>1, <3>2, <3>3, SMT
    <2>2. ASSUME NEW j \in 1..Len(order'), pc'[order'[j]] = "queued"
          PROVE  \/ j > 1 /\ prev'[order'[j]] = order'[j - 1]
                 \/ \A i \in 1..(j - 1) : ~InQueue(order[i])'
        <3>1. CASE j \in 1..Len(order)
            <4>1. pc[order[j]] = "queued"
                BY <1>1, <1>3, <2>2, <3>1, SMT
            <4>2. CASE j > 1 /\ prev[order[j]] = order[j - 1]
                BY <1>1, <1>3, <3>1, <4>2, SMT
            <4>3. CASE \A i \in 1..(j - 1) : ~InQueue(order[i])
                BY <1>1, <1>3, <3>1, <4>3, SMT DEF InQueue
            <4> QED BY <3>1, <4>1, <4>2, <4>3 DEF ChainInv
        <3>2. CASE j = Len(order) + 1
            <4>1. CASE \E i \in 1..Len(order) : InQueue(order[i])
                BY <1>1, <1>3, <1>5, <3>2, <4>1, SMT
            <4>2. CASE \A i \in 1..Len(order) : ~InQueue(order[i])
                BY <1>1, <1>3, <3>2, <4>2, SMT DEF InQueue
            <4> QED BY <4>1, <4>2
        <3> QED BY <1>1, <3>1, <3>2, SMT
    <2> QED BY <2>1, <2>2 DEF ChainInv
<1>7. EntryInv'
    BY <1>1, <1>3, SMT DEF EntryInv, NoStaleEntry, Queued
<1>8. FailureInv' /\ AnswerInv'
    BY <1>3, SMT DEF FailureInv, AnswerInv
<1>9. DiskInv'
    <2> SUFFICES ASSUME disk # "broken", NEW i \in 1..Len(order'), Done(order[i])'
                 PROVE  \E j \in 1..Len(order') : j >= i /\ disk = order'[j]
        BY <1>3 DEF DiskInv
    <2>1. i \in 1..Len(order) /\ Done(order[i])
        BY <1>1, <1>3, SMT DEF Done, AnswerInv
    <2>2. PICK j \in 1..Len(order) : j >= i /\ disk = order[j]
        BY <2>1, <1>3 DEF DiskInv
    <2> QED BY <1>1, <2>1, <2>2, SMT
<1> QED BY <1>2, <1>4, <1>6, <1>7, <1>8, <1>9

(* A step of one save leaves the chain in order: it begins when its turn   *)
(* has come, it goes on, or it is over.                                    *)
LEMMA ChainStep ==
    ASSUME Inv, NEW q \in Requests, NEW to, pc' = [pc EXCEPT ![q] = to],
           UNCHANGED <<order, prev, saveAs>>,
           \/ pc[q] = "queued" /\ to = "writing" /\ Ready(prev[q])
           \/ pc[q] = "writing" /\ to = "temp"
           \/ pc[q] \in {"writing", "temp", "written", "failed"}
              /\ to \in {"written", "failed", "answered"}
    PROVE  OrderInv' /\ ChainInv'
<1> USE DEF Inv
<1>1. /\ pc'[q] = to
      /\ \A p \in Requests : p # q => pc'[p] = pc[p]
      /\ \A i \in 1..Len(order) : order[i] \in Requests
      /\ Len(order) \in Nat
    BY SMT DEF TypeOK
<1>2. \A p \in Requests : InQueue(p)' => InQueue(p)
    BY <1>1, SMT DEF InQueue, Queued
<1>3. OrderInv'
    BY <1>1, SMT DEF OrderInv, Queued
<1>4. ASSUME NEW i \in 1..Len(order), NEW j \in 1..Len(order), i < j, InQueue(order[i])'
      PROVE  pc'[order[j]] = "queued"
    <2>1. InQueue(order[i]) /\ pc[order[j]] = "queued"
        BY <1>1, <1>2, <1>4, SMT DEF ChainInv
    <2>2. CASE order[j] # q
        BY <1>1, <2>1, <2>2
    <2>3. CASE order[j] = q
        <3>1. order[i] # q /\ Ready(prev[q])
            BY <2>1, <2>3, <1>4, SMT DEF OrderInv
        <3>2. \E a, b \in 1..Len(order) : order[a] = q /\ order[b] = order[i] /\ a < b
            BY <1>1, <2>1, <2>3, <3>1, OnlyFirstReady
        <3> QED BY <3>2, <2>3, <1>1, <1>4, SMT DEF OrderInv
    <2> QED BY <2>2, <2>3
<1>5. ASSUME NEW j \in 1..Len(order), pc'[order[j]] = "queued"
      PROVE  \/ j > 1 /\ prev[order[j]] = order[j - 1]
             \/ \A i \in 1..(j - 1) : ~InQueue(order[i])'
    <2>1. pc[order[j]] = "queued"
        BY <1>1, <1>5, SMT
    <2>2. \A i \in 1..(j - 1) : i \in 1..Len(order)
        BY <1>1, SMT
    <2>3. \/ j > 1 /\ prev[order[j]] = order[j - 1]
          \/ \A i \in 1..(j - 1) : ~InQueue(order[i])
        BY <2>1 DEF ChainInv
    <2> QED BY <1>1, <1>2, <2>2, <2>3 DEF InQueue
<1> QED BY <1>3, <1>4, <1>5 DEF ChainInv, InQueue

(* The steps of the write itself, up to the point where it has settled.    *)
LEMMA WriteInv ==
    ASSUME Inv, NEW q \in Requests, StartWrite(q) \/ WriteTemp(q) \/ Rename(q) \/ FailWrite(q)
    PROVE  Inv'
<1> USE DEF Inv, store, history
<1>1. PICK to \in {"writing", "temp", "written", "failed"} :
        /\ pc' = [pc EXCEPT ![q] = to]
        /\ \/ pc[q] = "queued" /\ to = "writing" /\ Ready(prev[q])
           \/ pc[q] = "writing" /\ to = "temp"
           \/ pc[q] = "temp" /\ to = "written" /\ disk' = q
           \/ pc[q] \in {"writing", "temp"} /\ to = "failed" /\ q \in diskFailed'
        /\ to # "written" => disk' = disk
        /\ diskFailed \subseteq diskFailed'
        /\ UNCHANGED <<pendingWrite, prev, answer, order, saveAs>>
    BY SMT DEF StartWrite, WriteTemp, Rename, FailWrite, Goes
<1>2. TypeOK'
    <2>1. CASE StartWrite(q) \/ WriteTemp(q) \/ Rename(q)
        BY <2>1, SMT DEF StartWrite, WriteTemp, Rename, Goes, TypeOK, Queued, SavePCs, Layouts
    <2>2. CASE FailWrite(q)
        BY <2>2, SMT DEF FailWrite, TypeOK, SavePCs
    <2> QED BY <2>1, <2>2
<1>3. OrderInv' /\ ChainInv'
    BY <1>1, ChainStep
<1>4. /\ pc'[q] = to /\ InQueue(q)
      /\ \A p \in Requests : p # q => pc'[p] = pc[p]
    BY <1>1, SMT DEF TypeOK, InQueue, Queued
<1>5. EntryInv'
    BY <1>1, <1>2, <1>4, SMT DEF EntryInv, NoStaleEntry, InQueue, Queued, TypeOK
<1>6. FailureInv' /\ AnswerInv'
    BY <1>1, <1>4, SMT DEF FailureInv, AnswerInv, InQueue, Queued
<1>7. DiskInv'
    <2>1. CASE to = "written"
        <3>1. PICK k \in 1..Len(order) : order[k] = q
            BY <1>4 DEF OrderInv, InQueue
        <3>2. ASSUME NEW i \in 1..Len(order), k < i
              PROVE  ~Done(order[i])'
            <4>1. pc[order[i]] = "queued" /\ answer[order[i]] = "none" /\ order[i] \in Requests
                BY <1>4, <3>1, <3>2, BehindPending DEF TypeOK
            <4>2. order[i] # q
                BY <3>1, <3>2, SMT DEF OrderInv
            <4> QED BY <1>1, <1>4, <4>1, <4>2 DEF Done
        <3>3. \A i \in 1..Len(order) : Done(order[i])' => i <= k
            BY <3>2, SMT
        <3> QED BY <1>1, <2>1, <3>1, <3>3, SMT DEF DiskInv, Done
    <2>2. CASE to # "written"
        <3>1. \A i \in 1..Len(order) : Done(order[i])' => Done(order[i])
            <4>1. \A i \in 1..Len(order) : order[i] \in Requests
                BY DEF TypeOK
            <4> QED BY <1>1, <1>4, <2>2, <4>1 DEF Done
        <3> QED BY <1>1, <2>2, <3>1, SMT DEF DiskInv, Done
    <2> QED BY <2>1, <2>2
<1> QED BY <1>2, <1>3, <1>5, <1>6, <1>7

(* The last save that replies leaves no entry; an earlier one leaves the   *)
(* entry of the save queued behind it.                                     *)
LEMMA ReplyInv ==
    ASSUME Inv, NEW q \in Requests, Reply(q)
    PROVE  Inv'
<1> USE DEF Inv, store, history
<1>1. /\ pc' = [pc EXCEPT ![q] = "answered"]
      /\ \/ pc[q] = "written" /\ answer' = [answer EXCEPT ![q] = "ok"]
         \/ pc[q] = "failed" /\ answer' = [answer EXCEPT ![q] = "error"]
      /\ pendingWrite' = EntryAfter(q)
      /\ UNCHANGED <<prev, disk, memory, saveAs, temps, restarts, edits, order, ahead, diskFailed>>
    BY SMT DEF Reply, Goes, Answers
<1>2. TypeOK'
    BY <1>1, SMT DEF EntryAfter, TypeOK, Finished
<1>3. OrderInv' /\ ChainInv'
    BY <1>1, ChainStep
<1>4. /\ pc'[q] = "answered" /\ pc[q] \in {"written", "failed"}
      /\ answer'[q] = IF pc[q] = "written" THEN "ok" ELSE "error"
      /\ \A p \in Requests : p # q => pc'[p] = pc[p] /\ answer'[p] = answer[p]
    BY <1>1, SMT DEF TypeOK
<1>5. EntryInv'
    <2>1. CASE pendingWrite = q
        <3>1. PICK k \in 1..Len(order) : order[k] = q /\ k = Len(order) /\ Len(order) \in Nat
            BY <2>1, SMT DEF EntryInv, TypeOK
        <3>2. ASSUME NEW p \in Requests, InQueue(p)
              PROVE  FALSE
            <4>1. PICK i \in 1..Len(order) : order[i] = p
                BY <3>2 DEF OrderInv, InQueue
            <4>2. p # q
                BY <3>2, <1>4, SMT DEF InQueue, Queued
            <4>3. i < k
                BY <3>1, <4>1, <4>2, SMT
            <4>4. pc[order[k]] = "queued"
                BY <3>1, <3>2, <4>1, <4>3 DEF ChainInv
            <4> QED BY <1>4, <3>1, <4>4
        <3>3. pendingWrite' = None
            BY <1>1, <2>1 DEF EntryAfter
        <3>4. \A p \in Requests : ~InQueue(p)'
            BY <1>4, <3>2, SMT DEF InQueue, Queued
        <3> QED BY <3>3, <3>4 DEF EntryInv, NoStaleEntry
    <2>2. CASE pendingWrite # q
        <3>1. pendingWrite' = pendingWrite
            BY <1>1, <2>2 DEF EntryAfter
        <3>2. \A p \in Requests : InQueue(p)' => InQueue(p)
            BY <1>4, SMT DEF InQueue, Queued
        <3> QED BY <1>1, <1>4, <2>2, <3>1, <3>2, SMT DEF EntryInv, NoStaleEntry, TypeOK
    <2> QED BY <2>1, <2>2
<1>6. FailureInv' /\ AnswerInv'
    BY <1>1, <1>4, SMT DEF FailureInv, AnswerInv
<1>7. \A p \in Requests : Done(p)' => Done(p)
    BY <1>4, SMT DEF Done
<1>8. DiskInv'
    <2>1. \A i \in 1..Len(order) : Done(order[i])' => Done(order[i])
        <3>1. \A i \in 1..Len(order) : order[i] \in Requests
            BY DEF TypeOK
        <3> QED BY <1>1, <1>7, <3>1 DEF Done
    <2> QED BY <1>1, <2>1 DEF DiskInv, Done
<1> QED BY <1>2, <1>3, <1>5, <1>6, <1>8

LEMMA EditFileInv == Inv /\ EditFile => Inv'
BY SMT DEF Inv, EditFile, history, TypeOK, Layouts, OrderInv, ChainInv, EntryInv, NoStaleEntry,
           FailureInv, AnswerInv, DiskInv, Done, InQueue

(* A restart forgets the chain and leaves the disk as it is.               *)
LEMMA RestartInv == Inv /\ Restart => Inv'
<1> SUFFICES ASSUME Inv, Restart PROVE Inv'
    OBVIOUS
<1> USE DEF Inv, Restart, history
<1>1. TypeOK'
    BY SMT DEF TypeOK, Finished
<1>2. \A p \in Requests :
        /\ pc'[p] \in {"idle", "answered", "lost"}
        /\ pc'[p] = "idle" => pc[p] = "idle"
        /\ pc[p] = "answered" => pc'[p] = "answered"
    BY SMT DEF Finished
<1>3. \A i \in 1..Len(order) : order[i] \in Requests
    BY DEF TypeOK
<1>4. OrderInv'
    BY <1>2, <1>3, SMT DEF OrderInv, Queued
<1>5. ChainInv' /\ EntryInv'
    BY <1>2, <1>3, SMT DEF ChainInv, EntryInv, NoStaleEntry, InQueue, Queued
<1>6. FailureInv' /\ AnswerInv'
    BY <1>2, SMT DEF FailureInv, AnswerInv
<1>7. \A i \in 1..Len(order) : Done(order[i])' => Done(order[i])
    BY <1>2, <1>3, SMT DEF Done
<1>8. DiskInv'
    BY <1>7 DEF DiskInv, Done
<1> QED BY <1>1, <1>4, <1>5, <1>6, <1>8

LEMMA StutterInv == Inv /\ UNCHANGED vars => Inv'
BY DEF Inv, vars, store, history, TypeOK, OrderInv, ChainInv, EntryInv, NoStaleEntry,
       FailureInv, AnswerInv, DiskInv, Done, InQueue

LEMMA NextInv == Inv /\ [Next]_vars => Inv'
<1> SUFFICES ASSUME Inv, [Next]_vars PROVE Inv'
    OBVIOUS
<1>1. ASSUME NEW q \in Requests, BeginSave(q) \/ RefuseSave(q) \/ BeginLoad(q) \/ Load(q)
      PROVE  Inv'
    BY <1>1, OutsideChain
<1>2. ASSUME NEW q \in Requests, SaveToMemory(q) \/ QueueSave(q)
      PROVE  Inv'
    BY <1>2, SaveToMemoryInv, QueueSaveInv
<1>3. ASSUME NEW q \in Requests, WriteSteps(q)
      PROVE  Inv'
    BY <1>3, WriteInv, ReplyInv DEF WriteSteps
<1>4. CASE EditFile \/ Restart
    BY <1>4, EditFileInv, RestartInv
<1>5. CASE UNCHANGED vars
    BY <1>5, StutterInv
<1> QED BY <1>1, <1>2, <1>3, <1>4, <1>5 DEF Next

(* The chain stays in order: OrderInv, ChainInv, EntryInv, FailureInv,     *)
(* AnswerInv and DiskInv hold at every step, however saves, loads, disk    *)
(* failures, edits and restarts interleave (writeLayout, lines 370-407).   *)
THEOREM Invariance == Spec => []Inv
<1> QED BY InitInv, NextInv, PTL DEF Spec

(* The handlers keep their state well formed: the map entry is a save, the *)
(* file is a save's document, empty, or an editor's work.                  *)
THEOREM TypesHold == Spec => []TypeOK
<1>1. Inv => TypeOK
    BY DEF Inv
<1> QED BY <1>1, Invariance, PTL

(* "Writes to one file run one at a time" (line 371): no two saves are     *)
(* between the first file operation and the rename.                        *)
THEOREM WritersTakeTurns == Spec => []OneWriterAtATime
<1>1. Inv => OneWriterAtATime
    <2> SUFFICES ASSUME Inv, NEW p \in Requests, NEW q \in Requests,
                        pc[p] \in {"writing", "temp"}, pc[q] \in {"writing", "temp"}
                 PROVE  p = q
        BY DEF OneWriterAtATime
    <2>1. InQueue(p) /\ InQueue(q) /\ pc[p] # "queued" /\ pc[q] # "queued"
        BY DEF InQueue, Queued
    <2>2. PICK i \in 1..Len(order) : order[i] = p
        BY <2>1 DEF Inv, OrderInv, InQueue
    <2>3. PICK j \in 1..Len(order) : order[j] = q
        BY <2>1 DEF Inv, OrderInv, InQueue
    <2>4. ~(i < j) /\ ~(j < i)
        BY <2>1, <2>2, <2>3 DEF Inv, ChainInv
    <2> QED BY <2>2, <2>3, <2>4, SMT
<1> QED BY <1>1, Invariance, PTL

(* A save answered 200 stays on disk until a later save or an editor       *)
(* replaces it, whatever fails and whenever the process restarts.          *)
THEOREM AcknowledgedSavesStand == Spec => []AcknowledgedSaveStands
<1>1. Inv => AcknowledgedSaveStands
    <2>1. TypeOK => DOMAIN order = 1..Len(order)
        BY DEF TypeOK
    <2> QED BY <2>1 DEF Inv, DiskInv, Done, AcknowledgedSaveStands
<1> QED BY <1>1, Invariance, PTL

(* A failed write is answered 500 to its own sender only: it does not      *)
(* poison the writes chained behind it (the catch at lines 380-382).       *)
THEOREM FailuresStayAlone == Spec => []FailsAlone
<1>1. Inv => FailsAlone
    BY DEF Inv, FailureInv, FailsAlone
<1> QED BY <1>1, Invariance, PTL

(* The map of pending writes holds no entry of a save that was answered or *)
(* lost (the finally at lines 399-405).                                    *)
THEOREM EntriesAreLive == Spec => []NoStaleEntry
<1>1. Inv => NoStaleEntry
    BY DEF Inv, EntryInv
<1> QED BY <1>1, Invariance, PTL

-----------------------------------------------------------------------------
(* The refinement: every step of LayoutFile is a step of LayoutRegister, or *)
(* invisible to it.                                                         *)

(* What a load waits for comes, in the chain, after every save it has to   *)
(* wait for.                                                               *)
LoadInv ==
    \A q \in Requests : pc[q] = "awaiting" =>
        \A s \in ahead[q] :
            \E i, k \in 1..Len(order) : i <= k /\ order[i] = s /\ order[k] = prev[q]

(* The register's view of the requests.                                    *)
Op == [q \in Requests |-> OpOf(q)]

-----------------------------------------------------------------------------
LEMMA LoadInvInit == Init => LoadInv
BY DEF Init, LoadInv

(* A load that begins takes the last promise of the chain.                 *)
LEMMA BeginLoadStep ==
    ASSUME Inv, LoadInv, NEW q \in Requests, BeginLoad(q)
    PROVE  LoadInv'
<1> USE DEF Inv
<1>1. /\ \A p \in Requests : p # q => pc'[p] = pc[p] /\ prev'[p] = prev[p] /\ ahead'[p] = ahead[p]
      /\ ahead'[q] = {s \in Requests : pc[s] \in Queued}
      /\ prev'[q] = IF saveAs = "file" THEN pendingWrite ELSE None
      /\ order' = order /\ Len(order) \in Nat
    BY SMT DEF BeginLoad, Goes, TypeOK
<1>2. ASSUME NEW s \in Requests, InQueue(s)
      PROVE  \E i, k \in 1..Len(order) : i <= k /\ order[i] = s /\ order[k] = prev'[q]
    <2>1. PICK i \in 1..Len(order) : order[i] = s
        BY <1>2 DEF OrderInv, InQueue
    <2>2. prev'[q] = order[Len(order)]
        BY <1>1, <1>2 DEF EntryInv, OrderInv, InQueue
    <2> QED BY <1>1, <2>1, <2>2, SMT
<1>3. \A s \in ahead'[q] :
        \E i, k \in 1..Len(order) : i <= k /\ order[i] = s /\ order[k] = prev'[q]
    BY <1>1, <1>2 DEF InQueue
<1> QED BY <1>1, <1>3, SMT DEF LoadInv

LEMMA LoadInvStep == Inv /\ LoadInv /\ [Next]_vars => LoadInv'
<1> SUFFICES ASSUME Inv, LoadInv, [Next]_vars PROVE LoadInv'
    OBVIOUS
<1> USE DEF Inv, store, history
<1>1. ASSUME NEW q \in Requests, BeginSave(q) \/ RefuseSave(q) \/ Load(q) \/ WriteSteps(q)
      PROVE  LoadInv'
    BY <1>1, SMT DEF BeginSave, RefuseSave, Load, WriteSteps, StartWrite, WriteTemp, Rename,
                     FailWrite, Reply, Goes, TypeOK, LoadInv
<1>2. ASSUME NEW q \in Requests, SaveToMemory(q) \/ QueueSave(q)
      PROVE  LoadInv'
    <2>1. pc[q] = "body" /\ order' = Append(order, q) /\ ahead' = ahead
        BY <1>2 DEF SaveToMemory, QueueSave, Goes
    <2>2. /\ Len(order') = Len(order) + 1 /\ Len(order) \in Nat
          /\ \A i \in 1..Len(order) : order'[i] = order[i]
        BY <2>1, AppendOrder
    <2>3. \A p \in Requests : pc'[p] = "awaiting" => pc[p] = "awaiting" /\ prev'[p] = prev[p]
        BY <1>2, SMT DEF SaveToMemory, QueueSave, Goes, TypeOK
    <2> QED BY <2>1, <2>2, <2>3, SMT DEF LoadInv
<1>3. ASSUME NEW q \in Requests, BeginLoad(q)
      PROVE  LoadInv'
    BY <1>3, BeginLoadStep
<1>4. CASE EditFile \/ Restart
    BY <1>4, SMT DEF EditFile, Restart, Finished, LoadInv
<1>5. CASE UNCHANGED vars
    BY <1>5 DEF vars, LoadInv
<1> QED BY <1>1, <1>2, <1>3, <1>4, <1>5 DEF Next

-----------------------------------------------------------------------------
(* A save is undecided, for the register, while its promise is pending.    *)
LEMMA AcceptedIsPending ==
    ASSUME TypeOK, NEW q \in Requests
    PROVE  Op[q] = "accepted" <=> InQueue(q)
BY DEF Op, OpOf, InQueue, Queued, TypeOK, SavePCs, Finished

LEMMA OpMoves ==
    ASSUME TypeOK, NEW q \in Requests, NEW to, pc' = [pc EXCEPT ![q] = to]
    PROVE  Op' = [Op EXCEPT ![q] = OpOf(q)'] /\ pc'[q] = to
<1>1. pc'[q] = to /\ \A p \in Requests : p # q => pc'[p] = pc[p]
    BY DEF TypeOK
<1>2. \A p \in Requests : p # q => OpOf(p)' = OpOf(p)
    BY <1>1 DEF OpOf
<1> QED BY <1>1, <1>2 DEF Op

(* The initial states are one of the register's.                           *)
LEMMA RefinesInit == Init => Register!Init
BY SMT DEF Init, Register!Init, OpOf, Queued

LEMMA RegisterMoves ==
    ASSUME TypeOK, NEW q \in Requests, NEW to, pc' = [pc EXCEPT ![q] = to],
           NEW a, NEW b, OpOf(q) = a, OpOf(q)' = b
    PROVE  Register!Becomes(q, a, b)
<1>1. Op' = [Op EXCEPT ![q] = b] /\ Op[q] = a
    BY OpMoves DEF Op
<1> QED BY <1>1 DEF Op, Register!Becomes

(* Where the handler may be, and what the register sees of it.             *)
LEMMA OpValues ==
    ASSUME NEW q \in Requests
    PROVE  /\ pc[q] = "idle" => OpOf(q) = "idle"
           /\ pc[q] = "body" => OpOf(q) = "saving"
           /\ pc[q] \in Queued => OpOf(q) = "accepted"
           /\ pc[q] = "written" => OpOf(q) = "taken"
           /\ pc[q] = "failed" => OpOf(q) = "failed"
           /\ pc[q] = "awaiting" => OpOf(q) = "loading"
           /\ pc[q] = "answered" => OpOf(q) = "done"
           /\ pc[q] = "lost" => OpOf(q) = "lost"
BY SMT DEF OpOf, Queued

LEMMA OpValuesNext ==
    ASSUME NEW q \in Requests
    PROVE  /\ pc'[q] = "body" => OpOf(q)' = "saving"
           /\ pc'[q] \in Queued => OpOf(q)' = "accepted"
           /\ pc'[q] = "written" => OpOf(q)' = "taken"
           /\ pc'[q] = "failed" => OpOf(q)' = "failed"
           /\ pc'[q] = "awaiting" => OpOf(q)' = "loading"
           /\ pc'[q] = "answered" => OpOf(q)' = "done"
BY SMT DEF OpOf, Queued

(* A save is renamed, or fails, when every save before it is decided.      *)
LEMMA PendingIsNext ==
    ASSUME Inv, NEW q \in Requests, pc[q] \in {"writing", "temp"}
    PROVE  Register!IsNext(q)
<1>0. DOMAIN order = 1..Len(order)
    BY DEF Inv, TypeOK
<1> SUFFICES ASSUME NEW i \in 1..Len(order), NEW j \in 1..Len(order), order[j] = q, i < j
             PROVE  Op[order[i]] # "accepted"
    BY <1>0, Zenon DEF Register!IsNext, Op
<1>1. ~InQueue(order[i])
    BY DEF Inv, ChainInv
<1>2. order[i] \in Requests
    BY DEF Inv, TypeOK
<1> QED BY <1>1, <1>2, AcceptedIsPending DEF Inv

LEMMA UndecidedArePending ==
    ASSUME TypeOK
    PROVE  Register!Undecided = {s \in Requests : InQueue(s)}
BY AcceptedIsPending DEF Register!Undecided, Op

-----------------------------------------------------------------------------
(* Saves.                                                                  *)
LEMMA RefinesSave ==
    ASSUME Inv, NEW q \in Requests,
           BeginSave(q) \/ RefuseSave(q) \/ SaveToMemory(q) \/ QueueSave(q)
    PROVE  Register!Next
<1> USE DEF Inv, store, history
<1>1. CASE BeginSave(q)
    <2>1. Register!Becomes(q, "idle", "saving")
        BY <1>1, RegisterMoves, OpValues, OpValuesNext, OpMoves DEF BeginSave, Goes
    <2>2. Register!BeginSave(q)
        BY <1>1, <2>1 DEF BeginSave, Register!BeginSave
    <2> QED BY <2>2 DEF Register!Next
<1>2. CASE RefuseSave(q)
    <2>1. Register!Becomes(q, "saving", "done")
        BY <1>2, RegisterMoves, OpValues, OpValuesNext, OpMoves DEF RefuseSave, Goes
    <2>2. Register!RefuseSave(q)
        BY <1>2, <2>1 DEF RefuseSave, Register!RefuseSave, Answers, Register!Answers
    <2> QED BY <2>2 DEF Register!Next
<1>3. CASE SaveToMemory(q)
    <2>1. Register!Becomes(q, "saving", "done")
        BY <1>3, RegisterMoves, OpValues, OpValuesNext, OpMoves DEF SaveToMemory, Goes
    <2>2. \A s \in Requests : ~InQueue(s)
        BY <1>3 DEF SaveToMemory, OrderInv, InQueue
    <2>3. Register!Undecided = {}
        BY <2>2, UndecidedArePending
    <2>4. Register!TakeAtOnce(q)
        BY <1>3, <2>1, <2>3 DEF SaveToMemory, Register!TakeAtOnce, Answers, Register!Answers
    <2> QED BY <2>4 DEF Register!Next
<1>4. CASE QueueSave(q)
    <2>1. Register!Becomes(q, "saving", "accepted")
        BY <1>4, RegisterMoves, OpValues, OpValuesNext, OpMoves DEF QueueSave, Goes, Queued
    <2>2. Register!Accept(q)
        BY <1>4, <2>1 DEF QueueSave, Register!Accept
    <2> QED BY <2>2 DEF Register!Next
<1> QED BY <1>1, <1>2, <1>3, <1>4

(* The write: the rename takes the save, the temporary file is invisible.  *)
LEMMA RefinesWrite ==
    ASSUME Inv, NEW q \in Requests, WriteSteps(q)
    PROVE  [Register!Next]_(Register!vars)
<1> USE DEF Inv, store, history
<1>1. CASE StartWrite(q) \/ WriteTemp(q)
    <2>1. pc[q] \in Queued /\ \E to \in Queued : pc' = [pc EXCEPT ![q] = to]
        BY <1>1 DEF StartWrite, WriteTemp, Goes, Queued
    <2>2. Register!Becomes(q, "accepted", "accepted")
        BY <2>1, RegisterMoves, OpValues, OpValuesNext, OpMoves
    <2>3. Op' = Op
        BY <2>2 DEF Register!Becomes, Op
    <2> QED BY <1>1, <2>3 DEF StartWrite, WriteTemp, Op, Register!vars
<1>2. CASE Rename(q)
    <2>1. Register!Becomes(q, "accepted", "taken")
        BY <1>2, RegisterMoves, OpValues, OpValuesNext, OpMoves DEF Rename, Goes, Queued
    <2>2. Register!IsNext(q) /\ saveAs = "file"
        BY <1>2, PendingIsNext DEF Rename, Goes, OrderInv, Queued
    <2>3. Register!Take(q)
        BY <1>2, <2>1, <2>2 DEF Rename, Register!Take
    <2> QED BY <2>3 DEF Register!Next
<1>3. CASE FailWrite(q)
    <2>1. Register!Becomes(q, "accepted", "failed")
        BY <1>3, RegisterMoves, OpValues, OpValuesNext, OpMoves DEF FailWrite, Queued
    <2>2. Register!IsNext(q)
        BY <1>3, PendingIsNext DEF FailWrite
    <2>3. Register!Fail(q)
        BY <1>3, <2>1, <2>2 DEF FailWrite, Register!Fail
    <2> QED BY <2>3 DEF Register!Next
<1>4. CASE Reply(q)
    <2>1. pc' = [pc EXCEPT ![q] = "answered"] /\ pc'[q] = "answered"
        BY <1>4, OpMoves DEF Reply, Goes
    <2>2. CASE pc[q] = "written"
        <3>1. Register!Becomes(q, "taken", "done")
            BY <2>1, <2>2, RegisterMoves, OpValues, OpValuesNext
        <3> QED BY <1>4, <2>2, <3>1 DEF Reply, Goes, Answers, Register!Acknowledge,
                                        Register!Answers, Register!Next
    <2>3. CASE pc[q] = "failed"
        <3>1. Register!Becomes(q, "failed", "done")
            BY <2>1, <2>3, RegisterMoves, OpValues, OpValuesNext
        <3> QED BY <1>4, <2>3, <3>1 DEF Reply, Goes, Answers, Register!Acknowledge,
                                        Register!Answers, Register!Next
    <2> QED BY <1>4, <2>2, <2>3 DEF Reply, Goes
<1> QED BY <1>1, <1>2, <1>3, <1>4 DEF WriteSteps

(* Loads: what was pending when the load began is decided when it reads.   *)
LEMMA LoadIsDue ==
    ASSUME Inv, LoadInv, NEW q \in Requests, pc[q] = "awaiting", Ready(prev[q])
    PROVE  ahead[q] \cap Register!Undecided = {}
<1> SUFFICES ASSUME NEW s \in ahead[q], InQueue(s) PROVE FALSE
    BY UndecidedArePending DEF Inv
<1>1. PICK i \in 1..Len(order), k \in 1..Len(order) :
          i <= k /\ order[i] = s /\ order[k] = prev[q]
    BY DEF LoadInv
<1>2. ~InQueue(prev[q])
    <2>1. prev[q] \in Requests
        BY <1>1 DEF Inv, TypeOK
    <2> QED BY <2>1, LayoutAssumption DEF Ready, InQueue
<1>3. i < k
    BY <1>1, <1>2, SMT
<1> QED BY <1>1, <1>2, <1>3, BehindPending DEF InQueue, Queued

LEMMA RefinesLoad ==
    ASSUME Inv, LoadInv, NEW q \in Requests, BeginLoad(q) \/ Load(q)
    PROVE  Register!Next
<1> USE DEF Inv, store, history
<1>1. CASE BeginLoad(q)
    <2>1. Register!Becomes(q, "idle", "loading")
        BY <1>1, RegisterMoves, OpValues, OpValuesNext, OpMoves DEF BeginLoad, Goes
    <2>2. ahead' = [ahead EXCEPT ![q] = Register!Undecided]
        BY <1>1, UndecidedArePending DEF BeginLoad, InQueue
    <2>3. Register!BeginLoad(q)
        BY <1>1, <2>1, <2>2 DEF BeginLoad, Register!BeginLoad
    <2> QED BY <2>3 DEF Register!Next
<1>2. CASE Load(q)
    <2>1. Register!Becomes(q, "loading", "done")
        BY <1>2, RegisterMoves, OpValues, OpValuesNext, OpMoves DEF Load, Goes
    <2>2. ahead[q] \cap Register!Undecided = {}
        BY <1>2, LoadIsDue DEF Load, Goes
    <2>3. Register!Load(q)
        BY <1>2, <2>1, <2>2 DEF Load, Register!Load, Answers, Register!Answers
    <2> QED BY <2>3 DEF Register!Next
<1> QED BY <1>1, <1>2

LEMMA RefinesOutside ==
    ASSUME Inv, EditFile \/ Restart
    PROVE  Register!Next
<1> USE DEF Inv, store, history
<1>1. CASE EditFile
    <2>1. Op' = Op
        BY <1>1 DEF EditFile, Op, OpOf
    <2>2. Register!Edit
        BY <1>1, <2>1 DEF EditFile, Op, Register!Edit
    <2> QED BY <2>2 DEF Register!Next
<1>2. CASE Restart
    <2>1. \A p \in Requests :
            OpOf(p)' = IF OpOf(p) \in {"idle", "done"} THEN OpOf(p) ELSE "lost"
        BY <1>2, SMT DEF Restart, OpOf, Finished, Queued, SavePCs, TypeOK
    <2>2. Op' = [p \in Requests |-> IF Op[p] \in {"idle", "done"} THEN Op[p] ELSE "lost"]
        BY <2>1 DEF Op
    <2>3. Register!Restart
        BY <1>2, <2>2 DEF Restart, Op, Register!Restart
    <2> QED BY <2>3 DEF Register!Next
<1> QED BY <1>1, <1>2

LEMMA RefinesNext == Inv /\ LoadInv /\ [Next]_vars => [Register!Next]_(Register!vars)
<1> SUFFICES ASSUME Inv, LoadInv, [Next]_vars PROVE [Register!Next]_(Register!vars)
    OBVIOUS
<1>1. ASSUME NEW q \in Requests,
             BeginSave(q) \/ RefuseSave(q) \/ SaveToMemory(q) \/ QueueSave(q)
      PROVE  Register!Next
    BY <1>1, RefinesSave
<1>2. ASSUME NEW q \in Requests, WriteSteps(q)
      PROVE  [Register!Next]_(Register!vars)
    BY <1>2, RefinesWrite
<1>3. ASSUME NEW q \in Requests, BeginLoad(q) \/ Load(q)
      PROVE  Register!Next
    BY <1>3, RefinesLoad
<1>4. CASE EditFile \/ Restart
    BY <1>4, RefinesOutside
<1>5. CASE UNCHANGED vars
    BY <1>5 DEF vars, store, history, OpOf, Register!vars
<1> QED BY <1>1, <1>2, <1>3, <1>4, <1>5 DEF Next

(* The layout routes implement one register, in either mode: saves take    *)
(* effect whole and in the order they were accepted, loads see every save  *)
(* accepted before them, whatever fails (readLayout, saveLayout and        *)
(* writeLayout, lines 238-407).                                            *)
THEOREM RoutesImplementRegister == Spec => ImplementsRegister
<1>1. Spec => [](Inv /\ LoadInv)
    <2>1. Init => Inv /\ LoadInv
        BY InitInv, LoadInvInit
    <2>2. (Inv /\ LoadInv) /\ [Next]_vars => (Inv /\ LoadInv)'
        BY NextInv, LoadInvStep
    <2> QED BY <2>1, <2>2, PTL DEF Spec
<1>2. Spec => Register!Init /\ [][Register!Next]_(Register!vars)
    BY <1>1, RefinesInit, RefinesNext, PTL DEF Spec
<1> QED BY <1>2 DEF ImplementsRegister, Register!Spec
=============================================================================
