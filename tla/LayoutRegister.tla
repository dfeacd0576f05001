--------------------------- MODULE LayoutRegister ---------------------------
(* What the layout routes promise their callers: one register.  Saves take *)
(* effect whole, in the order they were accepted, or not at all; a load    *)
(* returns the register as it is at one moment of its own, once every save *)
(* accepted before it began has been decided.                              *)
EXTENDS Naturals, Sequences

CONSTANTS Requests

VARIABLES
    reg,        \* the saved layout, named by the save it came from, or "empty",
                \* or "broken" when an editor left the file unreadable
    op,         \* what has become of each request
    order,      \* the accepted saves, in the order of acceptance
    ahead,      \* for a load: the saves it must come after
    answer      \* what each request was answered

vars == <<reg, op, order, ahead, answer>>

Layouts   == Requests \cup {"empty", "broken"}
Undecided == {q \in Requests : op[q] = "accepted"}

Init ==
    /\ reg = "empty"
    /\ op = [q \in Requests |-> "idle"]
    /\ order = <<>>
    /\ ahead = [q \in Requests |-> {}]
    /\ answer = [q \in Requests |-> "none"]

Becomes(q, from, to) == op[q] = from /\ op' = [op EXCEPT ![q] = to]
Answers(q, a) == answer' = [answer EXCEPT ![q] = a]

BeginSave(q) == Becomes(q, "idle", "saving") /\ UNCHANGED <<reg, order, ahead, answer>>

RefuseSave(q) ==
    /\ Becomes(q, "saving", "done") /\ Answers(q, "refused")
    /\ UNCHANGED <<reg, order, ahead>>

Accept(q) ==
    /\ Becomes(q, "saving", "accepted") /\ order' = Append(order, q)
    /\ UNCHANGED <<reg, ahead, answer>>

IsNext(q) == \A i, j \in DOMAIN order : order[j] = q /\ i < j => op[order[i]] # "accepted"

Take(q) ==
    /\ IsNext(q) /\ Becomes(q, "accepted", "taken") /\ reg' = q
    /\ UNCHANGED <<order, ahead, answer>>

(* A save accepted and taken at once, and answered: the in-memory layout.  *)
TakeAtOnce(q) ==
    /\ Undecided = {} /\ Becomes(q, "saving", "done") /\ reg' = q /\ Answers(q, "ok")
    /\ order' = Append(order, q) /\ UNCHANGED ahead

Fail(q) ==
    /\ IsNext(q) /\ Becomes(q, "accepted", "failed")
    /\ UNCHANGED <<reg, order, ahead, answer>>

Acknowledge(q) ==
    /\ \/ Becomes(q, "taken", "done")  /\ Answers(q, "ok")
       \/ Becomes(q, "failed", "done") /\ Answers(q, "error")
    /\ UNCHANGED <<reg, order, ahead>>

BeginLoad(q) ==
    /\ Becomes(q, "idle", "loading") /\ ahead' = [ahead EXCEPT ![q] = Undecided]
    /\ UNCHANGED <<reg, order, answer>>

Load(q) ==
    /\ ahead[q] \cap Undecided = {}
    /\ Becomes(q, "loading", "done") /\ Answers(q, reg)
    /\ UNCHANGED <<reg, order, ahead>>

(* Somebody edits the file.                                                *)
Edit == reg' = "broken" /\ UNCHANGED <<op, order, ahead, answer>>

(* A restart drops whatever was not yet answered; a register kept in memory*)
(* starts empty again.                                                     *)
Restart ==
    /\ op' = [q \in Requests |-> IF op[q] \in {"idle", "done"} THEN op[q] ELSE "lost"]
    /\ reg' \in {reg, "empty"}
    /\ UNCHANGED <<order, ahead, answer>>

Next ==
    \/ \E q \in Requests : \/ BeginSave(q) \/ RefuseSave(q) \/ Accept(q) \/ Take(q)
                           \/ TakeAtOnce(q) \/ Fail(q) \/ Acknowledge(q)
                           \/ BeginLoad(q) \/ Load(q)
    \/ Edit \/ Restart

Spec == Init /\ [][Next]_vars
=============================================================================
