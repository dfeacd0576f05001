---------------------------- MODULE DirectRunProofs ----------------------------
(* Whatever the answers' order, a drawer shows the last run of its target,   *)
(* and whatever the classes, what is called is what was asked.               *)
EXTENDS DirectRun, Integers, TLAPS

-----------------------------------------------------------------------------
(* The inductive invariant                                                  *)

RunFields == {"from", "nth", "target", "method", "asked", "body", "key", "waiting", "at", "reply",
              "outcome", "listing", "called"}
HasRun    == {"running", "done", "listed", "filed", "ready"}

(* Arguments: a list, or a whole list handed to the only parameter.         *)
IsArgs(args) ==
    \/ args \in Seq(Values)
    \/ args = <<ArrayOf(args[1].items)>> /\ args[1].items \in Seq(Values)

RunOK(run) ==
    /\ DOMAIN run = RunFields
    /\ run.from \in {"run", "inspect", "rerun"} /\ run.nth \in Nat /\ run.waiting \in BOOLEAN
    /\ run.at \in Underway \cup {"answered"}
    /\ run.reply \in {"", "refused", "ok", "threw", "failed", "lost"}
    /\ run.outcome \in {"", "ok", "threw"}
    /\ run.listing \in Seq(Nat)
    /\ IsArgs(run.asked)

DrawerOK(d) ==
    /\ DOMAIN d = {"pending", "snapshot", "failed", "refused"}
    /\ d.pending \in Nat /\ d.snapshot \in Nat /\ d.failed \in BOOLEAN

WaterfallOK(w) ==
    /\ DOMAIN w = {"index", "asked", "traces", "active", "loading", "failed", "folded", "rerunning"}

TypeOK ==
    /\ app \in DOMAIN Apps
    /\ runs \in Seq({runs[i] : i \in DOMAIN runs}) /\ \A i \in DOMAIN runs : RunOK(runs[i])
    /\ completed \in Seq(Nat) /\ files \in [traces : SUBSET Nat, index : Seq(Nat)]
    /\ page \in [name : {"navigator", "trace"}, nth : Nat, selected : Inspected.targets \cup {NoTarget}]
    /\ DOMAIN drawer = Inspected.targets /\ \A t \in Inspected.targets : DrawerOK(drawer[t])
    /\ WaterfallOK(waterfall)

(* A run that is answered with a trace was called, and its trace is filed.  *)
ServerOK(i, run) ==
    /\ run.at = "sent" => run.called.at = ""
    /\ run.at \in HasRun \/ Traced(run.reply) => run.called.at # ""
    /\ run.reply # "" => run.at = "answered"
    /\ run.at \in HasRun \ {"running"} => Traced(run.outcome)
    /\ KeepsHistory /\ (run.at \in {"filed", "ready"} \/ Traced(run.reply)) => i \in files.traces
ServerInv == \A i \in DOMAIN runs : ServerOK(i, runs[i])

(* Every trace that is kept or shown is one of a run that was called.       *)
IsTrace(i) == i \in DOMAIN runs /\ WasCalled(i)
Traces     == {i \in DOMAIN runs : IsTrace(i)}
TracesInv  == completed \in Seq(Traces) /\ waterfall.traces \subseteq Traces

(* What a run was asked with: a form of a method the graph offers, or a     *)
(* span of a trace.                                                         *)
IsFromForm(run) ==
    /\ run.target \in Inspected.targets
    /\ \E m \in DirectRunMethods(Inspected.members[run.target]) :
           m.name = run.method /\ run.body = ArgsBody(m, run.asked) /\ Len(run.asked) = FormFields(m.params)
IsFromSpan(run) ==
    /\ run.body = Body(run.asked) /\ IsTrace(run.key.trace)
    /\ \E span \in Trace(run.key.trace) :
           span.id = run.key.span /\ span.target = run.target /\ span.method = run.method
AskedOK(i) == IF runs[i].from = "rerun" THEN IsFromSpan(runs[i]) ELSE IsFromForm(runs[i])
AskedInv == \A i \in DOMAIN runs : AskedOK(i)

(* What the route makes of a request.                                       *)
Asked(run) == Resolve(IsStrict, run.target, Inspected.members[run.target], run.method)
Bound(run) == ResolveArgs(run.body, ParameterCount(Asked(run).params))
IsCallable(run) == run.target \in Inspected.targets /\ Asked(run) # None /\ Bound(run).ok
CalledOK(i) ==
    /\ WasCalled(i) => IsCallable(runs[i]) /\ runs[i].called = [at |-> Asked(runs[i]).at, args |-> Bound(runs[i]).args]
    /\ runs[i].reply = "refused" => ~IsCallable(runs[i])
CalledInv == \A i \in DOMAIN runs : CalledOK(i)

(* While a target waits, it waits for the last of its runs; when it does    *)
(* not, it shows the last one, or says that the last one was not answered.  *)
PageInv ==
    /\ \A i \in DOMAIN runs : runs[i].nth <= page.nth
    /\ \A t \in Inspected.targets : RunsOf(t) # {} => page.name = "navigator"
WaitInv ==
    \A t \in Inspected.targets :
        /\ \A i \in RunsOf(t) : runs[i].waiting => i = drawer[t].pending
        /\ drawer[t].pending # 0 =>
               /\ drawer[t].pending \in RunsOf(t) /\ runs[drawer[t].pending].waiting /\ ~drawer[t].failed
               /\ \A i \in RunsOf(t) : i <= drawer[t].pending
ShownInv ==
    \A t \in Inspected.targets :
        /\ drawer[t].snapshot # 0 =>
               /\ drawer[t].snapshot \in RunsOf(t) /\ ~runs[drawer[t].snapshot].waiting
               /\ runs[drawer[t].snapshot].reply \in {"refused", "ok", "threw"}
        /\ drawer[t].pending = 0 /\ ~drawer[t].failed => \A i \in RunsOf(t) : i <= drawer[t].snapshot
        /\ drawer[t].failed =>
               \E i \in RunsOf(t) : drawer[t].snapshot < i /\ \A j \in RunsOf(t) : j <= i

Inv == /\ TypeOK /\ ServerInv /\ TracesInv /\ AskedInv /\ CalledInv
       /\ PageInv /\ WaitInv /\ ShownInv

-----------------------------------------------------------------------------
(* What lookups and bodies give                                             *)

LEMMA MaxIs ==
    ASSUME NEW S, NEW m \in S, \A n \in S : n \in Nat /\ n <= m
    PROVE  Max(S) = m
<1>1. \A x \in S : (\A y \in S : x >= y) => x = m
    BY SMT
<1>2. m \in S /\ \A y \in S : m >= y
    BY SMT
<1> QED BY <1>1, <1>2 DEF Max

LEMMA MinIs ==
    ASSUME NEW S, NEW m \in S, \A n \in S : n \in Nat /\ m <= n
    PROVE  Min(S) = m
<1>1. \A x \in S : (\A y \in S : x <= y) => x = m
    BY SMT
<1>2. m \in S /\ \A y \in S : m <= y
    BY SMT
<1> QED BY <1>1, <1>2 DEF Min

(* A member that is found is where it was looked for.                       *)
LEMMA AtIs ==
    ASSUME NEW members, NEW where, NEW name, At(members, where, name) # None
    PROVE  /\ At(members, where, name) \in members
           /\ At(members, where, name).at = where
           /\ At(members, where, name).name = name
<1> DEFINE S == {m \in members : m.at = where /\ m.name = name}
<1>1. S # {} /\ At(members, where, name) = CHOOSE m \in S : TRUE
    BY DEF At, The
<1>2. At(members, where, name) \in S
    BY <1>1
<1> QED BY <1>2

(* One that is there is found.                                              *)
LEMMA AtFinds ==
    ASSUME NEW members, NEW targets, IsClass(members, targets), NEW m \in members
    PROVE  At(members, m.at, m.name) = m /\ m # None
<1> DEFINE S == {n \in members : n.at = m.at /\ n.name = m.name}
<1>1. S = {m}
    BY DEF IsClass
<1>2. At(members, m.at, m.name) = m
    BY <1>1 DEF At, The
<1> QED BY <1>2 DEF IsClass

(* What the route resolves is a function of the class, found where it is.   *)
LEMMA ResolveIs ==
    ASSUME NEW strict, NEW target, NEW members, NEW targets, IsClass(members, targets), NEW name,
           NEW m, m = Resolve(strict, target, members, name), m # None
    PROVE  /\ m \in members /\ m.name = name /\ m.is = "function"
           /\ At(members, m.at, name) = m
           /\ strict => m \in DirectRunMethods(members)
<1>1. PICK where \in {"instance", "class", "base"} : m = At(members, where, name)
    BY DEF Resolve, ResolveStrict, ResolvePermissive, ResolvePermissiveController
<1>2. m \in members /\ m.at = where /\ m.name = name
    BY <1>1, AtIs
<1>3. m.is = "function"
    BY DEF Resolve, IsFunction
<1>4. ASSUME strict
      PROVE  m \in DirectRunMethods(members)
    <2>1. m = At(members, "class", name) /\ name \in AllowedMethods(members)
        BY <1>4 DEF Resolve, ResolveStrict
    <2>2. PICK n \in DirectRunMethods(members) : n.name = name
        BY <2>1 DEF AllowedMethods
    <2>3. n \in members /\ n.at = "class"
        BY DEF DirectRunMethods
    <2>4. n = m
        BY <2>1, <2>2, <2>3, AtFinds
    <2> QED BY <2>4
<1> QED BY <1>1, <1>2, <1>3, <1>4

(* What the graph offers is what the route resolves, unless the instance    *)
(* hides it.                                                                *)
LEMMA OfferedIsResolved ==
    ASSUME NEW strict, NEW target, NEW members, NEW targets, IsClass(members, targets),
           NEW m \in DirectRunMethods(members),
           At(members, "instance", m.name) = None
    PROVE  Resolve(strict, target, members, m.name) = m
<1>1. m \in members /\ m.at = "class" /\ m.is = "function" /\ ~m.hook
    BY DEF DirectRunMethods
<1>2. At(members, "class", m.name) = m /\ m # None
    BY <1>1, AtFinds
<1>3. m.name \in AllowedMethods(members)
    BY DEF AllowedMethods
<1>4. ResolveStrict(members, m.name) = m
    BY <1>2, <1>3 DEF ResolveStrict
<1>5. ResolvePermissive(members, m.name) = m /\ ResolvePermissiveController(members, m.name) = m
    BY <1>1, <1>2 DEF ResolvePermissive, ResolvePermissiveController, IsFunction
<1> QED BY <1>1, <1>2, <1>4, <1>5 DEF Resolve, IsFunction

(* What is not declared by the class was found on the instance.             *)
LEMMA ResolvedHidden ==
    ASSUME NEW strict, NEW target, NEW members, NEW targets, IsClass(members, targets),
           NEW n \in DirectRunMethods(members),
           NEW m, m = Resolve(strict, target, members, n.name), m # None, m.at # "class"
    PROVE  At(members, "instance", n.name) # None
<1>1. n \in members /\ n.at = "class" /\ n.is = "function"
    BY DEF DirectRunMethods
<1>2. At(members, "class", n.name) = n /\ n # None
    BY <1>1, AtFinds
<1>3. m # n
    BY <1>1
<1> SUFFICES ASSUME At(members, "instance", n.name) = None PROVE FALSE
    OBVIOUS
<1> QED BY <1>3, OfferedIsResolved

(* A method's length is the number of its parameters when all are plain.    *)
LEMMA PlainCount ==
    ASSUME NEW params, Len(params) \in Nat, DOMAIN params = 1..Len(params),
           \A p \in DOMAIN params : params[p].form = "plain"
    PROVE  ParameterCount(params) = Len(params)
<1>1. {i \in DOMAIN params : params[i].form # "plain"} \cup {Len(params) + 1} = {Len(params) + 1}
    OBVIOUS
<1>2. Min({Len(params) + 1}) = Len(params) + 1
    <2>1. Len(params) + 1 \in Nat
        OBVIOUS
    <2> QED BY <2>1, MinIs
<1>3. ParameterCount(params) = (Len(params) + 1) - 1
    BY <1>1, <1>2 DEF ParameterCount
<1> QED BY <1>3

(* That of one with at most one parameter is not more than one.             *)
LEMMA ShortCount ==
    ASSUME NEW params, Len(params) \in {0, 1}, DOMAIN params = 1..Len(params)
    PROVE  ParameterCount(params) \in {0, 1} /\ (Len(params) = 0 => ParameterCount(params) = 0)
<1> DEFINE S == {i \in DOMAIN params : params[i].form # "plain"} \cup {Len(params) + 1}
<1>1. CASE Len(params) = 0
    <2>1. S = {1}
        BY <1>1
    <2>2. Min({1}) = 1
        <3> DEFINE T == {1}
        <3>1. 1 \in T /\ \A n \in T : n \in Nat /\ 1 <= n
            BY SMT
        <3> HIDE DEF T
        <3>2. Min(T) = 1
            BY <3>1, MinIs
        <3> QED BY <3>2 DEF T
    <2> QED BY <1>1, <2>1, <2>2 DEF ParameterCount
<1>2. CASE Len(params) = 1
    <2>1. DOMAIN params = {1}
        BY <1>2, SMT
    <2>2. S \in {{2}, {1, 2}}
        BY <1>2, <2>1
    <2>3. Min({2}) = 2
        <3> DEFINE T == {2}
        <3>1. 2 \in T /\ \A n \in T : n \in Nat /\ 2 <= n
            BY SMT
        <3> HIDE DEF T
        <3>2. Min(T) = 2
            BY <3>1, MinIs
        <3> QED BY <3>2 DEF T
    <2>4. Min({1, 2}) = 1
        <3> DEFINE T == {1, 2}
        <3>1. 1 \in T /\ \A n \in T : n \in Nat /\ 1 <= n
            BY SMT
        <3> HIDE DEF T
        <3>2. Min(T) = 1
            BY <3>1, MinIs
        <3> QED BY <3>2 DEF T
    <2> QED BY <1>2, <2>2, <2>3, <2>4, SMT DEF ParameterCount
<1> QED BY <1>1, <1>2

LEMMA ArgsAreList ==
    ASSUME NEW args, IsArgs(args)
    PROVE  /\ Len(args) \in Nat /\ DOMAIN args = 1..Len(args)
           /\ Len(args) = 1 => args = <<args[1]>>
           /\ Len(args) = 0 => args = <<>>
<1>1. CASE args \in Seq(Values)
    BY <1>1, SMT
<1>2. CASE args = <<ArrayOf(args[1].items)>>
    <2> DEFINE v == ArrayOf(args[1].items)
    <2> HIDE DEF v
    <2>1. args = <<v>>
        BY <1>2 DEF v
    <2> QED BY <2>1, SMT
<1> QED BY <1>1, <1>2 DEF IsArgs

(* The body of a request, as the route reads it.                            *)
LEMMA BodyIs ==
    ASSUME NEW args, IsArgs(args)
    PROVE  /\ Body(args).has
           /\ Len(args) = 1 => Body(args).args = args[1]
           /\ Len(args) # 1 => Body(args).args.json = "array" /\ Body(args).args.items = args
BY DEF Body, ArrayOf, Value

(* With a plain parameter for each, arguments arrive in their places.       *)
LEMMA ArgsInPlace ==
    ASSUME NEW args, IsArgs(args), NEW body, body = EmptyBody \/ body = Body(args), 
           ResolveArgs(body, Len(args)).ok
    PROVE  ResolveArgs(body, Len(args)).args = args
<1>1. Len(args) \in Nat /\ (Len(args) = 1 => args = <<args[1]>>) /\ (Len(args) = 0 => args = <<>>)
    BY ArgsAreList
<1>2. CASE body = EmptyBody
    BY <1>1, <1>2 DEF ResolveArgs, EmptyBody
<1>3. CASE body = Body(args)
    BY <1>1, <1>3, BodyIs DEF ResolveArgs
<1> QED BY <1>2, <1>3

(* What arrives is a list of arguments again.                               *)
LEMMA ResolvedAreArgs ==
    ASSUME NEW args, IsArgs(args), NEW body, body = EmptyBody \/ body = Body(args), NEW count
    PROVE  IsArgs(ResolveArgs(body, count).args)
<1>1. IsArgs(<<>>)
    BY SMT DEF IsArgs
<1>2. CASE body = EmptyBody
    BY <1>1, <1>2 DEF ResolveArgs, EmptyBody
<1>3. CASE body = Body(args) /\ Len(args) # 1
    <2>1. IsArgs(<<body.args>>)
        <3>1. args \in Seq(Values)
            <4>1. ASSUME args = <<ArrayOf(args[1].items)>> PROVE FALSE
                <5> DEFINE v == ArrayOf(args[1].items)
                <5>1. args = <<v>>
                    BY <4>1
                <5> HIDE DEF v
                <5> QED BY <5>1, <1>3, SMT
            <4> QED BY <4>1 DEF IsArgs
        <3>2. body.args = ArrayOf(args) /\ body.args.items = args
            BY <1>3 DEF Body, ArrayOf, Value
        <3> DEFINE w == <<body.args>>
        <3>3. w[1] = body.args
            OBVIOUS
        <3> QED BY <3>1, <3>2, <3>3 DEF IsArgs
    <2>2. IsArgs(body.args.items)
        BY <1>3, BodyIs
    <2> QED BY <1>1, <2>1, <2>2 DEF ResolveArgs
<1>4. CASE body = Body(args) /\ Len(args) = 1
    <2>1. body.args = args[1] /\ args = <<args[1]>> /\ body.has
        BY <1>4, BodyIs, ArgsAreList
    <2>2. IsArgs(<<body.args>>)
        BY <2>1
    <2>3. ASSUME body.args.json = "array" PROVE IsArgs(body.args.items)
        <3>1. CASE args \in Seq(Values)
            <4>1. args[1] \in Values
                BY <1>4, <3>1, SMT
            <4> QED BY <2>1, <2>3, <4>1, ValuesAssumption DEF IsArgs
        <3>2. CASE args[1].items \in Seq(Values)
            BY <2>1, <3>2 DEF IsArgs
        <3> QED BY <3>1, <3>2 DEF IsArgs
    <2> QED BY <1>1, <2>1, <2>2, <2>3 DEF ResolveArgs
<1> QED BY <1>2, <1>3, <1>4

-----------------------------------------------------------------------------
(* What the invariant says                                                  *)

LEMMA TargetIsClass ==
    ASSUME app \in DOMAIN Apps, NEW t \in Inspected.targets
    PROVE  IsClass(Inspected.members[t], Inspected.targets) /\ IsTarget(t) /\ t # NoTarget
BY AppsAssumption DEF Inspected

(* A run the route can serve calls a member it resolved.                    *)
LEMMA AskedIs ==
    ASSUME app \in DOMAIN Apps, NEW run, IsCallable(run)
    PROVE  /\ Asked(run) \in Inspected.members[run.target]
           /\ Asked(run).at \in {"instance", "class", "base"}
           /\ Len(Asked(run).params) \in Nat /\ DOMAIN Asked(run).params = 1..Len(Asked(run).params)
           /\ At(Inspected.members[run.target], Asked(run).at, run.method) = Asked(run)
           /\ IsStrict => Asked(run) \in DirectRunMethods(Inspected.members[run.target])
<1> DEFINE members == Inspected.members[run.target]
<1>1. IsClass(members, Inspected.targets) /\ Asked(run) # None
    BY TargetIsClass DEF IsCallable
<1>2. Asked(run) = Resolve(IsStrict, run.target, members, run.method)
    BY DEF Asked
<1> HIDE DEF members
<1>3. /\ Asked(run) \in members
      /\ At(members, Asked(run).at, run.method) = Asked(run)
      /\ IsStrict => Asked(run) \in DirectRunMethods(members)
    BY <1>1, <1>2, ResolveIs
<1>4. /\ Asked(run).at \in {"instance", "class", "base"}
      /\ Len(Asked(run).params) \in Nat /\ DOMAIN Asked(run).params = 1..Len(Asked(run).params)
    BY <1>1, <1>3 DEF IsClass
<1> QED BY <1>3, <1>4 DEF members

(* A run of a form is called on what its class declares, unless the         *)
(* instance hides that.                                                     *)
LEMMA FormCalls ==
    ASSUME app \in DOMAIN Apps, NEW run, IsFromForm(run), IsCallable(run)
    PROVE  Asked(run).at = "class" \/ At(Inspected.members[run.target], "instance", run.method) # None
<1> DEFINE members == Inspected.members[run.target]
<1>1. IsClass(members, Inspected.targets) /\ Asked(run) # None
    BY TargetIsClass DEF IsCallable
<1>2. Asked(run) = Resolve(IsStrict, run.target, members, run.method)
    BY DEF Asked
<1>3. PICK n \in DirectRunMethods(members) : n.name = run.method
    BY DEF IsFromForm
<1> HIDE DEF members
<1>4. Asked(run).at = "class" \/ At(members, "instance", run.method) # None
    BY <1>1, <1>2, <1>3, ResolvedHidden
<1> QED BY <1>4 DEF members

(* It is callable, unless the instance hides it or the form is not whole.   *)
LEMMA FormIsCallable ==
    ASSUME app \in DOMAIN Apps, NEW run, IsFromForm(run), IsArgs(run.asked),
           At(Inspected.members[run.target], "instance", run.method) = None,
           LET offered == At(Inspected.members[run.target], "class", run.method)
           IN  FormFields(offered.params) = Len(offered.params)
    PROVE  IsCallable(run)
<1> DEFINE members == Inspected.members[run.target]
<1>1. IsClass(members, Inspected.targets) /\ run.target \in Inspected.targets
    BY TargetIsClass DEF IsFromForm
<1>2. PICK m \in DirectRunMethods(members) :
          m.name = run.method /\ run.body = ArgsBody(m, run.asked) /\ Len(run.asked) = FormFields(m.params)
    BY DEF IsFromForm
<1>3. FormFields(m.params) = 0 => m.params = <<>>
    BY <1>1, <1>2, FormsAssumption DEF Inspected
<1>4. Asked(run) = Resolve(IsStrict, run.target, members, run.method)
    BY DEF Asked
<1>5. At(members, "instance", run.method) = None
    OBVIOUS
<1>6. LET offered == At(members, "class", run.method) IN FormFields(offered.params) = Len(offered.params)
    OBVIOUS
<1> HIDE DEF members
<1>7. m \in members /\ m.at = "class"
    BY <1>2 DEF DirectRunMethods
<1>8. At(members, "class", run.method) = m /\ m # None
    BY <1>1, <1>2, <1>7, AtFinds
<1>9. Asked(run) = m
    BY <1>1, <1>2, <1>4, <1>5, OfferedIsResolved
<1>10. Len(run.asked) = Len(m.params) /\ Len(m.params) \in Nat /\ DOMAIN m.params = 1..Len(m.params)
    BY <1>1, <1>2, <1>6, <1>7, <1>8 DEF IsClass
<1> DEFINE count == ParameterCount(m.params)
<1>11. Len(m.params) \in {0, 1} => count \in {0, 1} /\ (Len(m.params) = 0 => count = 0)
    BY <1>10, ShortCount
<1> HIDE DEF count
<1>12. ResolveArgs(run.body, count).ok
    <2>1. CASE FormFields(m.params) = 0
        <3>1. run.body = EmptyBody
            BY <1>2, <2>1 DEF ArgsBody, TakesNothing
        <3>2. Len(m.params) = 0
            BY <1>2, <1>10, <2>1
        <3>3. count = 0
            BY <1>11, <3>2
        <3>4. run.body.has = FALSE
            BY <3>1 DEF EmptyBody
        <3>5. ResolveArgs(run.body, count) = [ok |-> TRUE, args |-> <<>>]
            BY <3>3, <3>4 DEF ResolveArgs
        <3> QED BY <3>5
    <2>2. CASE FormFields(m.params) # 0
        <3>1. run.body = Body(run.asked)
            BY <1>2, <2>2 DEF ArgsBody, TakesNothing
        <3>2. CASE Len(run.asked) = 1
            <4>1. count \in {0, 1}
                BY <1>10, <1>11, <3>2
            <4>2. ~(count > 1) /\ run.body.has
                BY <4>1, <3>1, BodyIs
            <4> QED BY <4>2 DEF ResolveArgs
        <3>3. CASE Len(run.asked) # 1
            BY <3>1, <3>3, BodyIs DEF ResolveArgs
        <3> QED BY <3>2, <3>3
    <2> QED BY <2>1, <2>2
<1>13. Bound(run).ok
    BY <1>9, <1>12 DEF Bound, count
<1> QED BY <1>1, <1>8, <1>9, <1>13 DEF IsCallable

(* A trace has one span of an id.                                           *)
LEMMA SpansDiffer ==
    ASSUME Inv, NEW i, IsTrace(i), NEW s \in Trace(i), NEW u \in Trace(i), s.id = u.id
    PROVE  s = u
<1>1. IsCallable(runs[i]) /\ runs[i].called.at = Asked(runs[i]).at
    <2>1. i \in DOMAIN runs /\ WasCalled(i)
        BY DEF IsTrace
    <2>2. IsCallable(runs[i]) /\ runs[i].called = [at |-> Asked(runs[i]).at, args |-> Bound(runs[i]).args]
        BY <2>1 DEF Inv, CalledInv, CalledOK
    <2> QED BY <2>2
<1>2. Called(i) = Asked(runs[i]) /\ Asked(runs[i]) \in Inspected.members[runs[i].target]
    BY <1>1, AskedIs DEF Inv, TypeOK, Called
<1>3. runs[i].target \in Inspected.targets
    BY <1>1 DEF IsCallable
<1>4. \A x, y \in Called(i).spans : x.id # 1 /\ (x.id = y.id => x = y)
    BY <1>2, <1>3, TargetIsClass DEF IsClass, Inv, TypeOK
<1> DEFINE root == [id |-> 1, parent |-> 0, start |-> 1, target |-> runs[i].target, method |-> runs[i].method,
                    args |-> runs[i].called.args]
<1>5. Trace(i) = {root} \cup Called(i).spans /\ root.id = 1
    BY DEF Trace
<1> HIDE DEF root
<1> QED BY <1>4, <1>5

LEMMA InvCalls == Inv => CallsAreWhatWasAsked
<1> SUFFICES ASSUME Inv, NEW i \in DOMAIN runs
             PROVE  LET run == runs[i] IN
                    /\ WasCalled(i) =>
                           /\ IF run.from = "rerun"
                              THEN SpanOf(run.key).target = run.target /\ SpanOf(run.key).method = run.method
                              ELSE run.called.at = "class" \/ HiddenByInstance(i)
                           /\ OnePerParameter(i) => run.called.args = run.asked
                           /\ IsStrict => Called(i) \in DirectRunMethods(Inspected.members[run.target])
                    /\ run.reply = "refused" /\ run.from # "rerun" => HiddenByInstance(i) \/ ~IsWholeForm(i)
    BY DEF CallsAreWhatWasAsked
<1> DEFINE run == runs[i]
<1>1. /\ app \in DOMAIN Apps /\ IsArgs(run.asked)
      /\ IF run.from = "rerun" THEN IsFromSpan(run) ELSE IsFromForm(run)
      /\ WasCalled(i) => IsCallable(run) /\ run.called = [at |-> Asked(run).at, args |-> Bound(run).args]
      /\ run.reply = "refused" => ~IsCallable(run)
    BY DEF Inv, TypeOK, RunOK, AskedInv, AskedOK, CalledInv, CalledOK
<1>2. ASSUME WasCalled(i)
      PROVE  /\ IsCallable(run) /\ Called(i) = Asked(run) /\ run.called.at = Asked(run).at
             /\ run.called.args = Bound(run).args
             /\ Len(Called(i).params) \in Nat /\ DOMAIN Called(i).params = 1..Len(Called(i).params)
             /\ IsStrict => Called(i) \in DirectRunMethods(Inspected.members[run.target])
    <2>1. IsCallable(run) /\ run.called.at = Asked(run).at /\ run.called.args = Bound(run).args
        BY <1>1, <1>2
    <2>2. Called(i) = Asked(run)
        BY <1>1, <2>1, AskedIs DEF Called
    <2> QED BY <1>1, <2>1, <2>2, AskedIs
<1>3. ASSUME WasCalled(i), run.from = "rerun"
      PROVE  SpanOf(run.key).target = run.target /\ SpanOf(run.key).method = run.method
    <2>1. IsFromSpan(run)
        BY <1>1, <1>3
    <2>2. PICK span \in Trace(run.key.trace) :
              span.id = run.key.span /\ span.target = run.target /\ span.method = run.method
        BY <2>1 DEF IsFromSpan
    <2>3. SpanOf(run.key) \in Trace(run.key.trace) /\ SpanOf(run.key).id = span.id
        BY <2>2 DEF SpanOf
    <2>4. SpanOf(run.key) = span
        BY <2>1, <2>2, <2>3, SpansDiffer DEF IsFromSpan
    <2> QED BY <2>2, <2>4
<1>4. ASSUME WasCalled(i), run.from # "rerun"
      PROVE  run.called.at = "class" \/ HiddenByInstance(i)
    BY <1>1, <1>2, <1>4, FormCalls DEF HiddenByInstance
<1>5. ASSUME WasCalled(i), OnePerParameter(i)
      PROVE  run.called.args = run.asked
    <2>1. run.body = EmptyBody \/ run.body = Body(run.asked)
        BY <1>1 DEF IsFromSpan, IsFromForm, ArgsBody
    <2>2. /\ Len(run.asked) = Len(Called(i).params)
          /\ \A p \in DOMAIN Called(i).params : Called(i).params[p].form = "plain"
        BY <1>5 DEF OnePerParameter
    <2>3. ParameterCount(Called(i).params) = Len(run.asked)
        BY <1>2, <1>5, <2>2, PlainCount
    <2>4. ResolveArgs(run.body, Len(run.asked)).ok /\ run.called.args = ResolveArgs(run.body, Len(run.asked)).args
        BY <1>2, <1>5, <2>3 DEF Bound, IsCallable
    <2> QED BY <1>1, <2>1, <2>4, ArgsInPlace
<1>6. ASSUME run.reply = "refused", run.from # "rerun"
      PROVE  HiddenByInstance(i) \/ ~IsWholeForm(i)
    BY <1>1, <1>6, FormIsCallable DEF HiddenByInstance, IsWholeForm, Offered
<1> QED BY <1>2, <1>3, <1>4, <1>5, <1>6

LEMMA InvShown == Inv => LastRunShown
<1> SUFFICES ASSUME Inv, NEW t \in Inspected.targets
             PROVE  LET d == drawer[t]
                        settled == {i \in RunsOf(t) : ~runs[i].waiting}
                    IN  /\ {i \in RunsOf(t) : runs[i].waiting} = {d.pending} \ {0}
                        /\ d.snapshot \in settled \cup {0}
                        /\ d.pending = 0 /\ ~d.failed /\ settled # {} => d.snapshot = Max(settled \cup {0})
                        /\ d.failed => d.snapshot < Max(settled \cup {0})
                        /\ KeepsHistory /\ d.snapshot # 0 /\ runs[d.snapshot].reply # "refused" => d.snapshot \in files.traces
    BY DEF LastRunShown
<1> DEFINE d == drawer[t]
           settled == {i \in RunsOf(t) : ~runs[i].waiting}
<1>1. RunsOf(t) \subseteq DOMAIN runs /\ DOMAIN runs \subseteq Nat \ {0}
    <2>1. RunsOf(t) \subseteq DOMAIN runs
        BY DEF RunsOf
    <2>2. DOMAIN runs \subseteq Nat \ {0}
        BY SMT DEF Inv, TypeOK
    <2> QED BY <2>1, <2>2
<1>2. d.pending \in Nat /\ d.snapshot \in Nat
    BY DEF Inv, TypeOK, DrawerOK
<1>3. /\ \A i \in RunsOf(t) : runs[i].waiting => i = d.pending
      /\ d.pending # 0 => d.pending \in RunsOf(t) /\ runs[d.pending].waiting /\ ~d.failed
    BY DEF Inv, WaitInv
<1>4. /\ d.snapshot # 0 => d.snapshot \in RunsOf(t) /\ ~runs[d.snapshot].waiting
                           /\ runs[d.snapshot].reply \in {"refused", "ok", "threw"}
      /\ d.pending = 0 /\ ~d.failed => \A i \in RunsOf(t) : i <= d.snapshot
      /\ d.failed => \E i \in RunsOf(t) : d.snapshot < i /\ \A j \in RunsOf(t) : j <= i
    BY DEF Inv, ShownInv
<1>5. {i \in RunsOf(t) : runs[i].waiting} = {d.pending} \ {0}
    BY <1>1, <1>3
<1>6. d.snapshot \in settled \cup {0}
    BY <1>4
<1>7. ASSUME d.pending = 0, ~d.failed PROVE d.snapshot = Max(settled \cup {0})
    <2> DEFINE S == settled \cup {0}
    <2>1. \A n \in S : n \in Nat /\ n <= d.snapshot
        BY <1>1, <1>2, <1>4, <1>7
    <2> HIDE DEF S
    <2>2. d.snapshot \in S
        BY <1>6 DEF S
    <2> QED BY <2>1, <2>2, MaxIs DEF S
<1>8. ASSUME d.failed PROVE d.snapshot < Max(settled \cup {0})
    <2>1. d.pending = 0
        BY <1>3, <1>8
    <2>2. PICK i \in RunsOf(t) : d.snapshot < i /\ \A j \in RunsOf(t) : j <= i
        BY <1>4, <1>8
    <2>3. i \in settled
        BY <1>1, <1>3, <2>1
    <2> DEFINE S == settled \cup {0}
    <2>4. i \in S /\ \A n \in S : n \in Nat /\ n <= i
        BY <1>1, <2>2, <2>3
    <2> HIDE DEF S
    <2>5. Max(S) = i
        BY <2>4, MaxIs
    <2> QED BY <2>2, <2>5 DEF S
<1>9. ASSUME KeepsHistory, d.snapshot # 0, runs[d.snapshot].reply # "refused"
      PROVE  d.snapshot \in files.traces
    <2>1. d.snapshot \in DOMAIN runs /\ Traced(runs[d.snapshot].reply)
        BY <1>1, <1>4, <1>9 DEF Traced
    <2> QED BY <1>9, <2>1 DEF Inv, ServerInv, ServerOK
<1> QED BY <1>5, <1>6, <1>7, <1>8, <1>9

-----------------------------------------------------------------------------
(* Runs one at a time                                                       *)

LEMMA OfItsRange ==
    ASSUME NEW S, NEW s \in Seq(S)
    PROVE  s \in Seq({s[i] : i \in DOMAIN s})
<1>1. Len(s) \in Nat /\ s = [i \in 1..Len(s) |-> s[i]] /\ DOMAIN s = 1..Len(s)
    BY SMT
<1> DEFINE T == {s[i] : i \in DOMAIN s}
<1>2. \A i \in 1..Len(s) : s[i] \in T
    BY <1>1
<1> HIDE DEF T
<1>3. s \in Seq(T)
    BY <1>1, <1>2, SMT
<1> QED BY <1>3 DEF T

LEMMA RunsAreSeq ==
    ASSUME TypeOK
    PROVE  Len(runs) \in Nat /\ DOMAIN runs = 1..Len(runs) /\ \A i \in DOMAIN runs : RunOK(runs[i])
BY SMT DEF TypeOK

LEMMA OneRun ==
    ASSUME TypeOK, NEW i \in DOMAIN runs, NEW r, RunOK(r), runs' = [runs EXCEPT ![i] = r]
    PROVE  /\ runs' \in Seq({runs'[j] : j \in DOMAIN runs'})
           /\ DOMAIN runs' = DOMAIN runs /\ runs'[i] = r
           /\ \A j \in DOMAIN runs : j # i => runs'[j] = runs[j]
           /\ \A j \in DOMAIN runs : RunOK(runs'[j])
<1> DEFINE S == {runs[j] : j \in DOMAIN runs}
           T == S \cup {r}
<1>1. runs \in Seq(S) /\ \A j \in DOMAIN runs : RunOK(runs[j])
    BY DEF TypeOK
<1> HIDE DEF S
<1>2. runs \in Seq(T)
    BY <1>1, SMT
<1>3. r \in T
    OBVIOUS
<1> HIDE DEF T
<1>4. DOMAIN runs' = DOMAIN runs /\ runs'[i] = r /\ \A j \in DOMAIN runs : j # i => runs'[j] = runs[j]
    OBVIOUS
<1>5. runs' \in Seq(T)
    BY <1>2, <1>3, SMT
<1>6. runs' \in Seq({runs'[j] : j \in DOMAIN runs'})
    <2> DEFINE f == runs'
    <2>1. f \in Seq(T)
        BY <1>5
    <2> HIDE DEF f
    <2>2. f \in Seq({f[j] : j \in DOMAIN f})
        BY <2>1, OfItsRange
    <2> QED BY <2>2 DEF f
<1> QED BY <1>1, <1>4, <1>6

(* What a run was asked never changes; once it called a member, that does   *)
(* not either, and it was right when it did.                                *)
SameRequest(i) ==
    /\ runs'[i].from = runs[i].from /\ runs'[i].nth = runs[i].nth /\ runs'[i].target = runs[i].target
    /\ runs'[i].method = runs[i].method /\ runs'[i].asked = runs[i].asked /\ runs'[i].body = runs[i].body
    /\ runs'[i].key = runs[i].key
Stays(i) ==
    /\ SameRequest(i)
    /\ \/ runs'[i].called = runs[i].called
       \/ /\ ~WasCalled(i) /\ IsCallable(runs[i])
          /\ runs'[i].called = [at |-> Asked(runs[i]).at, args |-> Bound(runs[i]).args]
    /\ runs'[i].reply = "refused" => runs[i].reply = "refused" \/ ~IsCallable(runs[i])
Grows ==
    /\ app' = app /\ DOMAIN runs \subseteq DOMAIN runs' /\ \A i \in DOMAIN runs : Stays(i)

LEMMA TraceStays ==
    ASSUME Inv, Grows, NEW i, IsTrace(i)
    PROVE  IsTrace(i)' /\ Trace(i)' = Trace(i)
<1>1. i \in DOMAIN runs /\ WasCalled(i) /\ i \in DOMAIN runs' /\ Stays(i)
    BY DEF Grows, IsTrace
<1>2. /\ runs'[i].target = runs[i].target /\ runs'[i].method = runs[i].method
      /\ runs'[i].called = runs[i].called
    BY <1>1 DEF Stays, SameRequest
<1>3. app' = app
    BY DEF Grows
<1> QED BY <1>1, <1>2, <1>3 DEF IsTrace, WasCalled, Trace, Called, Inspected

LEMMA AskedStays ==
    ASSUME Inv, Grows, NEW i \in DOMAIN runs
    PROVE  AskedOK(i)'
<1>1. /\ runs'[i].from = runs[i].from /\ runs'[i].target = runs[i].target /\ runs'[i].method = runs[i].method
      /\ runs'[i].asked = runs[i].asked /\ runs'[i].body = runs[i].body /\ runs'[i].key = runs[i].key
      /\ app' = app
    BY DEF Grows, Stays, SameRequest
<1>2. AskedOK(i)
    BY DEF Inv, AskedInv
<1>3. ASSUME IsFromSpan(runs[i]) PROVE IsFromSpan(runs[i])'
    <2>1. IsTrace(runs[i].key.trace)
        BY <1>3 DEF IsFromSpan
    <2>2. IsTrace(runs[i].key.trace)' /\ Trace(runs[i].key.trace)' = Trace(runs[i].key.trace)
        <3> DEFINE k == runs[i].key.trace
        <3>1. runs'[i].key.trace = k
            BY <1>1
        <3>2. IsTrace(k)
            BY <2>1
        <3> HIDE DEF k
        <3>3. ASSUME NEW j, j = k PROVE IsTrace(j)' /\ Trace(j)' = Trace(j)
            BY <3>2, <3>3, TraceStays
        <3> QED BY <3>1, <3>3 DEF k, IsTrace, Trace, WasCalled, Called, Inspected
    <2> QED BY <1>1, <1>3, <2>2 DEF IsFromSpan
<1>4. ASSUME IsFromForm(runs[i]) PROVE IsFromForm(runs[i])'
    BY <1>1, <1>4 DEF IsFromForm, Inspected, ArgsBody, TakesNothing
<1> QED BY <1>1, <1>2, <1>3, <1>4 DEF AskedOK

LEMMA CalledStays ==
    ASSUME Inv, Grows, NEW i \in DOMAIN runs
    PROVE  CalledOK(i)'
<1>1. Stays(i) /\ app' = app /\ CalledOK(i)
    BY DEF Grows, Inv, CalledInv
<1>2. /\ Asked(runs[i])' = Asked(runs[i]) /\ Bound(runs[i])' = Bound(runs[i])
      /\ IsCallable(runs[i])' = IsCallable(runs[i])
    BY <1>1 DEF Stays, SameRequest, Asked, Bound, IsCallable, Inspected, IsStrict
<1>3. ASSUME WasCalled(i)' PROVE IsCallable(runs[i]) /\ runs'[i].called = [at |-> Asked(runs[i]).at, args |-> Bound(runs[i]).args]
    BY <1>1, <1>3 DEF Stays, CalledOK, WasCalled
<1>4. ASSUME runs'[i].reply = "refused" PROVE ~IsCallable(runs[i])
    BY <1>1, <1>4 DEF Stays, CalledOK
<1> QED BY <1>2, <1>3, <1>4 DEF CalledOK

(* Steps that ask for no run: what was asked and called stays right.        *)
LEMMA NothingAsked ==
    ASSUME Inv, Grows, DOMAIN runs' = DOMAIN runs
    PROVE  AskedInv' /\ CalledInv'
BY AskedStays, CalledStays DEF AskedInv, CalledInv

(* Steps of the server: the pages do not see them.                          *)
Unseen ==
    /\ app' = app /\ page' = page /\ drawer' = drawer /\ waterfall' = waterfall
    /\ DOMAIN runs' = DOMAIN runs
    /\ \A i \in DOMAIN runs : /\ SameRequest(i) /\ runs'[i].waiting = runs[i].waiting
                              /\ runs[i].reply # "" => runs'[i].reply = runs[i].reply

LEMMA UnseenKeeps ==
    ASSUME Inv, Unseen
    PROVE  PageInv' /\ WaitInv' /\ ShownInv'
<1>1. /\ app' = app /\ page' = page /\ drawer' = drawer /\ DOMAIN runs' = DOMAIN runs
      /\ \A i \in DOMAIN runs :
             /\ runs'[i].from = runs[i].from /\ runs'[i].nth = runs[i].nth /\ runs'[i].target = runs[i].target
             /\ runs'[i].waiting = runs[i].waiting
             /\ runs[i].reply # "" => runs'[i].reply = runs[i].reply
    BY DEF Unseen, SameRequest
<1>2. \A t : RunsOf(t)' = RunsOf(t)
    BY <1>1 DEF RunsOf, IsHere
<1>3. Inspected' = Inspected
    BY <1>1 DEF Inspected
<1>4. \A t : RunsOf(t) \subseteq DOMAIN runs
    BY DEF RunsOf
<1>5. PageInv'
    BY <1>1, <1>2, <1>3 DEF Inv, PageInv
<1>6. WaitInv'
    BY <1>1, <1>2, <1>3, <1>4 DEF Inv, WaitInv
<1>7. ShownInv'
    <2> SUFFICES ASSUME NEW t \in Inspected.targets
                 PROVE  /\ drawer[t].snapshot # 0 =>
                               /\ drawer[t].snapshot \in RunsOf(t) /\ ~runs'[drawer[t].snapshot].waiting
                               /\ runs'[drawer[t].snapshot].reply \in {"refused", "ok", "threw"}
                        /\ drawer[t].pending = 0 /\ ~drawer[t].failed => \A i \in RunsOf(t) : i <= drawer[t].snapshot
                        /\ drawer[t].failed =>
                               \E i \in RunsOf(t) : drawer[t].snapshot < i /\ \A j \in RunsOf(t) : j <= i
        BY <1>1, <1>2, <1>3 DEF ShownInv
    <2>1. /\ drawer[t].snapshot # 0 =>
                 /\ drawer[t].snapshot \in RunsOf(t) /\ ~runs[drawer[t].snapshot].waiting
                 /\ runs[drawer[t].snapshot].reply \in {"refused", "ok", "threw"}
          /\ drawer[t].pending = 0 /\ ~drawer[t].failed => \A i \in RunsOf(t) : i <= drawer[t].snapshot
          /\ drawer[t].failed =>
                 \E i \in RunsOf(t) : drawer[t].snapshot < i /\ \A j \in RunsOf(t) : j <= i
        BY DEF Inv, ShownInv
    <2>2. ASSUME drawer[t].snapshot # 0
          PROVE  /\ drawer[t].snapshot \in RunsOf(t) /\ ~runs'[drawer[t].snapshot].waiting
                 /\ runs'[drawer[t].snapshot].reply \in {"refused", "ok", "threw"}
        BY <1>1, <1>4, <2>1, <2>2
    <2> QED BY <2>1, <2>2
<1> QED BY <1>5, <1>6, <1>7

(* A step of the server for one run that is not answered yet.               *)
ServesRequest(i, r) ==
    /\ RunOK(r) /\ runs' = [runs EXCEPT ![i] = r] /\ runs[i].at # "answered"
    /\ UNCHANGED <<app, page, drawer, waterfall>>
    /\ r.from = runs[i].from /\ r.nth = runs[i].nth /\ r.target = runs[i].target /\ r.method = runs[i].method
    /\ r.asked = runs[i].asked /\ r.body = runs[i].body /\ r.key = runs[i].key /\ r.waiting = runs[i].waiting
    /\ \/ r.called = runs[i].called
       \/ ~WasCalled(i) /\ IsCallable(runs[i]) /\ r.called = [at |-> Asked(runs[i]).at, args |-> Bound(runs[i]).args]
ServesReply(i, r) ==
    /\ r.reply = "refused" => ~IsCallable(runs[i])
    /\ r.at = "sent" => r.called.at = ""
    /\ r.at \in HasRun \/ Traced(r.reply) => r.called.at # ""
    /\ r.reply # "" => r.at = "answered"
    /\ r.at \in HasRun \ {"running"} => Traced(r.outcome)
    /\ KeepsHistory /\ (r.at \in {"filed", "ready"} \/ Traced(r.reply)) => i \in files'.traces
ServesHistory(i, r) ==
    /\ \/ completed' \in Seq(Traces)
       \/ completed' \in Seq(Traces \cup {i}) /\ r.called.at # ""
    /\ files' \in [traces : SUBSET Nat, index : Seq(Nat)] /\ files.traces \subseteq files'.traces
ServesOne(i, r) == ServesRequest(i, r) /\ ServesReply(i, r) /\ ServesHistory(i, r)

LEMMA TracesGrow ==
    ASSUME Inv, Grows
    PROVE  Traces \subseteq Traces'
BY TraceStays DEF Traces, IsTrace

LEMMA SeqsWithin ==
    ASSUME NEW S, NEW T, S \subseteq T
    PROVE  Seq(S) \subseteq Seq(T)
BY SMT

LEMMA TracesAreRuns ==
    ASSUME TypeOK
    PROVE  Traces \subseteq DOMAIN runs /\ DOMAIN runs \subseteq Nat \ {0}
<1>1. DOMAIN runs \subseteq Nat \ {0}
    BY RunsAreSeq, SMT
<1> QED BY <1>1 DEF Traces

LEMMA ServeOne ==
    ASSUME Inv, NEW i \in DOMAIN runs, NEW r, ServesOne(i, r)
    PROVE  Inv'
<1>0. ServesRequest(i, r) /\ ServesReply(i, r) /\ ServesHistory(i, r)
    BY DEF ServesOne
<1>1. /\ runs' \in Seq({runs'[j] : j \in DOMAIN runs'})
      /\ DOMAIN runs' = DOMAIN runs /\ runs'[i] = r
      /\ \A j \in DOMAIN runs : j # i => runs'[j] = runs[j]
      /\ \A j \in DOMAIN runs : RunOK(runs'[j])
    BY <1>0, OneRun DEF ServesRequest, Inv
<1>2. app' = app /\ page' = page /\ drawer' = drawer /\ waterfall' = waterfall /\ Inspected' = Inspected
    BY <1>0 DEF ServesRequest, Inspected
<1>4. runs[i].reply = "" /\ ServerOK(i, runs[i])
    <2>1. ServerOK(i, runs[i])
        BY DEF Inv, ServerInv
    <2>2. runs[i].at # "answered"
        BY <1>0 DEF ServesRequest
    <2> QED BY <2>1, <2>2 DEF ServerOK
<1>5. \A j \in DOMAIN runs : Stays(j) /\ runs'[j].waiting = runs[j].waiting
                             /\ (runs[j].reply # "" => runs'[j].reply = runs[j].reply)
    <2>1. ASSUME NEW j \in DOMAIN runs, j # i
          PROVE  Stays(j) /\ runs'[j].waiting = runs[j].waiting
                 /\ (runs[j].reply # "" => runs'[j].reply = runs[j].reply)
        BY <1>1, <2>1 DEF Stays, SameRequest
    <2>2. SameRequest(i) /\ runs'[i].waiting = runs[i].waiting
        BY <1>0, <1>1 DEF ServesRequest, SameRequest
    <2>3. \/ runs'[i].called = runs[i].called
          \/ /\ ~WasCalled(i) /\ IsCallable(runs[i])
             /\ runs'[i].called = [at |-> Asked(runs[i]).at, args |-> Bound(runs[i]).args]
        BY <1>0, <1>1 DEF ServesRequest
    <2>4. runs'[i].reply = "refused" => runs[i].reply = "refused" \/ ~IsCallable(runs[i])
        BY <1>0, <1>1 DEF ServesReply
    <2>5. Stays(i)
        BY <2>2, <2>3, <2>4 DEF Stays
    <2> QED BY <1>4, <2>1, <2>2, <2>5
<1>6. Grows /\ Unseen
    BY <1>1, <1>2, <1>5 DEF Grows, Unseen, Stays
<1>7. AskedInv' /\ CalledInv' /\ PageInv' /\ WaitInv' /\ ShownInv'
    BY <1>1, <1>6, NothingAsked, UnseenKeeps
<1>8. ServerInv'
    <2>1. KeepsHistory' = KeepsHistory
        BY <1>2 DEF KeepsHistory
    <2>2. ASSUME NEW j \in DOMAIN runs, j # i PROVE ServerOK(j, runs[j])'
        <3>1. ServerOK(j, runs[j])
            BY DEF Inv, ServerInv
        <3>2. runs'[j] = runs[j] /\ files.traces \subseteq files'.traces
            BY <1>0, <1>1, <2>2 DEF ServesHistory
        <3> QED BY <2>1, <3>1, <3>2 DEF ServerOK, Traced
    <2>3. ServerOK(i, runs[i])'
        BY <1>0, <1>1, <2>1 DEF ServerOK, ServesReply, Traced
    <2> QED BY <1>1, <2>2, <2>3 DEF ServerInv
<1>9. TracesInv'
    <2>1. Traces \subseteq Traces'
        BY <1>6, TracesGrow
    <2>2. r.called.at # "" => i \in Traces'
        BY <1>1 DEF Traces, IsTrace, WasCalled
    <2>3. completed' \in Seq(Traces')
        <3> DEFINE T == Traces'
                   U == Traces \cup {i}
        <3>1. Traces \subseteq T /\ (r.called.at # "" => U \subseteq T)
            BY <2>1, <2>2
        <3>2. completed' \in Seq(Traces) \/ (completed' \in Seq(U) /\ r.called.at # "")
            BY <1>0 DEF ServesHistory
        <3> HIDE DEF T, U
        <3>3. Seq(Traces) \subseteq Seq(T)
            BY <3>1, SeqsWithin
        <3>4. r.called.at # "" => Seq(U) \subseteq Seq(T)
            BY <3>1, SeqsWithin
        <3>5. completed' \in Seq(T)
            BY <3>2, <3>3, <3>4
        <3> QED BY <3>5 DEF T
    <2>4. waterfall'.traces \subseteq Traces'
        BY <1>2, <2>1 DEF Inv, TracesInv
    <2> QED BY <2>3, <2>4 DEF TracesInv
<1>3. TypeOK'
    <2>2. /\ app' \in DOMAIN Apps
          /\ page' \in [name : {"navigator", "trace"}, nth : Nat, selected : Inspected'.targets \cup {NoTarget}]
          /\ DOMAIN drawer' = Inspected'.targets /\ \A t \in Inspected'.targets : DrawerOK(drawer'[t])
          /\ WaterfallOK(waterfall')
        BY <1>2 DEF Inv, TypeOK
    <2>3. files' \in [traces : SUBSET Nat, index : Seq(Nat)]
        BY <1>0 DEF ServesHistory
    <2>4. runs' \in Seq({runs'[j] : j \in DOMAIN runs'}) /\ \A j \in DOMAIN runs' : RunOK(runs'[j])
        BY <1>1
    <2>5. completed' \in Seq(Nat)
        <3> DEFINE U == Traces \cup {i}
        <3>1. Traces \subseteq Nat /\ U \subseteq Nat
            BY TracesAreRuns DEF Inv
        <3>2. completed' \in Seq(Traces) \/ completed' \in Seq(U)
            BY <1>0 DEF ServesHistory
        <3> HIDE DEF U
        <3>3. Seq(Traces) \subseteq Seq(Nat)
            BY <3>1, SeqsWithin
        <3>4. Seq(U) \subseteq Seq(Nat)
            BY <3>1, SeqsWithin
        <3> QED BY <3>2, <3>3, <3>4
    <2> QED BY <2>2, <2>3, <2>4, <2>5 DEF TypeOK
<1> QED BY <1>3, <1>7, <1>8, <1>9 DEF Inv

(* What a step that keeps the history and the files leaves.                 *)
LEMMA HistoryStands ==
    ASSUME Inv, UNCHANGED <<completed, files>>, NEW i, NEW r
    PROVE  ServesHistory(i, r)
BY DEF ServesHistory, Inv, TracesInv, TypeOK

-----------------------------------------------------------------------------
(* The route                                                                *)

(* A run is answered.                                                       *)
LEMMA ReplyStep ==
    ASSUME Inv, NEW i \in DOMAIN runs, NEW from \in Underway, NEW reply \in {"refused", "ok", "threw", "failed"},
           Reply(i, from, reply), UNCHANGED <<app, serverVars, viewerVars>>,
           reply = "refused" => ~IsCallable(runs[i]),
           reply \in {"ok", "threw"} => from = "ready"
    PROVE  Inv'
<1> DEFINE run == runs[i]
           r == [run EXCEPT !.at = "answered", !.reply = reply]
<1>1. RunOK(run) /\ ServerOK(i, run) /\ run.at = from
    BY RunsAreSeq DEF Inv, ServerInv, Reply
<1>2. UNCHANGED <<app, page, drawer, waterfall>> /\ completed' = completed /\ files' = files
    BY DEF serverVars, viewerVars
<1>3. runs' = [runs EXCEPT ![i] = r]
    BY DEF Reply
<1>4. DOMAIN run = RunFields
    BY <1>1 DEF RunOK
<1>5. /\ DOMAIN r = RunFields /\ r.at = "answered" /\ r.called = run.called
      /\ r.from = run.from /\ r.nth = run.nth /\ r.target = run.target /\ r.method = run.method
      /\ r.asked = run.asked /\ r.body = run.body /\ r.key = run.key /\ r.waiting = run.waiting
      /\ r.reply = reply /\ r.outcome = run.outcome /\ r.listing = run.listing
    BY <1>4 DEF RunFields
<1> HIDE DEF r
<1>6. RunOK(r)
    BY <1>1, <1>5 DEF RunOK
<1>7. Traced(reply) => run.called.at # "" /\ (KeepsHistory => i \in files.traces)
    BY <1>1 DEF ServerOK, Traced, HasRun
<1>8. r.at \notin HasRun \cup {"sent"}
    BY <1>5 DEF HasRun
<1>9. run.at # "answered"
    BY <1>1 DEF Underway
<1>10. /\ r.reply = "refused" => ~IsCallable(runs[i])
       /\ r.at = "sent" => r.called.at = ""
       /\ r.at \in HasRun \/ Traced(r.reply) => r.called.at # ""
       /\ r.reply # "" => r.at = "answered"
       /\ r.at \in HasRun \ {"running"} => Traced(r.outcome)
       /\ KeepsHistory /\ (r.at \in {"filed", "ready"} \/ Traced(r.reply)) => i \in files'.traces
    BY <1>2, <1>5, <1>7, <1>8
<1>12. ServesRequest(i, r)
    BY <1>1, <1>2, <1>3, <1>5, <1>6, <1>9 DEF ServesRequest
<1>14. ServesReply(i, r)
    BY <1>10 DEF ServesReply
<1>15. ServesHistory(i, r)
    BY <1>2, HistoryStands
<1> QED BY <1>12, <1>14, <1>15, ServeOne DEF ServesOne

LEMMA ReceiveStep ==
    ASSUME Inv, NEW i \in DOMAIN runs, Receive(i)
    PROVE  Inv'
<1> DEFINE run == runs[i]
           member == Asked(run)
<1>1. RunOK(run) /\ ServerOK(i, run) /\ run.at = "sent" /\ app \in DOMAIN Apps /\ AskedOK(i)
    BY RunsAreSeq DEF Inv, ServerInv, AskedInv, TypeOK, Receive
<1>2. /\ UNCHANGED <<app, page, drawer, waterfall, completed, files>>
    BY DEF Receive, serverVars, viewerVars
<1>3. CASE IsCallable(run)
    <2> DEFINE called == [at |-> member.at, args |-> Bound(run).args]
               r == [run EXCEPT !.at = "running", !.called = called]
    <2>1. runs' = [runs EXCEPT ![i] = r]
        <3>1. TargetAsked(run) = {run.target}
            BY <1>3 DEF IsCallable, TargetAsked
        <3>2. /\ Asked(run) = Resolve(IsStrict, run.target, Inspected.members[run.target], run.method)
              /\ Bound(run) = ResolveArgs(run.body, ParameterCount(Asked(run).params))
              /\ Asked(run) # None /\ Bound(run).ok
            BY <1>3 DEF Asked, Bound, IsCallable
        <3>3. runs' = [runs EXCEPT ![i].at = "running", ![i].called = called]
            BY <3>1, <3>2 DEF Receive
        <3> QED BY <3>3
    <2>2. member.at # ""
        BY <1>1, <1>3, AskedIs
    <2>3. called.at = member.at
        OBVIOUS
    <2> HIDE DEF called
    <2>4. DOMAIN run = RunFields
        BY <1>1 DEF RunOK
    <2>5. /\ DOMAIN r = RunFields /\ r.at = "running" /\ r.called = called
          /\ r.from = run.from /\ r.nth = run.nth /\ r.target = run.target /\ r.method = run.method
          /\ r.asked = run.asked /\ r.body = run.body /\ r.key = run.key /\ r.waiting = run.waiting
          /\ r.reply = run.reply /\ r.outcome = run.outcome /\ r.listing = run.listing
        BY <2>4 DEF RunFields
    <2> HIDE DEF r
    <2>6. RunOK(r)
        BY <1>1, <2>5 DEF RunOK, Underway
    <2>7. run.reply = "" /\ run.called.at = ""
        BY <1>1 DEF ServerOK
    <2>8. ServesRequest(i, r)
        BY <1>1, <1>2, <1>3, <2>1, <2>5, <2>6, <2>7 DEF ServesRequest, WasCalled, called
    <2>9. ServesReply(i, r)
        BY <1>2, <2>2, <2>3, <2>5, <2>7 DEF ServesReply, HasRun, Traced
    <2>10. ServesHistory(i, r)
        BY <1>2, HistoryStands
    <2> QED BY <2>8, <2>9, <2>10, ServeOne DEF ServesOne
<1>4. CASE ~IsCallable(run)
    <2>1. Asked(run) = Resolve(IsStrict, run.target, Inspected.members[run.target], run.method)
        BY DEF Asked
    <2>2. Bound(run) = ResolveArgs(run.body, ParameterCount(Asked(run).params))
        BY DEF Bound
    <2>3. Reply(i, "sent", "refused")
        BY <1>4, <2>1, <2>2 DEF Receive, IsCallable, TargetAsked
    <2>4. UNCHANGED <<app, serverVars, viewerVars>>
        BY DEF Receive
    <2> QED BY <1>4, <2>3, <2>4, ReplyStep DEF Underway
<1> QED BY <1>3, <1>4

LEMMA KeptIs ==
    ASSUME NEW S, NEW s \in Seq(S)
    PROVE  Kept(s) \in Seq(S)
<1> DEFINE x == Len(s) - MaxCompleted + 1
           T == {1, x}
<1>1. Len(s) \in Nat /\ x \in Int
    BY MaxCompletedAssumption
<1> DEFINE m == IF x > 1 THEN x ELSE 1
<1>2. m \in T /\ \A n \in T : n \in Int /\ n <= m
    BY <1>1
<1>3. Max(T) = m
    <2> HIDE DEF T, m
    <2>1. \A y \in T : (\A z \in T : y >= z) => y = m
        BY <1>2, SMT
    <2>2. m \in T /\ \A z \in T : m >= z
        BY <1>2, SMT
    <2> QED BY <2>1, <2>2 DEF Max
<1>4. Kept(s) = SubSeq(s, m, Len(s))
    BY <1>3 DEF Kept
<1>5. m \in Nat \ {0}
    BY <1>1
<1> HIDE DEF m
<1>6. SubSeq(s, m, Len(s)) \in Seq(S)
    BY <1>1, <1>5, SMT
<1> QED BY <1>4, <1>6

(* A run's request is worked on, once its member is called.                 *)
LEMMA WorkStep ==
    ASSUME Inv, NEW i \in DOMAIN runs, runs[i].at \in HasRun,
           NEW at \in HasRun \ {"running"}, NEW outcome \in {"ok", "threw"}, NEW listing \in Seq(Nat),
           runs' = [runs EXCEPT ![i] = [runs[i] EXCEPT !.at = at, !.outcome = outcome, !.listing = listing]],
           UNCHANGED <<app, viewerVars>>,
           completed' \in Seq(Traces \cup {i}),
           files' \in [traces : SUBSET Nat, index : Seq(Nat)], files.traces \subseteq files'.traces,
           KeepsHistory /\ at \in {"filed", "ready"} => i \in files'.traces
    PROVE  Inv'
<1> DEFINE run == runs[i]
           r == [run EXCEPT !.at = at, !.outcome = outcome, !.listing = listing]
<1>1. RunOK(run) /\ ServerOK(i, run)
    BY RunsAreSeq DEF Inv, ServerInv
<1>2. UNCHANGED <<app, page, drawer, waterfall>>
    BY DEF viewerVars
<1>3. runs' = [runs EXCEPT ![i] = r]
    OBVIOUS
<1>4. DOMAIN run = RunFields
    BY <1>1 DEF RunOK
<1>5. /\ DOMAIN r = RunFields /\ r.at = at /\ r.called = run.called
      /\ r.from = run.from /\ r.nth = run.nth /\ r.target = run.target /\ r.method = run.method
      /\ r.asked = run.asked /\ r.body = run.body /\ r.key = run.key /\ r.waiting = run.waiting
      /\ r.reply = run.reply /\ r.outcome = outcome /\ r.listing = listing
    BY <1>4 DEF RunFields
<1> HIDE DEF r
<1>6. RunOK(r)
    BY <1>1, <1>5 DEF RunOK, Underway, HasRun
<1>7. run.called.at # "" /\ run.reply = "" /\ run.at # "answered"
    BY <1>1 DEF ServerOK, HasRun
<1>8. ServesRequest(i, r)
    BY <1>1, <1>2, <1>3, <1>5, <1>6, <1>7 DEF ServesRequest
<1>9. ServesReply(i, r)
    BY <1>5, <1>7 DEF ServesReply, HasRun, Traced
<1>10. ServesHistory(i, r)
    BY <1>5, <1>7 DEF ServesHistory
<1> QED BY <1>8, <1>9, <1>10, ServeOne DEF ServesOne

LEMMA MethodEndsStep ==
    ASSUME Inv, NEW i \in DOMAIN runs, MethodEnds(i)
    PROVE  Inv'
<1> DEFINE run == runs[i]
           U == Traces \cup {i}
<1>1. RunOK(run) /\ run.at = "running"
    BY RunsAreSeq DEF Inv, MethodEnds
<1>2. DOMAIN run = RunFields /\ run.listing \in Seq(Nat)
    BY <1>1 DEF RunOK
<1>3. PICK outcome \in {"ok", "threw"} : runs' = [runs EXCEPT ![i].at = "done", ![i].outcome = outcome]
    BY DEF MethodEnds
<1>4. runs' = [runs EXCEPT ![i] = [run EXCEPT !.at = "done", !.outcome = outcome, !.listing = run.listing]]
    <2>1. [run EXCEPT !.at = "done", !.outcome = outcome]
              = [run EXCEPT !.at = "done", !.outcome = outcome, !.listing = run.listing]
        BY <1>2 DEF RunFields
    <2> QED BY <1>3, <2>1
<1>5. completed' \in Seq(U)
    <2>1. Traces \subseteq U /\ i \in U
        OBVIOUS
    <2>2. completed \in Seq(Traces) /\ completed' = Kept(Append(completed, i))
        BY DEF Inv, TracesInv, MethodEnds
    <2> HIDE DEF U
    <2>3. completed \in Seq(U)
        BY <2>1, <2>2, SeqsWithin
    <2>4. Append(completed, i) \in Seq(U)
        BY <2>1, <2>3, SMT
    <2> QED BY <2>2, <2>4, KeptIs
<1>6. files' \in [traces : SUBSET Nat, index : Seq(Nat)] /\ files.traces \subseteq files'.traces
    BY DEF Inv, TypeOK, MethodEnds
<1>7. UNCHANGED <<app, viewerVars>>
    BY DEF MethodEnds
<1>8. run.at \in HasRun /\ "done" \in HasRun \ {"running"} /\ "done" \notin {"filed", "ready"}
    BY <1>1 DEF HasRun
<1> QED BY <1>2, <1>4, <1>5, <1>6, <1>7, <1>8, WorkStep

(* The steps in which only how far a run is changes, or what it listed.     *)
LEMMA ProgressStep ==
    ASSUME Inv, NEW i \in DOMAIN runs, runs[i].at \in HasRun \ {"running"},
           NEW at \in HasRun \ {"running"}, NEW listing \in Seq(Nat),
           runs' = [runs EXCEPT ![i] = [runs[i] EXCEPT !.at = at, !.listing = listing]],
           UNCHANGED <<app, completed, viewerVars>>,
           files' \in [traces : SUBSET Nat, index : Seq(Nat)], files.traces \subseteq files'.traces,
           KeepsHistory /\ at \in {"filed", "ready"} => i \in files'.traces
    PROVE  Inv'
<1> DEFINE run == runs[i]
           U == Traces \cup {i}
<1>1. RunOK(run) /\ ServerOK(i, run)
    BY RunsAreSeq DEF Inv, ServerInv
<1>2. DOMAIN run = RunFields /\ run.outcome \in {"ok", "threw"}
    BY <1>1 DEF RunOK, ServerOK, Traced
<1>3. runs' = [runs EXCEPT ![i] = [run EXCEPT !.at = at, !.outcome = run.outcome, !.listing = listing]]
    <2>1. [run EXCEPT !.at = at, !.listing = listing]
              = [run EXCEPT !.at = at, !.outcome = run.outcome, !.listing = listing]
        BY <1>2 DEF RunFields
    <2> QED BY <2>1
<1>4. completed' \in Seq(U)
    <2>1. Traces \subseteq U
        OBVIOUS
    <2>2. completed' \in Seq(Traces)
        BY DEF Inv, TracesInv
    <2> HIDE DEF U
    <2> QED BY <2>1, <2>2, SeqsWithin
<1>5. UNCHANGED <<app, viewerVars>>
    OBVIOUS
<1> QED BY <1>2, <1>3, <1>4, <1>5, WorkStep

LEMMA FilesAre ==
    ASSUME Inv
    PROVE  /\ files \in [traces : SUBSET Nat, index : Seq(Nat)] /\ completed \in Seq(Nat)
           /\ files.traces \in SUBSET Nat /\ files.index \in Seq(Nat)
BY DEF Inv, TypeOK

LEMMA ListHistoryStep ==
    ASSUME Inv, NEW i \in DOMAIN runs, ListHistory(i)
    PROVE  Inv'
<1> DEFINE run == runs[i]
<1>1. RunOK(run) /\ run.at = "done" /\ UNCHANGED <<app, completed, viewerVars>> /\ files' = files
    BY RunsAreSeq DEF Inv, ListHistory, Step, serverVars
<1>2. DOMAIN run = RunFields /\ run.listing \in Seq(Nat)
    BY <1>1 DEF RunOK
<1>3. /\ files' \in [traces : SUBSET Nat, index : Seq(Nat)] /\ files.traces \subseteq files'.traces
      /\ completed \in Seq(Nat)
    BY <1>1, FilesAre
<1>4. run.at \in HasRun \ {"running"} /\ {"listed", "ready"} \subseteq HasRun \ {"running"}
    BY <1>1 DEF HasRun
<1>5. CASE KeepsHistory
    <2>1. runs' = [runs EXCEPT ![i].at = "listed", ![i].listing = completed]
        BY <1>5 DEF ListHistory
    <2>2. runs' = [runs EXCEPT ![i] = [run EXCEPT !.at = "listed", !.listing = completed]]
        BY <2>1
    <2> QED BY <1>1, <1>3, <1>4, <2>2, ProgressStep
<1>6. CASE ~KeepsHistory
    <2>1. runs' = [runs EXCEPT ![i].at = "ready"]
        BY <1>6 DEF ListHistory, Step
    <2>2. [run EXCEPT !.at = "ready"] = [run EXCEPT !.at = "ready", !.listing = run.listing]
        BY <1>2 DEF RunFields
    <2>3. runs' = [runs EXCEPT ![i] = [run EXCEPT !.at = "ready", !.listing = run.listing]]
        BY <2>1, <2>2
    <2> QED BY <1>1, <1>2, <1>3, <1>4, <1>6, <2>3, ProgressStep
<1> QED BY <1>5, <1>6

LEMMA WriteTraceFileStep ==
    ASSUME Inv, NEW i \in DOMAIN runs, WriteTraceFile(i)
    PROVE  Inv'
<1> DEFINE run == runs[i]
<1>1. RunOK(run) /\ run.at = "listed" /\ UNCHANGED <<app, completed, viewerVars>>
    BY RunsAreSeq DEF Inv, WriteTraceFile, Step
<1>2. DOMAIN run = RunFields /\ run.listing \in Seq(Nat)
    BY <1>1 DEF RunOK
<1>3. files' = [files EXCEPT !.traces = @ \cup {i}] /\ i \in Nat
    BY TracesAreRuns DEF Inv, WriteTraceFile
<1>4. /\ files' \in [traces : SUBSET Nat, index : Seq(Nat)] /\ files.traces \subseteq files'.traces
      /\ i \in files'.traces
    BY <1>3, FilesAre
<1>5. run.at \in HasRun \ {"running"} /\ "filed" \in HasRun \ {"running"}
    BY <1>1 DEF HasRun
<1>6. runs' = [runs EXCEPT ![i].at = "filed"]
    BY DEF WriteTraceFile, Step
<1>7. [run EXCEPT !.at = "filed"] = [run EXCEPT !.at = "filed", !.listing = run.listing]
    BY <1>2 DEF RunFields
<1>8. runs' = [runs EXCEPT ![i] = [run EXCEPT !.at = "filed", !.listing = run.listing]]
    BY <1>6, <1>7
<1> QED BY <1>1, <1>2, <1>4, <1>5, <1>8, ProgressStep

LEMMA WriteIndexFileStep ==
    ASSUME Inv, NEW i \in DOMAIN runs, WriteIndexFile(i)
    PROVE  Inv'
<1> DEFINE run == runs[i]
<1>1. RunOK(run) /\ ServerOK(i, run) /\ run.at = "filed" /\ UNCHANGED <<app, completed, viewerVars>>
    BY RunsAreSeq DEF Inv, ServerInv, WriteIndexFile, Step
<1>2. DOMAIN run = RunFields /\ run.listing \in Seq(Nat)
    BY <1>1 DEF RunOK
<1>3. files' = [files EXCEPT !.index = run.listing]
    BY DEF WriteIndexFile
<1>4. files' \in [traces : SUBSET Nat, index : Seq(Nat)] /\ files'.traces = files.traces
    BY <1>2, <1>3, FilesAre
<1>5. run.at \in HasRun \ {"running"} /\ "ready" \in HasRun \ {"running"}
    BY <1>1 DEF HasRun
<1>6. KeepsHistory => i \in files.traces
    BY <1>1 DEF ServerOK
<1>7. runs' = [runs EXCEPT ![i].at = "ready"]
    BY DEF WriteIndexFile, Step
<1>8. [run EXCEPT !.at = "ready"] = [run EXCEPT !.at = "ready", !.listing = run.listing]
    BY <1>2 DEF RunFields
<1>9. runs' = [runs EXCEPT ![i] = [run EXCEPT !.at = "ready", !.listing = run.listing]]
    BY <1>7, <1>8
<1> QED BY <1>1, <1>2, <1>4, <1>5, <1>6, <1>9, ProgressStep

LEMMA WriteFailsStep ==
    ASSUME Inv, NEW i \in DOMAIN runs, WriteFails(i)
    PROVE  Inv'
<1>1. PICK at \in {"listed", "filed"} : Reply(i, at, "failed")
    BY DEF WriteFails
<1>2. UNCHANGED <<app, serverVars, viewerVars>>
    BY DEF WriteFails
<1>3. at \in Underway
    BY DEF Underway
<1> QED BY <1>1, <1>2, <1>3, ReplyStep

LEMMA AnswerStep ==
    ASSUME Inv, NEW i \in DOMAIN runs, Answer(i)
    PROVE  Inv'
<1>1. Reply(i, "ready", runs[i].outcome) /\ runs[i].at = "ready"
    BY DEF Answer, Reply
<1>2. UNCHANGED <<app, serverVars, viewerVars>>
    BY DEF Answer
<1>3. "ready" \in Underway
    BY DEF Underway
<1>4. runs[i].outcome \in {"ok", "threw"}
    BY <1>1 DEF Inv, ServerInv, ServerOK, HasRun, Traced
<1> QED BY <1>1, <1>2, <1>3, <1>4, ReplyStep

LEMMA UnsendableStep ==
    ASSUME Inv, NEW i \in DOMAIN runs, Unsendable(i)
    PROVE  Inv'
<1>1. Reply(i, "ready", "failed") /\ UNCHANGED <<app, serverVars, viewerVars>>
    BY DEF Unsendable
<1>2. "ready" \in Underway
    BY DEF Underway
<1> QED BY <1>1, <1>2, ReplyStep

LEMMA ServeStep ==
    ASSUME Inv, NEW i \in DOMAIN runs, Serve(i) \/ WriteFails(i) \/ Unsendable(i)
    PROVE  Inv'
BY ReceiveStep, MethodEndsStep, ListHistoryStep, WriteTraceFileStep, WriteIndexFileStep, AnswerStep,
   WriteFailsStep, UnsendableStep DEF Serve

(* A restart answers no run, and forgets only what memory kept.             *)
LEMMA RestartStep ==
    ASSUME Inv, Restart
    PROVE  Inv'
<1> DEFINE lost(i) == [runs[i] EXCEPT !.at = "answered", !.reply = "lost"]
<1>1. /\ runs' = [i \in DOMAIN runs |-> IF runs[i].at \in Underway THEN lost(i) ELSE runs[i]]
      /\ completed' = <<>> /\ files' = files
      /\ app' = app /\ page' = page /\ drawer' = drawer /\ waterfall' = waterfall /\ Inspected' = Inspected
    BY DEF Restart, viewerVars, Inspected
<1>2. ASSUME NEW i \in DOMAIN runs
      PROVE  /\ RunOK(runs'[i]) /\ SameRequest(i) /\ runs'[i].waiting = runs[i].waiting
             /\ runs'[i].called = runs[i].called /\ runs'[i].outcome = runs[i].outcome
             /\ runs'[i] = runs[i] \/ (runs'[i].at = "answered" /\ runs'[i].reply = "lost" /\ runs[i].reply = "")
    <2>1. CASE runs[i].at \in Underway
        <3> DEFINE run == runs[i]
                   r == lost(i)
        <3>1. RunOK(run) /\ ServerOK(i, run)
            BY RunsAreSeq DEF Inv, ServerInv
        <3>2. DOMAIN run = RunFields
            BY <3>1 DEF RunOK
        <3>3. /\ DOMAIN r = RunFields /\ r.at = "answered" /\ r.called = run.called
              /\ r.from = run.from /\ r.nth = run.nth /\ r.target = run.target /\ r.method = run.method
              /\ r.asked = run.asked /\ r.body = run.body /\ r.key = run.key /\ r.waiting = run.waiting
              /\ r.reply = "lost" /\ r.outcome = run.outcome /\ r.listing = run.listing
            BY <3>2 DEF RunFields
        <3>4. runs'[i] = r
            BY <1>1, <2>1
        <3> HIDE DEF r
        <3>5. RunOK(r)
            BY <3>1, <3>3 DEF RunOK
        <3>6. run.reply = ""
            BY <2>1, <3>1 DEF ServerOK, Underway
        <3> QED BY <3>3, <3>4, <3>5, <3>6 DEF SameRequest
    <2>2. CASE runs[i].at \notin Underway
        <3>1. runs'[i] = runs[i]
            BY <1>1, <2>2
        <3> QED BY <3>1, RunsAreSeq DEF SameRequest, Inv
    <2> QED BY <2>1, <2>2
<1>3. DOMAIN runs' = DOMAIN runs
    BY <1>1
<1>4. \A i \in DOMAIN runs : Stays(i) /\ (runs[i].reply # "" => runs'[i].reply = runs[i].reply)
    BY <1>2 DEF Stays
<1>5. Grows /\ Unseen
    BY <1>1, <1>2, <1>3, <1>4 DEF Grows, Unseen
<1>6. AskedInv' /\ CalledInv' /\ PageInv' /\ WaitInv' /\ ShownInv'
    BY <1>3, <1>5, NothingAsked, UnseenKeeps
<1>7. ServerInv'
    <2>1. KeepsHistory' = KeepsHistory
        BY <1>1 DEF KeepsHistory
    <2>2. ASSUME NEW i \in DOMAIN runs PROVE ServerOK(i, runs[i])'
        <3>1. ServerOK(i, runs[i])
            BY DEF Inv, ServerInv
        <3>2. CASE runs'[i] = runs[i]
            BY <1>1, <2>1, <3>1, <3>2 DEF ServerOK, Traced
        <3>3. CASE runs'[i].at = "answered" /\ runs'[i].reply = "lost"
            BY <3>3 DEF ServerOK, Traced, HasRun
        <3> QED BY <1>2, <3>2, <3>3
    <2> QED BY <1>3, <2>2 DEF ServerInv
<1>8. TracesInv'
    <2>1. Traces \subseteq Traces'
        BY <1>5, TracesGrow
    <2>2. waterfall'.traces \subseteq Traces'
        BY <1>1, <2>1 DEF Inv, TracesInv
    <2>3. completed' \in Seq(Traces')
        <3> DEFINE T == Traces'
        <3> HIDE DEF T
        <3>1. <<>> \in Seq(T)
            BY SMT
        <3> QED BY <1>1, <3>1 DEF T
    <2> QED BY <2>2, <2>3 DEF TracesInv
<1>9. TypeOK'
    <2>1. /\ app' \in DOMAIN Apps
          /\ page' \in [name : {"navigator", "trace"}, nth : Nat, selected : Inspected'.targets \cup {NoTarget}]
          /\ DOMAIN drawer' = Inspected'.targets /\ \A t \in Inspected'.targets : DrawerOK(drawer'[t])
          /\ WaterfallOK(waterfall')
        BY <1>1 DEF Inv, TypeOK
    <2>2. files' \in [traces : SUBSET Nat, index : Seq(Nat)] /\ completed' \in Seq(Nat)
        <3>1. <<>> \in Seq(Nat)
            BY SMT
        <3> QED BY <1>1, <3>1, FilesAre
    <2>3. runs' \in Seq({runs'[j] : j \in DOMAIN runs'}) /\ \A j \in DOMAIN runs' : RunOK(runs'[j])
        <3>1. Len(runs) \in Nat /\ DOMAIN runs' = 1..Len(runs) /\ runs' = [j \in 1..Len(runs) |-> runs'[j]]
            BY <1>1, RunsAreSeq DEF Inv
        <3> DEFINE f == runs'
                   n == Len(runs)
        <3>2. n \in Nat /\ f = [j \in 1..n |-> f[j]] /\ DOMAIN f = 1..n
            BY <3>1
        <3> HIDE DEF f, n
        <3>3. f \in Seq({f[j] : j \in DOMAIN f})
            <4> DEFINE T == {f[j] : j \in DOMAIN f}
            <4>1. \A j \in 1..n : f[j] \in T
                BY <3>2
            <4> HIDE DEF T
            <4>2. f \in Seq(T)
                BY <3>2, <4>1, SMT
            <4> QED BY <4>2 DEF T
        <3> QED BY <1>2, <1>3, <3>3 DEF f
    <2> QED BY <2>1, <2>2, <2>3 DEF TypeOK
<1> QED BY <1>6, <1>7, <1>8, <1>9 DEF Inv

-----------------------------------------------------------------------------
(* Both pages                                                               *)

(* What the server kept stays right when only requests or pages change.     *)
ServerStands ==
    /\ app' = app /\ completed' = completed /\ files' = files
    /\ runs' \in Seq({runs'[i] : i \in DOMAIN runs'}) /\ \A i \in DOMAIN runs' : RunOK(runs'[i])
    /\ Traces \subseteq Traces' /\ ServerInv' /\ AskedInv' /\ CalledInv'

LEMMA PageStep ==
    ASSUME Inv, ServerStands,
           page' \in [name : {"navigator", "trace"}, nth : Nat, selected : Inspected.targets \cup {NoTarget}],
           DOMAIN drawer' = Inspected.targets, \A t \in Inspected.targets : DrawerOK(drawer'[t]),
           WaterfallOK(waterfall'), waterfall'.traces \subseteq Traces',
           PageInv', WaitInv', ShownInv'
    PROVE  Inv'
<1>1. app' = app /\ completed' = completed /\ files' = files /\ Inspected' = Inspected
    BY DEF ServerStands, Inspected
<1>2. TypeOK'
    <2>1. app' \in DOMAIN Apps /\ completed' \in Seq(Nat) /\ files' \in [traces : SUBSET Nat, index : Seq(Nat)]
        BY <1>1 DEF Inv, TypeOK
    <2>2. runs' \in Seq({runs'[i] : i \in DOMAIN runs'}) /\ \A i \in DOMAIN runs' : RunOK(runs'[i])
        BY DEF ServerStands
    <2> QED BY <1>1, <2>1, <2>2 DEF TypeOK
<1>3. TracesInv'
    <2> DEFINE T == Traces'
    <2>1. Traces \subseteq T /\ completed \in Seq(Traces)
        BY DEF Inv, TracesInv, ServerStands
    <2> HIDE DEF T
    <2>2. completed \in Seq(T)
        BY <2>1, SeqsWithin
    <2> QED BY <1>1, <2>2 DEF TracesInv, T
<1> QED BY <1>2, <1>3 DEF Inv, ServerStands

(* No request changes.                                                      *)
LEMMA RunsStand ==
    ASSUME Inv, UNCHANGED <<app, runs, serverVars>>
    PROVE  ServerStands
<1>1. app' = app /\ runs' = runs /\ completed' = completed /\ files' = files /\ Inspected' = Inspected
    BY DEF serverVars, Inspected
<1>2. runs' \in Seq({runs'[i] : i \in DOMAIN runs'}) /\ \A i \in DOMAIN runs' : RunOK(runs'[i])
    BY <1>1 DEF Inv, TypeOK
<1>3. Grows
    BY <1>1 DEF Grows, Stays, SameRequest
<1>4. Traces \subseteq Traces' /\ AskedInv' /\ CalledInv'
    BY <1>1, <1>3, TracesGrow, NothingAsked
<1>5. ServerInv'
    BY <1>1 DEF Inv, ServerInv, ServerOK, KeepsHistory, Traced
<1> QED BY <1>1, <1>2, <1>4, <1>5 DEF ServerStands

(* A request's promise settles.                                             *)
LEMMA SettledStands ==
    ASSUME Inv, NEW i \in DOMAIN runs, runs' = [runs EXCEPT ![i].waiting = FALSE],
           UNCHANGED <<app, serverVars>>
    PROVE  /\ ServerStands /\ DOMAIN runs' = DOMAIN runs
           /\ \A j \in DOMAIN runs : SameRequest(j) /\ runs'[j].reply = runs[j].reply
           /\ \A j \in DOMAIN runs : j # i => runs'[j].waiting = runs[j].waiting
           /\ ~runs'[i].waiting
<1> DEFINE run == runs[i]
           r == [run EXCEPT !.waiting = FALSE]
<1>1. app' = app /\ completed' = completed /\ files' = files /\ Inspected' = Inspected
    BY DEF serverVars, Inspected
<1>2. RunOK(run) /\ ServerOK(i, run)
    BY RunsAreSeq DEF Inv, ServerInv
<1>3. DOMAIN run = RunFields
    BY <1>2 DEF RunOK
<1>4. /\ DOMAIN r = RunFields /\ r.at = run.at /\ r.called = run.called
      /\ r.from = run.from /\ r.nth = run.nth /\ r.target = run.target /\ r.method = run.method
      /\ r.asked = run.asked /\ r.body = run.body /\ r.key = run.key /\ r.waiting = FALSE
      /\ r.reply = run.reply /\ r.outcome = run.outcome /\ r.listing = run.listing
    BY <1>3 DEF RunFields
<1>5. runs' = [runs EXCEPT ![i] = r]
    OBVIOUS
<1> HIDE DEF r
<1>6. RunOK(r)
    BY <1>2, <1>4 DEF RunOK
<1>7. /\ runs' \in Seq({runs'[j] : j \in DOMAIN runs'})
      /\ DOMAIN runs' = DOMAIN runs /\ runs'[i] = r
      /\ \A j \in DOMAIN runs : j # i => runs'[j] = runs[j]
      /\ \A j \in DOMAIN runs : RunOK(runs'[j])
    BY <1>5, <1>6, OneRun DEF Inv
<1>8. \A j \in DOMAIN runs : SameRequest(j) /\ runs'[j].reply = runs[j].reply /\ runs'[j].called = runs[j].called
    BY <1>4, <1>7 DEF SameRequest
<1>9. Grows
    BY <1>1, <1>7, <1>8 DEF Grows, Stays
<1>10. Traces \subseteq Traces' /\ AskedInv' /\ CalledInv'
    BY <1>7, <1>9, TracesGrow, NothingAsked
<1>11. ServerInv'
    <2>1. KeepsHistory' = KeepsHistory
        BY <1>1 DEF KeepsHistory
    <2>2. ASSUME NEW j \in DOMAIN runs PROVE ServerOK(j, runs[j])'
        <3>1. ServerOK(j, runs[j])
            BY DEF Inv, ServerInv
        <3>2. /\ runs'[j].at = runs[j].at /\ runs'[j].called = runs[j].called
              /\ runs'[j].reply = runs[j].reply /\ runs'[j].outcome = runs[j].outcome
            BY <1>4, <1>7
        <3> QED BY <1>1, <2>1, <3>1, <3>2 DEF ServerOK, Traced
    <2> QED BY <1>7, <2>2 DEF ServerInv
<1>12. ServerStands
    BY <1>1, <1>7, <1>10, <1>11 DEF ServerStands
<1>13. (\A j \in DOMAIN runs : j # i => runs'[j].waiting = runs[j].waiting) /\ ~runs'[i].waiting
    BY <1>4, <1>7
<1> QED BY <1>7, <1>8, <1>12, <1>13

(* Steps that the drawers do not see.                                       *)
LEMMA DrawersStand ==
    ASSUME Inv, app' = app, page'.name = page.name, page'.nth = page.nth,
           \A i \in DOMAIN runs' : runs'[i].nth <= page.nth,
           \A t \in Inspected.targets :
               /\ RunsOf(t)' = RunsOf(t)
               /\ \A i \in RunsOf(t) : runs'[i].waiting = runs[i].waiting /\ runs'[i].reply = runs[i].reply
               /\ drawer'[t].pending = drawer[t].pending /\ drawer'[t].snapshot = drawer[t].snapshot
               /\ drawer'[t].failed = drawer[t].failed
    PROVE  PageInv' /\ WaitInv' /\ ShownInv'
<1>1. Inspected' = Inspected
    BY DEF Inspected
<1>2. PageInv'
    BY <1>1 DEF Inv, PageInv
<1>3. WaitInv'
    BY <1>1 DEF Inv, WaitInv
<1>4. ShownInv'
    <2> SUFFICES ASSUME NEW t \in Inspected.targets
                 PROVE  /\ drawer[t].snapshot # 0 =>
                               /\ drawer[t].snapshot \in RunsOf(t) /\ ~runs'[drawer[t].snapshot].waiting
                               /\ runs'[drawer[t].snapshot].reply \in {"refused", "ok", "threw"}
                        /\ drawer[t].pending = 0 /\ ~drawer[t].failed => \A i \in RunsOf(t) : i <= drawer[t].snapshot
                        /\ drawer[t].failed =>
                               \E i \in RunsOf(t) : drawer[t].snapshot < i /\ \A j \in RunsOf(t) : j <= i
        BY <1>1 DEF ShownInv
    <2>1. /\ drawer[t].snapshot # 0 =>
                 /\ drawer[t].snapshot \in RunsOf(t) /\ ~runs[drawer[t].snapshot].waiting
                 /\ runs[drawer[t].snapshot].reply \in {"refused", "ok", "threw"}
          /\ drawer[t].pending = 0 /\ ~drawer[t].failed => \A i \in RunsOf(t) : i <= drawer[t].snapshot
          /\ drawer[t].failed =>
                 \E i \in RunsOf(t) : drawer[t].snapshot < i /\ \A j \in RunsOf(t) : j <= i
        BY DEF Inv, ShownInv
    <2> QED BY <2>1
<1> QED BY <1>2, <1>3, <1>4

LEMMA PageIs ==
    ASSUME Inv
    PROVE  /\ page.name \in {"navigator", "trace"} /\ page.nth \in Nat
           /\ page.selected \in Inspected.targets \cup {NoTarget}
           /\ DOMAIN page = {"name", "nth", "selected"}
           /\ page \in [name : {"navigator", "trace"}, nth : Nat, selected : Inspected.targets \cup {NoTarget}]
           /\ DOMAIN drawer = Inspected.targets /\ \A t \in Inspected.targets : DrawerOK(drawer[t])
           /\ WaterfallOK(waterfall) /\ waterfall.traces \subseteq Traces
           /\ \A i \in DOMAIN runs : runs[i].nth \in Nat /\ runs[i].nth <= page.nth
<1>1. page \in [name : {"navigator", "trace"}, nth : Nat, selected : Inspected.targets \cup {NoTarget}]
    BY DEF Inv, TypeOK
<1>2. /\ DOMAIN drawer = Inspected.targets /\ \A t \in Inspected.targets : DrawerOK(drawer[t])
      /\ WaterfallOK(waterfall) /\ waterfall.traces \subseteq Traces
    BY DEF Inv, TypeOK, TracesInv
<1>3. \A i \in DOMAIN runs : runs[i].nth \in Nat /\ runs[i].nth <= page.nth
    BY DEF Inv, TypeOK, RunOK, PageInv
<1> QED BY <1>1, <1>2, <1>3

(* A page that mounts anew has no runs of its own yet.                      *)
LEMMA MoveStep ==
    ASSUME Inv, ServerStands, DOMAIN runs' = DOMAIN runs,
           \A i \in DOMAIN runs : SameRequest(i),
           NEW name \in {"navigator", "trace"}, MoveTo(name)
    PROVE  Inv'
<1>1. /\ page' = [name |-> name, nth |-> page.nth + 1, selected |-> NoTarget]
      /\ drawer' = FreshDrawer /\ waterfall'.traces = {} /\ WaterfallOK(waterfall')
    BY DEF MoveTo, FreshPage, WaterfallOK
<1>2. page' \in [name : {"navigator", "trace"}, nth : Nat, selected : Inspected.targets \cup {NoTarget}]
    BY <1>1, PageIs
<1>3. /\ DOMAIN drawer' = Inspected.targets
      /\ \A t \in Inspected.targets :
             DrawerOK(drawer'[t]) /\ drawer'[t].pending = 0 /\ drawer'[t].snapshot = 0 /\ ~drawer'[t].failed
    BY <1>1 DEF FreshDrawer, DrawerOK
<1>4. \A i \in DOMAIN runs' : runs'[i].nth <= page'.nth /\ runs'[i].nth # page'.nth
    BY <1>1, PageIs DEF SameRequest
<1>5. \A t : RunsOf(t)' = {}
    BY <1>4 DEF RunsOf, IsHere
<1>6. Inspected' = Inspected
    BY DEF ServerStands, Inspected
<1>7. PageInv'
    BY <1>4, <1>5 DEF PageInv
<1>8. WaitInv'
    BY <1>3, <1>5, <1>6 DEF WaitInv
<1>9. ShownInv'
    BY <1>3, <1>5, <1>6 DEF ShownInv
<1> QED BY <1>1, <1>2, <1>3, <1>7, <1>8, <1>9, PageStep

LEMMA NavigateStep ==
    ASSUME Inv, Navigate
    PROVE  Inv'
<1>1. PICK name \in {"navigator", "trace"} : MoveTo(name)
    BY DEF Navigate
<1>2. UNCHANGED <<app, runs, serverVars>>
    BY DEF Navigate
<1>3. ServerStands
    BY <1>2, RunsStand
<1>4. DOMAIN runs' = DOMAIN runs /\ \A i \in DOMAIN runs : SameRequest(i)
    BY <1>2 DEF SameRequest
<1> QED BY <1>1, <1>3, <1>4, MoveStep

(* Steps of a page that ask for no run and settle none.                     *)
LEMMA LookStep ==
    ASSUME Inv, UNCHANGED <<app, runs, serverVars, drawer>>,
           page' \in [name : {"navigator", "trace"}, nth : Nat, selected : Inspected.targets \cup {NoTarget}],
           page'.name = page.name, page'.nth = page.nth,
           WaterfallOK(waterfall'), waterfall'.traces \subseteq Traces
    PROVE  Inv'
<1>1. ServerStands /\ app' = app /\ runs' = runs /\ drawer' = drawer
    BY RunsStand
<1>2. \A t : RunsOf(t)' = RunsOf(t)
    BY <1>1 DEF RunsOf, IsHere
<1>3. \A i \in DOMAIN runs' : runs'[i].nth <= page.nth
    BY <1>1, PageIs
<1>4. PageInv' /\ WaitInv' /\ ShownInv'
    BY <1>1, <1>2, <1>3, DrawersStand
<1>5. waterfall'.traces \subseteq Traces'
    BY <1>1 DEF ServerStands
<1> QED BY <1>1, <1>4, <1>5, PageIs, PageStep

LEMMA SelectTargetStep ==
    ASSUME Inv, SelectTarget
    PROVE  Inv'
<1>1. PICK t \in Inspected.targets : page' = [page EXCEPT !.selected = t]
    BY DEF SelectTarget
<1>2. UNCHANGED <<app, runs, serverVars, drawer>> /\ waterfall' = waterfall
    BY DEF SelectTarget
<1>3. /\ page' \in [name : {"navigator", "trace"}, nth : Nat, selected : Inspected.targets \cup {NoTarget}]
      /\ page'.name = page.name /\ page'.nth = page.nth
    BY <1>1, PageIs
<1> QED BY <1>2, <1>3, LookStep, PageIs

(* What a trace page adds to its traces are those the recorder keeps.       *)
LEMMA ServedIsKept ==
    ASSUME Inv, NEW i
    PROVE  HistoryTrace(i) \subseteq Traces
<1>1. completed \in Seq(Traces)
    BY DEF Inv, TracesInv
<1>2. ToSet(completed) = {completed[n] : n \in DOMAIN completed}
    BY DEF ToSet
<1>3. \A n \in DOMAIN completed : completed[n] \in Traces
    BY <1>1, SMT
<1> QED BY <1>2, <1>3 DEF HistoryTrace

LEMMA ActivateKeeps ==
    ASSUME NEW w, WaterfallOK(w), NEW i
    PROVE  WaterfallOK(Activate(w, i)) /\ Activate(w, i).traces = w.traces
BY DEF Activate, WaterfallOK

LEMMA WaterfallStep ==
    ASSUME Inv, ServeIndex \/ IndexFails \/ SelectTrace \/ FoldRows \/ \E i \in waterfall.loading : ServeTrace(i)
    PROVE  Inv'
<1>1. UNCHANGED <<app, runs, serverVars, drawer>> /\ page' = page
    BY DEF ServeIndex, IndexFails, SelectTrace, FoldRows, ServeTrace
<1>2. WaterfallOK(waterfall) /\ waterfall.traces \subseteq Traces
    BY PageIs
<1>3. WaterfallOK(waterfall') /\ waterfall'.traces \subseteq Traces
    <2>1. CASE ServeIndex
        <3> DEFINE listed == [waterfall EXCEPT !.asked = "served", !.index = Reverse(HistoryIndex), !.failed = FALSE]
        <3>1. WaterfallOK(listed) /\ listed.traces = waterfall.traces
            BY <1>2 DEF WaterfallOK
        <3>2. waterfall' = listed \/ waterfall' = Activate(listed, Head(listed.index))
            BY <2>1 DEF ServeIndex
        <3> HIDE DEF listed
        <3> QED BY <1>2, <3>1, <3>2, ActivateKeeps
    <2>2. CASE IndexFails
        BY <1>2, <2>2 DEF IndexFails, WaterfallOK
    <2>3. CASE SelectTrace
        <3>1. PICK i : waterfall' = Activate(waterfall, i)
            BY <2>3 DEF SelectTrace
        <3> QED BY <1>2, <3>1, ActivateKeeps
    <2>4. CASE FoldRows
        <3>1. PICK ids : waterfall' = [waterfall EXCEPT !.folded = ids]
            BY <2>4 DEF FoldRows
        <3> QED BY <1>2, <3>1 DEF WaterfallOK
    <2>5. CASE \E i \in waterfall.loading : ServeTrace(i)
        <3>1. PICK i \in waterfall.loading : ServeTrace(i)
            BY <2>5
        <3>2. HistoryTrace(i) \subseteq Traces
            BY ServedIsKept
        <3>3. waterfall' = [waterfall EXCEPT !.loading = @ \ {i}, !.failed = HistoryTrace(i) = {},
                                !.traces = @ \cup HistoryTrace(i)]
            BY <3>1 DEF ServeTrace
        <3>4. WaterfallOK(waterfall') /\ waterfall'.traces = waterfall.traces \cup HistoryTrace(i)
            BY <1>2, <3>3 DEF WaterfallOK
        <3> QED BY <1>2, <3>2, <3>4
    <2> QED BY <2>1, <2>2, <2>3, <2>4, <2>5
<1> QED BY <1>1, <1>3, LookStep, PageIs

-----------------------------------------------------------------------------
(* Answers                                                                  *)

LEMMA SettlesIs ==
    ASSUME Inv, NEW i \in DOMAIN runs, NEW reply, Settles(i, reply)
    PROVE  /\ runs[i].waiting /\ runs' = [runs EXCEPT ![i].waiting = FALSE]
           /\ reply = "lost" \/ reply = runs[i].reply
BY DEF Settles

(* The answer of a run asked from a page the viewer has left, or from the   *)
(* trace page.                                                              *)
LEMMA ElsewhereStep ==
    ASSUME Inv, NEW i \in DOMAIN runs, NEW reply, Settles(i, reply),
           runs[i].from = "rerun" \/ ~IsHere(i),
           UNCHANGED <<app, serverVars, page, drawer>>,
           WaterfallOK(waterfall'), waterfall'.traces \subseteq Traces
    PROVE  Inv'
<1>1. runs' = [runs EXCEPT ![i].waiting = FALSE]
    BY SettlesIs
<1>2. /\ ServerStands /\ DOMAIN runs' = DOMAIN runs
      /\ \A j \in DOMAIN runs : SameRequest(j) /\ runs'[j].reply = runs[j].reply
      /\ \A j \in DOMAIN runs : j # i => runs'[j].waiting = runs[j].waiting
    BY <1>1, SettledStands
<1>3. app' = app /\ page' = page /\ drawer' = drawer
    OBVIOUS
<1>4. \A t : RunsOf(t)' = RunsOf(t)
    BY <1>2, <1>3 DEF RunsOf, IsHere, SameRequest
<1>5. \A t : RunsOf(t) \subseteq DOMAIN runs /\ i \notin RunsOf(t)
    BY DEF RunsOf
<1>6. \A j \in DOMAIN runs' : runs'[j].nth <= page.nth
    BY <1>2, PageIs DEF SameRequest
<1>7. \A t \in Inspected.targets :
          \A j \in RunsOf(t) : runs'[j].waiting = runs[j].waiting /\ runs'[j].reply = runs[j].reply
    BY <1>2, <1>5
<1>8. PageInv' /\ WaitInv' /\ ShownInv'
    BY <1>3, <1>4, <1>6, <1>7, DrawersStand
<1>9. waterfall'.traces \subseteq Traces'
    BY <1>2 DEF ServerStands
<1> QED BY <1>2, <1>3, <1>8, <1>9, PageIs, PageStep

LEMMA RerunSettlesStep ==
    ASSUME Inv, NEW i \in DOMAIN runs, RerunSettles(i)
    PROVE  Inv'
<1>1. PICK reply \in {"refused", "ok", "threw", "failed", "lost"} :
          /\ Settles(i, reply)
          /\ IF ~IsHere(i) THEN UNCHANGED waterfall
             ELSE LET free == [waterfall EXCEPT !.rerunning = @ \ {runs[i].key}]
                  IN  waterfall' = IF Traced(reply) THEN Adopt(free, i) ELSE free
    BY DEF RerunSettles
<1>2. runs[i].from = "rerun" /\ UNCHANGED <<app, serverVars, page, drawer>>
    BY DEF RerunSettles
<1>3. WaterfallOK(waterfall) /\ waterfall.traces \subseteq Traces
    BY PageIs
<1>4. Traced(reply) => i \in Traces
    <2>1. Traced(reply) => Traced(runs[i].reply)
        BY <1>1, SettlesIs DEF Traced
    <2>2. ServerOK(i, runs[i])
        BY DEF Inv, ServerInv
    <2> QED BY <2>1, <2>2 DEF ServerOK, Traces, IsTrace, WasCalled
<1>5. WaterfallOK(waterfall') /\ waterfall'.traces \subseteq Traces
    <2> DEFINE free == [waterfall EXCEPT !.rerunning = @ \ {runs[i].key}]
               more == [free EXCEPT !.traces = @ \cup {i}, !.index = <<i>> \o SelectSeq(@, LAMBDA j : j # i)]
    <2>1. waterfall' = waterfall \/ waterfall' = free \/ (Traced(reply) /\ waterfall' = Activate(more, i))
        BY <1>1 DEF Adopt
    <2>2. WaterfallOK(free) /\ free.traces = waterfall.traces
        BY <1>3 DEF WaterfallOK
    <2>3. WaterfallOK(more) /\ more.traces = free.traces \cup {i}
        BY <2>2 DEF WaterfallOK
    <2> HIDE DEF free, more
    <2>4. WaterfallOK(Activate(more, i)) /\ Activate(more, i).traces = more.traces
        BY <2>3, ActivateKeeps
    <2> QED BY <1>3, <1>4, <2>1, <2>2, <2>3, <2>4
<1> QED BY <1>1, <1>2, <1>5, ElsewhereStep

(* The drawer shows the answer of the run its target waited for.            *)
LEMMA DrawerSettles ==
    ASSUME Inv, NEW i \in DOMAIN runs, NEW reply \in {"refused", "ok", "threw", "failed", "lost"},
           Settles(i, reply), runs[i].from \in {"run", "inspect"}, IsHere(i),
           UNCHANGED <<app, serverVars, page, waterfall>>,
           drawer' = [drawer EXCEPT ![NodeOf(i)].pending = 0,
                                    ![NodeOf(i)].snapshot = IF reply \in {"failed", "lost"} THEN @ ELSE i,
                                    ![NodeOf(i)].failed = reply \in {"failed", "lost"}]
    PROVE  Inv'
<1> DEFINE n == runs[i].target
           unanswered == reply \in {"failed", "lost"}
<1>1. /\ runs[i].waiting /\ runs' = [runs EXCEPT ![i].waiting = FALSE]
      /\ reply = "lost" \/ reply = runs[i].reply
    BY SettlesIs
<1>2. /\ ServerStands /\ DOMAIN runs' = DOMAIN runs
      /\ \A j \in DOMAIN runs : SameRequest(j) /\ runs'[j].reply = runs[j].reply
      /\ \A j \in DOMAIN runs : j # i => runs'[j].waiting = runs[j].waiting
      /\ ~runs'[i].waiting
    BY <1>1, SettledStands
<1>3. app' = app /\ page' = page /\ waterfall' = waterfall /\ Inspected' = Inspected
    BY DEF Inspected
<1>4. \A t : RunsOf(t)' = RunsOf(t)
    BY <1>2, <1>3 DEF RunsOf, IsHere, SameRequest
<1>5. \A t : RunsOf(t) \subseteq DOMAIN runs /\ (i \in RunsOf(t) <=> t = n)
    BY DEF RunsOf
<1>6. n \in Inspected.targets
    BY DEF Inv, AskedInv, AskedOK, IsFromForm
<1>7. DrawerOK(drawer[n]) /\ DOMAIN drawer = Inspected.targets
    BY <1>6, PageIs
<1>8. /\ DOMAIN drawer' = Inspected.targets
      /\ \A t \in Inspected.targets : t # n => drawer'[t] = drawer[t]
      /\ DrawerOK(drawer'[n]) /\ drawer'[n].pending = 0 /\ drawer'[n].failed = unanswered
      /\ drawer'[n].snapshot = IF unanswered THEN drawer[n].snapshot ELSE i
    <2>1. i \in Nat
        BY TracesAreRuns DEF Inv
    <2> DEFINE d == [drawer[n] EXCEPT !.pending = 0, !.snapshot = IF unanswered THEN @ ELSE i, !.failed = unanswered]
    <2>2. drawer' = [drawer EXCEPT ![n] = d]
        BY DEF NodeOf
    <2>3. /\ DOMAIN d = {"pending", "snapshot", "failed", "refused"}
          /\ d.pending = 0 /\ d.failed = unanswered /\ d.snapshot = IF unanswered THEN drawer[n].snapshot ELSE i
        BY <1>7 DEF DrawerOK
    <2> HIDE DEF d
    <2>4. unanswered \in BOOLEAN
        OBVIOUS
    <2>5. DrawerOK(d)
        BY <1>7, <2>1, <2>3, <2>4 DEF DrawerOK
    <2> QED BY <1>6, <1>7, <2>2, <2>3, <2>5
<1>9. \A t \in Inspected.targets : DrawerOK(drawer'[t])
    BY <1>8, PageIs
<1>10. i = drawer[n].pending /\ i # 0
    <2>1. i \in RunsOf(n)
        BY <1>5
    <2>2. i # 0
        BY TracesAreRuns DEF Inv
    <2> QED BY <1>1, <1>6, <2>1, <2>2 DEF Inv, WaitInv
<1>11. \A j \in RunsOf(n) : j <= i /\ (j # i => ~runs[j].waiting)
    BY <1>6, <1>10 DEF Inv, WaitInv
<1>12. PageInv'
    <2>1. \A j \in DOMAIN runs' : runs'[j].nth <= page.nth
        BY <1>2, PageIs DEF SameRequest
    <2> QED BY <1>3, <1>4, <2>1 DEF Inv, PageInv
<1>13. WaitInv'
    <2> SUFFICES ASSUME NEW t \in Inspected.targets
                 PROVE  /\ \A j \in RunsOf(t) : runs'[j].waiting => j = drawer'[t].pending
                        /\ drawer'[t].pending # 0 =>
                               /\ drawer'[t].pending \in RunsOf(t) /\ runs'[drawer'[t].pending].waiting
                               /\ ~drawer'[t].failed /\ \A j \in RunsOf(t) : j <= drawer'[t].pending
        BY <1>3, <1>4 DEF WaitInv
    <2>1. CASE t = n
        BY <1>2, <1>5, <1>8, <1>11, <2>1
    <2>2. CASE t # n
        <3>1. /\ \A j \in RunsOf(t) : runs[j].waiting => j = drawer[t].pending
              /\ drawer[t].pending # 0 =>
                     /\ drawer[t].pending \in RunsOf(t) /\ runs[drawer[t].pending].waiting
                     /\ ~drawer[t].failed /\ \A j \in RunsOf(t) : j <= drawer[t].pending
            BY DEF Inv, WaitInv
        <3>2. \A j \in RunsOf(t) : runs'[j].waiting = runs[j].waiting
            BY <1>2, <1>5, <2>2
        <3> QED BY <1>8, <2>2, <3>1, <3>2
    <2> QED BY <2>1, <2>2
<1>14. ShownInv'
    <2> SUFFICES ASSUME NEW t \in Inspected.targets
                 PROVE  /\ drawer'[t].snapshot # 0 =>
                               /\ drawer'[t].snapshot \in RunsOf(t) /\ ~runs'[drawer'[t].snapshot].waiting
                               /\ runs'[drawer'[t].snapshot].reply \in {"refused", "ok", "threw"}
                        /\ drawer'[t].pending = 0 /\ ~drawer'[t].failed => \A j \in RunsOf(t) : j <= drawer'[t].snapshot
                        /\ drawer'[t].failed =>
                               \E j \in RunsOf(t) : drawer'[t].snapshot < j /\ \A k \in RunsOf(t) : k <= j
        BY <1>3, <1>4 DEF ShownInv
    <2>1. /\ drawer[t].snapshot # 0 =>
                 /\ drawer[t].snapshot \in RunsOf(t) /\ ~runs[drawer[t].snapshot].waiting
                 /\ runs[drawer[t].snapshot].reply \in {"refused", "ok", "threw"}
          /\ drawer[t].pending = 0 /\ ~drawer[t].failed => \A j \in RunsOf(t) : j <= drawer[t].snapshot
          /\ drawer[t].failed =>
                 \E j \in RunsOf(t) : drawer[t].snapshot < j /\ \A k \in RunsOf(t) : k <= j
        BY DEF Inv, ShownInv
    <2>2. drawer[t].snapshot # 0 => drawer[t].snapshot # i
        BY <1>1, <2>1
    <2>3. drawer[t].snapshot # 0 =>
              ~runs'[drawer[t].snapshot].waiting /\ runs'[drawer[t].snapshot].reply \in {"refused", "ok", "threw"}
        BY <1>2, <1>5, <2>1, <2>2
    <2>4. CASE t = n /\ unanswered
        <3>1. i \in Nat \ {0} /\ drawer[n].snapshot \in Nat /\ \A j \in RunsOf(n) : j \in Nat
            BY <1>5, <1>7, TracesAreRuns DEF Inv, DrawerOK
        <3>2. drawer[n].snapshot < i
            BY <1>11, <2>1, <2>2, <2>4, <3>1
        <3>3. i \in RunsOf(n) /\ \A k \in RunsOf(n) : k <= i
            BY <1>5, <1>11
        <3> QED BY <1>8, <2>1, <2>3, <2>4, <3>2, <3>3
    <2>5. CASE t = n /\ ~unanswered
        <3>1. runs'[i].reply \in {"refused", "ok", "threw"} /\ ~runs'[i].waiting /\ i \in RunsOf(n)
            BY <1>1, <1>2, <1>5, <2>5
        <3>2. drawer'[t].snapshot = i /\ ~drawer'[t].failed
            BY <1>8, <2>5
        <3> QED BY <1>11, <2>5, <3>1, <3>2
    <2>6. CASE t # n
        BY <1>8, <2>1, <2>3, <2>6
    <2> QED BY <2>4, <2>5, <2>6
<1>15. waterfall'.traces \subseteq Traces'
    BY <1>2, <1>3, PageIs DEF ServerStands
<1> QED BY <1>2, <1>3, <1>8, <1>9, <1>12, <1>13, <1>14, <1>15, PageIs, PageStep

LEMMA RunSettlesStep ==
    ASSUME Inv, NEW i \in DOMAIN runs, RunSettles(i)
    PROVE  Inv'
<1>1. PICK reply \in {"refused", "ok", "threw", "failed", "lost"} :
          /\ Settles(i, reply)
          /\ IF ~IsHere(i) THEN UNCHANGED viewerVars
             ELSE IF runs[i].from = "inspect" /\ Traced(reply) THEN MoveTo("trace")
             ELSE /\ drawer' = [drawer EXCEPT ![NodeOf(i)].pending = 0,
                                    ![NodeOf(i)].snapshot = IF reply \in {"failed", "lost"} THEN @ ELSE i,
                                    ![NodeOf(i)].failed = reply \in {"failed", "lost"}]
                  /\ UNCHANGED <<page, waterfall>>
    BY DEF RunSettles
<1>2. runs[i].from \in {"run", "inspect"} /\ UNCHANGED <<app, serverVars>>
    BY DEF RunSettles
<1>3. CASE ~IsHere(i)
    <2>1. UNCHANGED <<app, serverVars, page, drawer>> /\ waterfall' = waterfall
        BY <1>1, <1>2, <1>3 DEF viewerVars
    <2> QED BY <1>1, <1>3, <2>1, ElsewhereStep, PageIs
<1>4. CASE IsHere(i) /\ MoveTo("trace")
    <2>1. runs' = [runs EXCEPT ![i].waiting = FALSE]
        BY <1>1, SettlesIs
    <2>2. ServerStands /\ DOMAIN runs' = DOMAIN runs /\ \A j \in DOMAIN runs : SameRequest(j)
        BY <1>2, <2>1, SettledStands
    <2> QED BY <1>4, <2>2, MoveStep
<1>5. CASE IsHere(i) /\ ~MoveTo("trace")
    <2>1. /\ drawer' = [drawer EXCEPT ![NodeOf(i)].pending = 0,
                            ![NodeOf(i)].snapshot = IF reply \in {"failed", "lost"} THEN @ ELSE i,
                            ![NodeOf(i)].failed = reply \in {"failed", "lost"}]
          /\ UNCHANGED <<page, waterfall>>
        BY <1>1, <1>5
    <2>2. UNCHANGED <<app, serverVars, page, waterfall>>
        BY <1>2, <2>1
    <2> QED BY <1>1, <1>2, <1>5, <2>1, <2>2, DrawerSettles
<1> QED BY <1>3, <1>4, <1>5

-----------------------------------------------------------------------------
(* Requests                                                                 *)

LEMMA AppendRuns ==
    ASSUME TypeOK, NEW r, RunOK(r), runs' = Append(runs, r)
    PROVE  /\ runs' \in Seq({runs'[j] : j \in DOMAIN runs'})
           /\ DOMAIN runs' = DOMAIN runs \cup {Len(runs) + 1} /\ Len(runs) + 1 \notin DOMAIN runs
           /\ runs'[Len(runs) + 1] = r
           /\ \A j \in DOMAIN runs : runs'[j] = runs[j]
           /\ \A j \in DOMAIN runs' : RunOK(runs'[j])
<1> DEFINE S == {runs[j] : j \in DOMAIN runs}
           T == S \cup {r}
<1>1. runs \in Seq(S) /\ \A j \in DOMAIN runs : RunOK(runs[j])
    BY DEF TypeOK
<1>2. S \subseteq T /\ r \in T
    OBVIOUS
<1> HIDE DEF S, T
<1>3. runs \in Seq(T)
    BY <1>1, <1>2, SeqsWithin
<1>4. runs' \in Seq(T)
    BY <1>2, <1>3, SMT
<1>5. /\ DOMAIN runs' = DOMAIN runs \cup {Len(runs) + 1} /\ Len(runs) + 1 \notin DOMAIN runs
      /\ runs'[Len(runs) + 1] = r
      /\ \A j \in DOMAIN runs : runs'[j] = runs[j]
    BY <1>1, SMT
<1>6. runs' \in Seq({runs'[j] : j \in DOMAIN runs'})
    <2> DEFINE f == runs'
    <2>1. f \in Seq(T)
        BY <1>4
    <2> HIDE DEF f
    <2>2. f \in Seq({f[j] : j \in DOMAIN f})
        BY <2>1, OfItsRange
    <2> QED BY <2>2 DEF f
<1> QED BY <1>1, <1>5, <1>6

(* A new run is as it was asked, and not served yet.                        *)
LEMMA AskStands ==
    ASSUME Inv, NEW from \in {"run", "inspect", "rerun"}, NEW target, NEW method, NEW args, IsArgs(args),
           NEW body, NEW key, Ask(from, target, method, args, body, key),
           UNCHANGED <<app, serverVars, page>>,
           \A r : /\ r.from = from /\ r.target = target /\ r.method = method /\ r.asked = args
                  /\ r.body = body /\ r.key = key
                  => IF from = "rerun" THEN IsFromSpan(r) ELSE IsFromForm(r)
    PROVE  /\ ServerStands /\ DOMAIN runs' = DOMAIN runs \cup {Len(runs) + 1}
           /\ Len(runs) + 1 \in Nat \ {0} /\ \A j \in DOMAIN runs : j <= Len(runs)
           /\ \A j \in DOMAIN runs : runs'[j] = runs[j]
           /\ runs'[Len(runs) + 1].from = from /\ runs'[Len(runs) + 1].target = target
           /\ runs'[Len(runs) + 1].nth = page.nth /\ runs'[Len(runs) + 1].waiting
<1>n. PICK n : n = Len(runs) + 1
    OBVIOUS
<1>r. PICK r : r = [from |-> from, nth |-> page.nth, target |-> target, method |-> method,
                    asked |-> args, body |-> body, key |-> key, waiting |-> TRUE,
                    at |-> "sent", reply |-> "", outcome |-> "", listing |-> <<>>,
                    called |-> [at |-> "", args |-> <<>>]]
    OBVIOUS
<1>1. /\ runs' = Append(runs, r) /\ app' = app /\ completed' = completed /\ files' = files /\ page' = page
      /\ Inspected' = Inspected
    BY <1>r DEF Ask, serverVars, Inspected
<1>2. /\ DOMAIN r = RunFields /\ r.from = from /\ r.nth = page.nth /\ r.target = target /\ r.method = method
      /\ r.asked = args /\ r.body = body /\ r.key = key /\ r.waiting = TRUE
      /\ r.at = "sent" /\ r.reply = "" /\ r.outcome = "" /\ r.listing = <<>> /\ r.called.at = ""
    BY <1>r DEF RunFields
<1>3. RunOK(r)
    <2>1. <<>> \in Seq(Nat)
        BY SMT
    <2> QED BY <1>2, <2>1, PageIs DEF RunOK, Underway
<1>4. /\ runs' \in Seq({runs'[j] : j \in DOMAIN runs'})
      /\ DOMAIN runs' = DOMAIN runs \cup {n} /\ n \notin DOMAIN runs /\ runs'[n] = r
      /\ \A j \in DOMAIN runs : runs'[j] = runs[j]
      /\ \A j \in DOMAIN runs' : RunOK(runs'[j])
    BY <1>1, <1>3, <1>n, AppendRuns DEF Inv
<1>5. n \in Nat \ {0} /\ \A j \in DOMAIN runs : j <= Len(runs)
    BY <1>n, RunsAreSeq DEF Inv
<1>6. Grows
    BY <1>1, <1>4 DEF Grows, Stays, SameRequest
<1>7. AskedInv'
    <2>1. IF from = "rerun" THEN IsFromSpan(r) ELSE IsFromForm(r)
        BY <1>2
    <2>2. ASSUME IsFromSpan(r), from = "rerun" PROVE AskedOK(n)'
        <3>1. IsTrace(r.key.trace)
            BY <2>2 DEF IsFromSpan
        <3>2. PICK k : k = r.key.trace
            OBVIOUS
        <3>3. IsTrace(k)' /\ Trace(k)' = Trace(k)
            BY <1>6, <3>1, <3>2, TraceStays
        <3>4. IsFromSpan(runs[n])'
            BY <1>4, <2>2, <3>2, <3>3 DEF IsFromSpan
        <3> QED BY <1>2, <1>4, <2>2, <3>4 DEF AskedOK
    <2>3. ASSUME IsFromForm(r), from # "rerun" PROVE AskedOK(n)'
        <3>1. IsFromForm(runs[n])'
            BY <1>1, <1>4, <2>3 DEF IsFromForm, Inspected, ArgsBody, TakesNothing
        <3> QED BY <1>2, <1>4, <2>3, <3>1 DEF AskedOK
    <2>4. \A j \in DOMAIN runs : AskedOK(j)'
        BY <1>6, AskedStays
    <2> QED BY <1>4, <2>1, <2>2, <2>3, <2>4 DEF AskedInv
<1>8. CalledInv'
    <2>1. CalledOK(n)'
        BY <1>2, <1>4 DEF CalledOK, WasCalled
    <2>2. \A j \in DOMAIN runs : CalledOK(j)'
        BY <1>6, CalledStays
    <2> QED BY <1>4, <2>1, <2>2 DEF CalledInv
<1>9. ServerInv'
    <2>1. KeepsHistory' = KeepsHistory
        BY <1>1 DEF KeepsHistory
    <2>2. ASSUME NEW j \in DOMAIN runs PROVE ServerOK(j, runs[j])'
        <3>1. ServerOK(j, runs[j])
            BY DEF Inv, ServerInv
        <3> QED BY <1>1, <1>4, <2>1, <3>1 DEF ServerOK, Traced
    <2>3. ServerOK(n, runs[n])'
        BY <1>2, <1>4 DEF ServerOK, Traced, HasRun
    <2> QED BY <1>4, <2>2, <2>3 DEF ServerInv
<1>10. Traces \subseteq Traces'
    BY <1>6, TracesGrow
<1>11. ServerStands
    BY <1>1, <1>4, <1>7, <1>8, <1>9, <1>10 DEF ServerStands
<1> QED BY <1>n, <1>2, <1>4, <1>5, <1>11

(* What a span was called with is a list of arguments.                      *)
LEMMA SpanIs ==
    ASSUME Inv, NEW i, IsTrace(i), NEW span \in Trace(i)
    PROVE  /\ IsArgs(span.args) /\ IsTarget(span.target)
           /\ span.target.type = "provider" \/ span.target \in Inspected.targets
<1> DEFINE run == runs[i]
           root == [id |-> 1, parent |-> 0, start |-> 1, target |-> run.target, method |-> run.method,
                    args |-> run.called.args]
<1>1. Trace(i) = {root} \cup Called(i).spans
    BY DEF Trace
<1>2. /\ IsCallable(run) /\ run.called.at = Asked(run).at /\ run.called.args = Bound(run).args
      /\ app \in DOMAIN Apps /\ IsArgs(run.asked) /\ AskedOK(i)
    <2>1. i \in DOMAIN runs /\ WasCalled(i)
        BY DEF IsTrace
    <2>2. IsCallable(runs[i]) /\ runs[i].called = [at |-> Asked(runs[i]).at, args |-> Bound(runs[i]).args]
        BY <2>1 DEF Inv, CalledInv, CalledOK
    <2>3. app \in DOMAIN Apps /\ IsArgs(run.asked) /\ AskedOK(i)
        BY <2>1 DEF Inv, TypeOK, RunOK, AskedInv
    <2> QED BY <2>2, <2>3
<1>3. run.target \in Inspected.targets
    BY <1>2 DEF IsCallable
<1>4. CASE span = root
    <2>1. run.body = EmptyBody \/ run.body = Body(run.asked)
        BY <1>2 DEF AskedOK, IsFromSpan, IsFromForm, ArgsBody
    <2>2. IsArgs(Bound(run).args)
        BY <1>2, <2>1, ResolvedAreArgs DEF Bound
    <2>3. IsTarget(run.target)
        BY <1>2, <1>3, TargetIsClass
    <2> QED BY <1>2, <1>3, <1>4, <2>2, <2>3
<1>5. CASE span \in Called(i).spans
    <2>1. Called(i) = Asked(run) /\ Asked(run) \in Inspected.members[run.target]
        BY <1>2, AskedIs DEF Called
    <2>2. \A s \in Called(i).spans : /\ IsTarget(s.target) /\ (s.target.type = "provider" \/ s.target \in Inspected.targets)
                                     /\ s.args \in Seq(Values)
        BY <1>2, <1>3, <2>1, TargetIsClass DEF IsClass
    <2> QED BY <1>5, <2>2 DEF IsArgs
<1> QED BY <1>1, <1>4, <1>5

(* What the trace page runs again is a provider's, under its own name.      *)
LEMMA RerunIsSame ==
    ASSUME NEW targets, NEW span, CanRerun(targets, span), IsTarget(span.target),
           span.target.type = "provider" \/ span.target \in targets
    PROVE  RerunTarget(span) = span.target
<1> DEFINE t == span.target
<1>1. t = [module |-> t.module, type |-> t.type, name |-> t.name] /\ t.type \in {"provider", "controller"}
    BY DEF IsTarget
<1>2. ASSUME t.type = "controller" PROVE FALSE
    <2>1. [t EXCEPT !.type = "controller"] = t
        BY <1>1, <1>2
    <2> QED BY <1>2, <2>1 DEF CanRerun, Named
<1>3. [t EXCEPT !.type = "provider"] = t
    BY <1>1, <1>2
<1> QED BY <1>3 DEF RerunTarget

LEMMA RerunSpanStep ==
    ASSUME Inv, RerunSpan
    PROVE  Inv'
<1> DEFINE i == waterfall.active
<1>1. UNCHANGED <<app, serverVars, page, drawer>> /\ IsDrawn
    BY DEF RerunSpan
<1>2. PICK span \in Trace(i) :
          /\ CanRerun(Inspected.targets, span)
          /\ Ask("rerun", RerunTarget(span), span.method, span.args, Body(span.args), RerunKey(span))
          /\ waterfall' = [waterfall EXCEPT !.rerunning = @ \cup {RerunKey(span)}]
    BY DEF RerunSpan
<1>3. IsTrace(i)
    BY <1>1, PageIs DEF IsDrawn, Traces
<1>4. IsArgs(span.args) /\ RerunTarget(span) = span.target
    <2>1. /\ IsArgs(span.args) /\ IsTarget(span.target)
          /\ span.target.type = "provider" \/ span.target \in Inspected.targets
        BY <1>3, SpanIs
    <2> QED BY <1>2, <2>1, RerunIsSame
<1>5. RerunKey(span).trace = i /\ RerunKey(span).span = span.id
    BY DEF RerunKey
<1>6. ASSUME NEW r, r.target = RerunTarget(span), r.method = span.method, r.asked = span.args,
             r.body = Body(span.args), r.key = RerunKey(span)
      PROVE  IsFromSpan(r)
    BY <1>3, <1>4, <1>5, <1>6 DEF IsFromSpan
<1> DEFINE n == Len(runs) + 1
<1>7. /\ ServerStands /\ DOMAIN runs' = DOMAIN runs \cup {n}
      /\ \A j \in DOMAIN runs : runs'[j] = runs[j]
      /\ runs'[n].from = "rerun" /\ runs'[n].nth = page.nth
    <2> DEFINE target == RerunTarget(span)
               body == Body(span.args)
               key == RerunKey(span)
    <2>1. Ask("rerun", target, span.method, span.args, body, key)
        BY <1>2
    <2>2. \A r : /\ r.from = "rerun" /\ r.target = target /\ r.method = span.method /\ r.asked = span.args
                 /\ r.body = body /\ r.key = key
                 => IF "rerun" = "rerun" THEN IsFromSpan(r) ELSE IsFromForm(r)
        BY <1>6
    <2> HIDE DEF target, body, key
    <2> QED BY <1>1, <1>4, <2>1, <2>2, AskStands
<1>8. app' = app /\ page' = page /\ drawer' = drawer
    BY <1>1
<1> HIDE DEF n
<1>9. \A t : RunsOf(t)' = RunsOf(t) /\ RunsOf(t) \subseteq DOMAIN runs
    BY <1>7, <1>8 DEF RunsOf, IsHere
<1>10. \A j \in DOMAIN runs' : runs'[j].nth <= page.nth
    BY <1>7, PageIs
<1>11. PageInv' /\ WaitInv' /\ ShownInv'
    BY <1>7, <1>8, <1>9, <1>10, DrawersStand
<1>12. WaterfallOK(waterfall') /\ waterfall'.traces \subseteq Traces'
    BY <1>2, <1>7, PageIs DEF WaterfallOK, ServerStands
<1> QED BY <1>7, <1>8, <1>11, <1>12, PageIs, PageStep

(* What a form lets through has a value for each of its fields.             *)
LEMMA LetThroughIs ==
    ASSUME app \in DOMAIN Apps, NEW t \in Inspected.targets, NEW m \in DirectRunMethods(Inspected.members[t]),
           NEW args \in Typed(app, m), args \in LetThrough[app][t][m.name]
    PROVE  Len(args) = FormFields(m.params) /\ args \in Seq(Values)
<1> DEFINE members == Apps[app].members[t]
<1>1. IsClass(members, Inspected.targets) /\ m \in DirectRunMethods(members) /\ t \in Apps[app].targets
    BY TargetIsClass DEF Inspected
<1>2. args \in Seq(Values)
    BY <1>1, AppsAssumption
<1>3. /\ FormFields(m.params) = 0 => m.params = <<>>
      /\ FormAccepts(m.params, args) => Len(args) = FormFields(m.params)
    BY <1>1, FormsAssumption
<1>4. m.name \in AllowedMethods(members)
    BY <1>1 DEF AllowedMethods
<1> DEFINE accepted(name) == {x \in Typed(app, At(members, "class", name)) : ArgsAccepted(At(members, "class", name), x)}
<1>5. LetThrough[app][t] = [name \in AllowedMethods(members) |-> accepted(name)]
    BY <1>1 DEF LetThrough
<1>6. LetThrough[app][t][m.name] = accepted(m.name)
    BY <1>4, <1>5
<1>7. At(members, "class", m.name) = m
    <2> HIDE DEF members
    <2>1. m \in members /\ m.at = "class"
        BY <1>1 DEF DirectRunMethods
    <2> QED BY <1>1, <2>1, AtFinds
<1>8. ArgsAccepted(m, args)
    BY <1>6, <1>7
<1>9. CASE FormFields(m.params) = 0
    <2>1. args = <<>>
        BY <1>3, <1>9 DEF Typed
    <2>2. Len(<<>>) = 0
        BY SMT
    <2> QED BY <1>2, <1>9, <2>1, <2>2
<1> QED BY <1>2, <1>3, <1>8, <1>9 DEF ArgsAccepted, TakesNothing

(* A target that waits for none asks for a new run, its last.               *)
LEMMA RunAsked ==
    ASSUME Inv, NEW t \in Inspected.targets, drawer[t].pending = 0, page.name = "navigator",
           NEW m \in DirectRunMethods(Inspected.members[t]), NEW args \in Typed(app, m),
           args \in LetThrough[app][t][m.name],
           NEW from \in {"run", "inspect"}, Ask(from, t, m.name, args, ArgsBody(m, args), NoKey),
           drawer' = [drawer EXCEPT ![t].pending = Len(runs) + 1, ![t].failed = FALSE, ![t].refused = {}],
           UNCHANGED <<app, serverVars, page, waterfall>>
    PROVE  Inv'
<1>n. PICK n : n = Len(runs) + 1
    OBVIOUS
<1>1. Len(args) = FormFields(m.params) /\ IsArgs(args)
    <2>1. app \in DOMAIN Apps
        BY DEF Inv, TypeOK
    <2>2. Len(args) = FormFields(m.params) /\ args \in Seq(Values)
        BY <2>1, LetThroughIs
    <2> QED BY <2>2 DEF IsArgs
<1>2. /\ ServerStands /\ DOMAIN runs' = DOMAIN runs \cup {n}
      /\ n \in Nat \ {0} /\ \A j \in DOMAIN runs : j < n
      /\ \A j \in DOMAIN runs : runs'[j] = runs[j]
      /\ runs'[n].from = from /\ runs'[n].target = t /\ runs'[n].nth = page.nth /\ runs'[n].waiting
    <2>1. ASSUME NEW r, r.target = t, r.method = m.name, r.asked = args, r.body = ArgsBody(m, args)
          PROVE  IsFromForm(r)
        BY <1>1, <2>1 DEF IsFromForm
    <2>2. from \in {"run", "inspect", "rerun"} /\ from # "rerun"
        OBVIOUS
    <2> DEFINE body == ArgsBody(m, args)
    <2>3. Ask(from, t, m.name, args, body, NoKey)
        OBVIOUS
    <2>4. \A r : /\ r.from = from /\ r.target = t /\ r.method = m.name /\ r.asked = args
                 /\ r.body = body /\ r.key = NoKey
                 => IF from = "rerun" THEN IsFromSpan(r) ELSE IsFromForm(r)
        BY <2>1, <2>2
    <2> HIDE DEF body
    <2>5. /\ ServerStands /\ DOMAIN runs' = DOMAIN runs \cup {Len(runs) + 1}
          /\ Len(runs) + 1 \in Nat \ {0} /\ \A j \in DOMAIN runs : j <= Len(runs)
          /\ \A j \in DOMAIN runs : runs'[j] = runs[j]
          /\ runs'[Len(runs) + 1].from = from /\ runs'[Len(runs) + 1].target = t
          /\ runs'[Len(runs) + 1].nth = page.nth /\ runs'[Len(runs) + 1].waiting
        BY <1>1, <2>2, <2>3, <2>4, AskStands
    <2>6. \A j \in DOMAIN runs : j < n
        BY <1>n, RunsAreSeq DEF Inv
    <2> QED BY <1>n, <2>5, <2>6
<1>3. app' = app /\ page' = page /\ waterfall' = waterfall /\ Inspected' = Inspected
    BY DEF Inspected
<1>4. DrawerOK(drawer[t]) /\ DOMAIN drawer = Inspected.targets
    BY PageIs
<1>5. /\ DOMAIN drawer' = Inspected.targets
      /\ \A u \in Inspected.targets : u # t => drawer'[u] = drawer[u]
      /\ DrawerOK(drawer'[t]) /\ drawer'[t].pending = n /\ drawer'[t].failed = FALSE
      /\ drawer'[t].snapshot = drawer[t].snapshot
    <2> DEFINE d == [drawer[t] EXCEPT !.pending = n, !.failed = FALSE, !.refused = {}]
    <2>1. drawer' = [drawer EXCEPT ![t] = d]
        BY <1>n
    <2>2. /\ DOMAIN d = {"pending", "snapshot", "failed", "refused"}
          /\ d.pending = n /\ d.failed = FALSE /\ d.snapshot = drawer[t].snapshot
        BY <1>4 DEF DrawerOK
    <2> HIDE DEF d
    <2>3. DrawerOK(d)
        BY <1>2, <1>4, <2>2 DEF DrawerOK
    <2> QED BY <1>4, <2>1, <2>2, <2>3
<1>6. \A u \in Inspected.targets : DrawerOK(drawer'[u])
    BY <1>5, PageIs
<1>7. /\ \A u : u # t => RunsOf(u)' = RunsOf(u)
      /\ RunsOf(t)' = RunsOf(t) \cup {n}
      /\ \A u : RunsOf(u) \subseteq DOMAIN runs
    BY <1>2, <1>3 DEF RunsOf, IsHere
<1>8. PageInv'
    <2>1. \A j \in DOMAIN runs' : runs'[j].nth <= page.nth
        BY <1>2, PageIs
    <2> QED BY <1>3, <2>1 DEF PageInv
<1>9. WaitInv'
    <2> SUFFICES ASSUME NEW u \in Inspected.targets
                 PROVE  /\ \A j \in RunsOf(u)' : runs'[j].waiting => j = drawer'[u].pending
                        /\ drawer'[u].pending # 0 =>
                               /\ drawer'[u].pending \in RunsOf(u)' /\ runs'[drawer'[u].pending].waiting
                               /\ ~drawer'[u].failed /\ \A j \in RunsOf(u)' : j <= drawer'[u].pending
        BY <1>3 DEF WaitInv
    <2>1. /\ \A j \in RunsOf(u) : runs[j].waiting => j = drawer[u].pending
          /\ drawer[u].pending # 0 =>
                 /\ drawer[u].pending \in RunsOf(u) /\ runs[drawer[u].pending].waiting
                 /\ ~drawer[u].failed /\ \A j \in RunsOf(u) : j <= drawer[u].pending
        BY DEF Inv, WaitInv
    <2>2. CASE u # t
        BY <1>2, <1>5, <1>7, <2>1, <2>2
    <2>3. CASE u = t
        <3>1. \A j \in RunsOf(t) : ~runs'[j].waiting /\ j < n
            <4>1. \A j \in RunsOf(t) : j \in DOMAIN runs /\ j # 0
                BY <1>7, TracesAreRuns DEF Inv
            <4> QED BY <1>2, <2>1, <2>3, <4>1
        <3>2. \A j \in RunsOf(t)' : j <= n
            <4>1. \A j \in RunsOf(t) : j \in Nat
                BY <1>7, TracesAreRuns DEF Inv
            <4> QED BY <1>2, <1>7, <3>1, <4>1
        <3> QED BY <1>2, <1>5, <1>7, <2>3, <3>1, <3>2
    <2> QED BY <2>2, <2>3
<1>10. ShownInv'
    <2> SUFFICES ASSUME NEW u \in Inspected.targets
                 PROVE  /\ drawer'[u].snapshot # 0 =>
                               /\ drawer'[u].snapshot \in RunsOf(u)' /\ ~runs'[drawer'[u].snapshot].waiting
                               /\ runs'[drawer'[u].snapshot].reply \in {"refused", "ok", "threw"}
                        /\ drawer'[u].pending = 0 /\ ~drawer'[u].failed => \A j \in RunsOf(u)' : j <= drawer'[u].snapshot
                        /\ drawer'[u].failed =>
                               \E j \in RunsOf(u)' : drawer'[u].snapshot < j /\ \A k \in RunsOf(u)' : k <= j
        BY <1>3 DEF ShownInv
    <2>1. /\ drawer[u].snapshot # 0 =>
                 /\ drawer[u].snapshot \in RunsOf(u) /\ ~runs[drawer[u].snapshot].waiting
                 /\ runs[drawer[u].snapshot].reply \in {"refused", "ok", "threw"}
          /\ drawer[u].pending = 0 /\ ~drawer[u].failed => \A j \in RunsOf(u) : j <= drawer[u].snapshot
          /\ drawer[u].failed =>
                 \E j \in RunsOf(u) : drawer[u].snapshot < j /\ \A k \in RunsOf(u) : k <= j
        BY DEF Inv, ShownInv
    <2>2. drawer[u].snapshot # 0 =>
              /\ drawer[u].snapshot \in RunsOf(u) /\ ~runs'[drawer[u].snapshot].waiting
              /\ runs'[drawer[u].snapshot].reply \in {"refused", "ok", "threw"}
        BY <1>2, <1>7, <2>1
    <2>3. CASE u # t
        BY <1>5, <1>7, <2>1, <2>2, <2>3
    <2>4. CASE u = t
        BY <1>2, <1>5, <1>7, <2>2, <2>4
    <2> QED BY <2>3, <2>4
<1>11. waterfall'.traces \subseteq Traces'
    BY <1>2, <1>3, PageIs DEF ServerStands
<1>12. /\ page' \in [name : {"navigator", "trace"}, nth : Nat, selected : Inspected.targets \cup {NoTarget}]
       /\ WaterfallOK(waterfall') /\ ServerStands /\ DOMAIN drawer' = Inspected.targets
    BY <1>2, <1>3, <1>5, PageIs
<1> QED BY <1>6, <1>8, <1>9, <1>10, <1>11, <1>12, PageStep

(* A form that refuses what was typed only says so.                         *)
LEMMA FormRefuses ==
    ASSUME Inv, NEW t \in Inspected.targets, NEW refused,
           drawer' = [drawer EXCEPT ![t].refused = refused], UNCHANGED <<app, runs, serverVars, page, waterfall>>
    PROVE  Inv'
<1>1. ServerStands /\ app' = app /\ runs' = runs /\ page' = page /\ waterfall' = waterfall
    BY RunsStand
<1>2. /\ DOMAIN drawer' = Inspected.targets
      /\ \A u \in Inspected.targets :
             /\ DrawerOK(drawer'[u])
             /\ drawer'[u].pending = drawer[u].pending /\ drawer'[u].snapshot = drawer[u].snapshot
             /\ drawer'[u].failed = drawer[u].failed
    <2> DEFINE d == [drawer[t] EXCEPT !.refused = refused]
    <2>1. /\ DrawerOK(drawer[t]) /\ DOMAIN drawer = Inspected.targets
          /\ \A u \in Inspected.targets : DrawerOK(drawer[u])
        BY PageIs
    <2>2. /\ DOMAIN d = {"pending", "snapshot", "failed", "refused"}
          /\ d.pending = drawer[t].pending /\ d.failed = drawer[t].failed /\ d.snapshot = drawer[t].snapshot
        BY <2>1 DEF DrawerOK
    <2>3. drawer' = [drawer EXCEPT ![t] = d]
        OBVIOUS
    <2> HIDE DEF d
    <2>4. DrawerOK(d)
        BY <2>1, <2>2 DEF DrawerOK
    <2> QED BY <2>1, <2>2, <2>3, <2>4
<1>3. \A u : RunsOf(u)' = RunsOf(u)
    BY <1>1 DEF RunsOf, IsHere
<1>4. \A i \in DOMAIN runs' : runs'[i].nth <= page.nth
    BY <1>1, PageIs
<1>5. PageInv' /\ WaitInv' /\ ShownInv'
    BY <1>1, <1>2, <1>3, <1>4, DrawersStand
<1>6. waterfall'.traces \subseteq Traces'
    BY <1>1, PageIs DEF ServerStands
<1> QED BY <1>1, <1>2, <1>5, <1>6, PageIs, PageStep

LEMMA RunMethodStep ==
    ASSUME Inv, RunMethod
    PROVE  Inv'
<1> DEFINE t == page.selected
<1>1. /\ t \in Inspected.targets /\ drawer[t].pending = 0 /\ page.name = "navigator"
      /\ UNCHANGED <<app, serverVars, page, waterfall>>
    BY PageIs DEF RunMethod
<1>m. PICK m \in DirectRunMethods(Inspected.members[t]) : \E args \in Typed(app, m) :
          IF args \in LetThrough[app][t][m.name]
          THEN /\ \E from \in {"run", "inspect"} : Ask(from, t, m.name, args, ArgsBody(m, args), NoKey)
               /\ drawer' = [drawer EXCEPT ![t].pending = Len(runs) + 1, ![t].failed = FALSE, ![t].refused = {}]
          ELSE /\ UNCHANGED runs
               /\ drawer' = [drawer EXCEPT ![t].refused = {[method |-> m, args |-> args]}]
    BY DEF RunMethod
<1>2. PICK args \in Typed(app, m) :
          IF args \in LetThrough[app][t][m.name]
          THEN /\ \E from \in {"run", "inspect"} : Ask(from, t, m.name, args, ArgsBody(m, args), NoKey)
               /\ drawer' = [drawer EXCEPT ![t].pending = Len(runs) + 1, ![t].failed = FALSE, ![t].refused = {}]
          ELSE /\ UNCHANGED runs
               /\ drawer' = [drawer EXCEPT ![t].refused = {[method |-> m, args |-> args]}]
    BY <1>m
<1> HIDE DEF t
<1>3. CASE args \in LetThrough[app][t][m.name]
    <2>1. PICK from \in {"run", "inspect"} : Ask(from, t, m.name, args, ArgsBody(m, args), NoKey)
        BY <1>2, <1>3
    <2>2. drawer' = [drawer EXCEPT ![t].pending = Len(runs) + 1, ![t].failed = FALSE, ![t].refused = {}]
        BY <1>2, <1>3
    <2> QED BY <1>1, <1>3, <2>1, <2>2, RunAsked
<1>4. CASE args \notin LetThrough[app][t][m.name]
    <2> DEFINE refused == {[method |-> m, args |-> args]}
    <2>1. drawer' = [drawer EXCEPT ![t].refused = refused] /\ UNCHANGED <<app, runs, serverVars, page, waterfall>>
        BY <1>1, <1>2, <1>4
    <2> HIDE DEF refused
    <2> QED BY <1>1, <2>1, FormRefuses
<1> QED BY <1>3, <1>4

-----------------------------------------------------------------------------
(* The theorems                                                             *)

LEMMA InitInv == Init => Inv
<1> SUFFICES ASSUME Init PROVE Inv
    OBVIOUS
<1>1. /\ app \in DOMAIN Apps /\ runs = <<>> /\ completed = <<>> /\ files = [traces |-> {}, index |-> <<>>]
      /\ page = [name |-> "navigator", nth |-> 1, selected |-> NoTarget]
      /\ drawer = FreshDrawer /\ waterfall = FreshPage
    BY DEF Init
<1>2. DOMAIN runs = {} /\ \A S : runs \in Seq(S) /\ completed \in Seq(S)
    BY <1>1, SMT
<1>3. /\ DOMAIN drawer = Inspected.targets
      /\ \A t \in Inspected.targets :
             DrawerOK(drawer[t]) /\ drawer[t].pending = 0 /\ drawer[t].snapshot = 0 /\ ~drawer[t].failed
    BY <1>1 DEF FreshDrawer, DrawerOK
<1>4. WaterfallOK(waterfall) /\ waterfall.traces = {}
    BY <1>1 DEF FreshPage, WaterfallOK
<1>5. files \in [traces : SUBSET Nat, index : Seq(Nat)]
    <2>1. <<>> \in Seq(Nat)
        BY SMT
    <2> QED BY <1>1, <2>1
<1>6. page \in [name : {"navigator", "trace"}, nth : Nat, selected : Inspected.targets \cup {NoTarget}]
    BY <1>1
<1>7. TypeOK
    BY <1>1, <1>2, <1>3, <1>4, <1>5, <1>6 DEF TypeOK
<1>8. \A t : RunsOf(t) = {}
    BY <1>2 DEF RunsOf
<1>9. ServerInv /\ TracesInv /\ AskedInv /\ CalledInv
    BY <1>2, <1>4 DEF ServerInv, TracesInv, AskedInv, CalledInv
<1>10. PageInv /\ WaitInv /\ ShownInv
    BY <1>2, <1>3, <1>8 DEF PageInv, WaitInv, ShownInv
<1> QED BY <1>7, <1>9, <1>10 DEF Inv

LEMMA NextInv == Inv /\ [Next]_vars => Inv'
<1> SUFFICES ASSUME Inv, [Next]_vars PROVE Inv'
    OBVIOUS
<1>1. CASE \E i \in DOMAIN runs : Serve(i) \/ WriteFails(i) \/ Unsendable(i) \/ Settle(i)
    <2>1. PICK i \in DOMAIN runs : Serve(i) \/ WriteFails(i) \/ Unsendable(i) \/ Settle(i)
        BY <1>1
    <2> QED BY <2>1, ServeStep, RunSettlesStep, RerunSettlesStep DEF Settle
<1>2. CASE Restart \/ Navigate \/ SelectTarget \/ RunMethod \/ RerunSpan
    BY <1>2, RestartStep, NavigateStep, SelectTargetStep, RunMethodStep, RerunSpanStep
<1>3. CASE ServeIndex \/ IndexFails \/ SelectTrace \/ FoldRows \/ \E i \in waterfall.loading : ServeTrace(i)
    BY <1>3, WaterfallStep
<1>4. CASE UNCHANGED vars
    <2>1. UNCHANGED <<app, runs, serverVars, drawer>> /\ page' = page /\ waterfall' = waterfall
        BY <1>4 DEF vars, serverVars
    <2> QED BY <2>1, LookStep, PageIs
<1> QED BY <1>1, <1>2, <1>3, <1>4 DEF Next

(* What a run was asked, what the route made of it and what the pages know  *)
(* of it agree in every state of a server and its viewer.                   *)
THEOREM Invariance == Spec => []Inv
BY InitInv, NextInv, PTL DEF Spec

(* Whatever the order of answers, losses and restarts, a drawer waits for   *)
(* its target's run, shows the last one that was answered, says so when the *)
(* last one was not, and with a history shows only traces that are filed.   *)
THEOREM LastRunsShown == Spec => []LastRunShown
BY Invariance, InvShown, PTL

(* Whatever its classes and their spans, the route calls the method that    *)
(* was asked for, with the arguments in their places, and in strict mode    *)
(* one the graph offers.                                                    *)
THEOREM CallsAreRight == Spec => []CallsAreWhatWasAsked
BY Invariance, InvCalls, PTL
=============================================================================
