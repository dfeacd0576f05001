----------------------------- MODULE DirectRunCalls -----------------------------
(***************************************************************************)
(* Which methods of a provider or controller the graph offers for a direct *)
(* run (lib/src/graph-output.builder.ts), which of them the route finds    *)
(* (lib/src/adapters/direct-run-output.adapter.ts), and what becomes of    *)
(* their arguments between the viewer and the call.                        *)
(*                                                                         *)
(* A class is a set of members [name, at, is, params, public, hook,        *)
(* spans]: `at` says whether the instance, its class or a base class has   *)
(* it, `is` whether that is a function, a getter or something else.  A     *)
(* parameter's form is plain, default or rest.                             *)
(***************************************************************************)
EXTENDS Naturals, FiniteSets, SequencesExt, FiniteSetsExt

None == [name |-> "none"]
The(members) == IF members = {} THEN None ELSE CHOOSE m \in members : TRUE
At(members, where, name) == The({m \in members : m.at = where /\ m.name = name})
IsFunction(m) == m # None /\ m.is = "function"

--------------------------------------------------------------------------------
(* Methods                                                                    *)

(* getDirectRunMethods: what the class itself declares, public, and is not    *)
(* called by the framework; also the set strict mode allows.                  *)
DirectRunMethods(members) == {m \in members : m.at = "class" /\ m.public /\ ~m.hook /\ m.is = "function"}
AllowedMethods(members) == {m.name : m \in DirectRunMethods(members)}

ResolveStrict(members, name) ==
    IF name \in AllowedMethods(members) /\ At(members, "instance", name) = None
    THEN At(members, "class", name) ELSE None

(* The nearest on the prototype chain, unless the instance has a function. *)
ResolvePermissive(members, name) ==
    IF IsFunction(At(members, "instance", name)) THEN At(members, "instance", name)
    ELSE IF At(members, "class", name) # None THEN At(members, "class", name)
    ELSE At(members, "base", name)

(* What the instance has comes before what its class declares, whatever it is.*)
ResolvePermissiveController(members, name) ==
    LET found == IF At(members, "instance", name) # None THEN At(members, "instance", name) ELSE At(members, "class", name)
    IN  IF found # None /\ found.hook THEN None ELSE found

Resolve(strict, target, members, name) ==
    LET found == IF strict THEN ResolveStrict(members, name)
                 ELSE IF target.type = "controller" THEN ResolvePermissiveController(members, name)
                 ELSE ResolvePermissive(members, name)
    IN  IF IsFunction(found) THEN found ELSE None

--------------------------------------------------------------------------------
(* Arguments                                                                  *)

Value(json, word, items, members) == [json |-> json, word |-> word, items |-> items, members |-> members]
ArrayOf(values) == Value("array", "", values, <<>>)

(* buildDirectRunRequest: a body with the arguments, one alone unwrapped. *)
BodyWrapped(args) == [has |-> TRUE, args |-> ArrayOf(args)]
Body(args) == [has |-> TRUE, args |-> IF Len(args) = 1 THEN args[1] ELSE ArrayOf(args)]
EmptyBody  == [has |-> FALSE, args |-> ArrayOf(<<>>)]

(* A function's length stops at the first parameter with a default, or rest. *)
ParameterCount(params) ==
    Min({i \in DOMAIN params : params[i].form # "plain"} \cup {Len(params) + 1}) - 1

(* resolveArgs *)
ResolveArgs(body, count) ==
    IF ~body.has THEN [ok |-> count = 0, args |-> <<>>]
    ELSE IF count > 1 /\ body.args.json # "array" THEN [ok |-> FALSE, args |-> <<>>]
    ELSE [ok |-> TRUE,
          args |-> IF count # 1 /\ body.args.json = "array" THEN body.args.items ELSE <<body.args>>]

--------------------------------------------------------------------------------
(* The trace page                                                             *)

(* canRerunSpanAsProvider: a trace says a span's module and class, not whether*)
(* it was a provider or a controller.                                         *)
Named(targets, type, target) == [target EXCEPT !.type = type] \in targets
CanRerun(targets, span) ==
    Named(targets, "provider", span.target) /\ ~Named(targets, "controller", span.target)
RerunTarget(span) == [span.target EXCEPT !.type = "provider"]

(* A trace is a set of spans [id, parent, start, target, method, args]; they  *)
(* come in the order they started.                                            *)
Spans(trace) ==
    [n \in 1..Cardinality(trace) |-> CHOOSE s \in trace : Cardinality({t \in trace : t.start <= s.start}) = n]
IsChild(trace, span) == span.parent # span.id /\ \E s \in trace : s.id = span.parent
ChildrenOf(trace, span) == SelectSeq(Spans(trace), LAMBDA s : s.parent = span.id /\ IsChild(trace, s))
Roots(trace) == SelectSeq(Spans(trace), LAMBDA s : ~IsChild(trace, s))
================================================================================
