------------------------------- MODULE MCDirectRun -------------------------------
(* Applications whose classes have members of every kind, methods with        *)
(* parameters of every form and type, and traces of every shape.              *)
EXTENDS DirectRunScreens

--------------------------------------------------------------------------------
(* Types and values                                                           *)

Type(kind, word, of, keys, text) == [kind |-> kind, word |-> word, of |-> of, keys |-> keys, text |-> text]
Word(w)     == Type("word", w, <<>>, <<>>, <<>>)
Union(of)   == Type("union", "", of, <<>>, <<>>)
ArrayType(of) == Type("array", "", <<of>>, <<>>, <<>>)
Tuple(of)   == Type("tuple", "", of, <<>>, <<>>)
Class(name, keys, of) == Type("object", name, of, keys, <<>>)
Object(keys, of) == Class("", keys, of)
Deep(of)    == ArrayType(ArrayType(ArrayType(of)))
Key(name)   == [name |-> name, optional |-> FALSE]
MaybeKey(name) == [name |-> name, optional |-> TRUE]
Callback    == Type("nameless", "", <<>>, <<>>, <<"(", ")", "=", ">", "void">>)
ByKey       == Type("nameless", "", <<>>, <<>>, <<"{", "[", "key", ":", "string", "]", ":", "number", ";", "}">>)
String == Word("string")
Number == Word("number")

Str(w)     == Value("string", w, <<>>, <<>>)
Num        == Value("number", "1", <<>>, <<>>)
Null       == Value("null", "", <<>>, <<>>)
Obj(members) == Value("object", "", <<>>, members)
NoMembers  == [k \in {} |-> Null]
Strings    == ArrayOf(<<Str("a"), Str("b")>>)
DeepStrings == ArrayOf(<<ArrayOf(<<Strings>>)>>)

Samples == {Str("a"), Str("c"), Num, Strings, ArrayOf(<<>>), ArrayOf(<<Str("a"), Num>>), ArrayOf(<<Strings>>), DeepStrings,
            Obj(NoMembers), Obj([id |-> Str("a")]), Obj([id |-> Num]),
            Obj([id |-> Str("a"), tags |-> Strings]), Obj([id |-> Str("a"), tags |-> Num])}
MCValues == Samples \cup {Str("b"), Null}

--------------------------------------------------------------------------------
(* Classes                                                                    *)

Target(type, name) == [module |-> "Shop", type |-> type, name |-> name]
Cart  == Target("provider", "Cart")
CartC == Target("controller", "Cart")
Stock == Target("provider", "Stock")
Desk  == Target("controller", "Desk")

Param(name, type, form) == [name |-> name, type |-> type, form |-> form]
Plain(name, type) == Param(name, type, "plain")
Member(name, at, is, params, public, spans) ==
    [name |-> name, at |-> at, is |-> is, params |-> params, public |-> public, hook |-> name = "onModuleInit", spans |-> spans]
Method(name, params, spans) == Member(name, "class", "function", params, TRUE, spans)
Span(id, parent, target, method, args) ==
    [id |-> id, parent |-> parent, start |-> id, target |-> target, method |-> method, args |-> args]

Bounds(r, m, s, f) == [runs |-> r, moves |-> m, selects |-> s, failures |-> f]
Application(unsafe, outputs, classes, tries, bounds) ==
    [unsafe |-> unsafe, outputs |-> outputs, targets |-> DOMAIN classes, members |-> classes, tries |-> tries,
     bounds |-> bounds]

(* A provider and a controller of one name, what hides what, what is private, *)
(* inherited, a getter or called by the framework.                            *)
Hiding(members) ==
    members \cup {Method("hidden", <<>>, {}), Method("stored", <<>>, {}),
                  Member("hidden", "instance", "function", <<>>, TRUE, {}),
                  Member("stored", "instance", "value", <<>>, TRUE, {}),
                  Member("inherited", "base", "function", <<>>, TRUE, {}),
                  Member("total", "class", "getter", <<>>, TRUE, {}),
                  Method("onModuleInit", <<>>, {})}
NamesClasses(CartMembers(_)) ==
    (Cart  :> CartMembers({Method("add", <<Plain("item", String)>>,
                             {Span(2, 1, Stock, "take", <<Str("a")>>), Span(3, 1, Stock, "inherited", <<>>),
                              Span(4, 2, CartC, "add", <<>>)})})) @@
    (CartC :> CartMembers({Method("add", <<>>, {})})) @@
    (Stock :> {Member("take", "class", "function", <<Plain("item", String)>>, FALSE, {}),
               Member("inherited", "base", "function", <<>>, TRUE, {})})
NamesTries == "add" :> {<<Str("a")>>}
Same(members) == members
Hidden == Application(<<"no", "yes">>, {"viewer"}, NamesClasses(Hiding), NamesTries, Bounds(2, 1, 2, 1))
Permitted == Application(<<"unset", "unset">>, {"viewer"}, NamesClasses(Hiding), NamesTries, Bounds(1, 0, 1, 1))
Filed  == Application(<<"unset", "unset">>, {"viewer", "json"}, NamesClasses(Same), NamesTries, Bounds(2, 0, 2, 1))

(* One, two, optional and no parameters; calls that left an optional one out. *)
Calls == {Method("none", <<>>, {Span(2, 1, Stock, "put", <<>>), Span(3, 2, Stock, "pair", <<Strings>>)}),
          Method("put", <<Plain("list", ArrayType(String))>>, {}),
          Method("pair", <<Plain("a", String), Plain("b", Union(<<Word("undefined"), ArrayType(String)>>))>>, {})}
CallTries == ("none" :> {<<>>}) @@ ("put" :> {<<Strings>>, <<Num>>}) @@ ("pair" :> {<<Str("a"), Strings>>, <<Str("a")>>})
Defaults == {Method("find", <<Plain("id", String), Param("limit", Number, "default")>>, {}),
             Method("log", <<Param("lines", ArrayType(String), "rest")>>, {})}
DefaultTries == ("find" :> {<<Str("a"), Num>>}) @@ ("log" :> {<<Strings>>})
Arguments == Application(<<"yes", "no">>, {"viewer", "markdown"}, (Stock :> Calls \cup Defaults), CallTries @@ DefaultTries, Bounds(2, 0, 2, 0))

(* Types of every kind, deeper and longer than is written out; a class is     *)
(* written by its name where it is too deep, or has no members.               *)
Types == <<String, Word("'a'"), Union(<<String, Number>>), Union(<<Word("'a'"), Word("'b'")>>), ArrayType(Union(<<String, Number>>)),
           Union(<<String, Number, Word("null")>>), Tuple(<<String, Number>>), Tuple(<<String, String, String>>),
           Object(<<Key("id"), MaybeKey("tags")>>, <<String, ArrayType(String)>>),
           Object(<<Key("id"), Key("tags")>>, <<Union(<<String, Number>>), Union(<<Word("undefined"), ArrayType(String)>>)>>),
           Object(<<Key("id"), MaybeKey("tags"), MaybeKey("more")>>, <<String, Number, Number>>),
           ArrayType(ArrayType(String)), ArrayType(Object(<<Key("id")>>, <<String>>)), Union(<<ArrayType(String), Word("Marker")>>),
           Class("Owner", <<Key("id")>>, <<String>>), Deep(String), Deep(Class("Owner", <<Key("id")>>, <<String>>)), Deep(ByKey)>>
TypeMethods == {Method(ToString(i), <<Plain("x", Types[i])>>, {}) : i \in DOMAIN Types}
Nameless == {Method("on", <<Plain("then", Callback), Plain("id", String)>>, {}), Method("byKey", <<Plain("counts", ByKey)>>, {})}
TypeTries == [n \in {ToString(i) : i \in DOMAIN Types} |-> {<<v>> : v \in Samples}]
                 @@ ("on" :> {<<Null, Str("a")>>, <<Null>>}) @@ ("byKey" :> {<<Obj([id |-> Num])>>})
Forms == Application(<<"unset", "yes">>, {"viewer"}, (Stock :> TypeMethods \cup Nameless), TypeTries, Bounds(1, 0, 1, 0))

(* Traces another recorder may have left: a parent that is not there, itself, *)
(* or below its own child.                                                    *)
Shape(parents) == {Span(i, parents[i], Stock, "take", <<>>) : i \in DOMAIN parents \ {1}}
TakeNothing == Member("take", "class", "function", <<>>, FALSE, {})
Traces(parents) == Application(<<"unset", "no">>, {"viewer", "json"}, (Desk :> {Method("run", <<>>, Shape(parents))}) @@ (Stock :> {TakeNothing}), "run" :> {<<>>}, Bounds(1, 1, 3, 0))

MCApps ==
    [a \in 1..9 |->
        CASE a = 1 -> Hidden
          [] a = 2 -> Filed
          [] a = 3 -> Arguments
          [] a = 4 -> Forms
          [] a = 5 -> Traces(<<0, 1, 2, 2>>)
          [] a = 6 -> Traces(<<0, 1, 9, 3>>)
          [] a = 7 -> Traces(<<0, 2, 4, 3>>)
          [] a = 9 -> Permitted
          [] a = 8 -> Traces(<<0, 4, 2, 3>>)]
================================================================================
