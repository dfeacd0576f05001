----------------------------- MODULE MCGraphJourney -----------------------------
(* Applications of up to four modules beside the inspector's, with every way  *)
(* to import each other, and providers made and injected in every way.        *)
EXTENDS GraphJourney

Class(n)  == ClassToken(n)
Word(n)   == [name |-> n, kind |-> "string", uuid |-> 0]
Guard     == [name |-> "APP_GUARD", kind |-> "enhancer", uuid |-> 1]
ModuleToken(n) == [name |-> n, kind |-> "module", uuid |-> 0]

Wrapper(token, made, name, holds, injects) ==
    [token |-> token, made |-> made, name |-> name, holds |-> holds, injects |-> injects, paths |-> {}]
OfClass(n, injects) == Wrapper(Class(n), "class", n, n, injects)

\* One provider, whose token others may inject, in each of the ways to make it
Making == <<"class", "useClass", "value", "factory", "named", "alias">>
Made(how, injects) ==
    CASE how = "class"    -> OfClass("Store", injects)
      [] how = "useClass" -> Wrapper(Word("STORE"), "class", "Redis", "Redis", injects)
      [] how = "value"    -> Wrapper(Word("STORE"), "value", "", "Object", <<>>)
      [] how = "factory"  -> Wrapper(Word("STORE"), "factory", "useFactory", "Redis", injects)
      [] how = "named"    -> Wrapper(Word("STORE"), "factory", "makeStore", "Redis", injects)
      [] how = "alias"    -> Wrapper(Word("STORE"), "alias", "", "Redis", injects)
TokenOf(how) == IF how = "class" THEN Class("Store") ELSE Word("STORE")

Module(name, imports, exports, providers, controllers) ==
    [name |-> name, inspector |-> FALSE, imports |-> imports, exports |-> exports,
     providers |-> providers, controllers |-> controllers, paths |-> {}]
Inspector(isOwn) == [Module("Inspector", <<>>, <<>>, <<>>, <<>>) EXCEPT !.inspector = isOwn]

Options(root) ==
    [root |-> root, ignore |-> [category \in {"providers"} |-> {"Ignored"}],
     coreName |-> "NestJSCoreModule", coreProviders |-> {"Reflector"}]

Container(modules) ==
    [boot |-> "runtime", modules |-> modules, colons |-> <<>>,
     documented |-> [class \in {"Redis", "Orders"} |-> {"run"}]]

Application(modules, root, configured) ==
    [container |-> Container(modules), entry |-> "App", options |-> Options(root), configured |-> configured]

--------------------------------------------------------------------------------
\* App 2 imports A 3 and B 4; the framework's module is 1, the inspector's 5
Core == Module("InternalCoreModule", <<>>, <<Class("Reflector")>>, <<OfClass("Reflector", <<>>)>>, <<>>)

\* which of its imports a module has, in its order
Some(s, kept) == SelectSeq(s, LAMBDA i : i \in kept)

Family(how, back, aInjects, bInjects, isOwn) ==
    <<Core,
      Module("App", <<1, 3, 4, 5>>, <<>>,
             <<Wrapper(Guard, "class", "Guard", "Guard", <<Class("Reflector")>>)>>, <<>>),
      Module("A", Some(<<1, 4, 2>>, {1} \cup back), <<Class("Orders")>>,
             <<OfClass("Orders", aInjects), OfClass("Ignored", <<>>), OfClass("Mail", <<>>)>>,
             <<Wrapper(Class("OrdersController"), "class", "OrdersController", "OrdersController",
                       <<Class("Orders")>> \o aInjects)>>),
      Module("B", Some(<<3>>, back), <<TokenOf(how)>>, <<Made(how, bInjects)>>, <<>>),
      Inspector(isOwn)>>

Each(F(_), s) == FlattenSeq(Map(F, s))

Injections == <<<<>>, <<Class("Store"), Word("STORE")>>, <<Class("Mail"), Class("Orders"), Word("STORE")>>>>
Backward   == <<{}, {4}, {2, 4}, {3, 4}, {2, 3, 4}>>

FamilyApplications ==
    Each(LAMBDA how : Each(LAMBDA back : Each(LAMBDA a : Map(
        LAMBDA b : Application(Family(how, back, a, b, TRUE), "", "value"),
        <<<<>>, <<Class("Orders")>>>>), Injections), Backward), Making)

\* Options that preview mode cannot read
OtherApplications ==
    Each(LAMBDA isOwn : Each(LAMBDA root : Map(
        LAMBDA configured : Application(Family("class", {4}, <<>>, <<>>, isOwn), root, configured),
        <<"value", "factory">>), <<"", "A", "Gone">>), <<TRUE, FALSE>>)

--------------------------------------------------------------------------------
\* An application, and what became of it: a module more, a provider more
Small == Application(<<Core, Module("App", <<3, 4>>, <<>>, <<>>, <<>>),
                       Module("A", <<>>, <<Class("Orders")>>,
                              <<OfClass("Orders", <<Class("Mail")>>)>>, <<>>),
                       Inspector(TRUE)>>, "", "value")

Grown == Application(<<Core, Module("App", <<3, 4, 5>>, <<>>, <<>>, <<>>),
                       Module("A", <<4>>, <<Class("Orders")>>,
                              <<OfClass("Orders", <<Class("Mail"), Word("STORE")>>), OfClass("Mail", <<Class("Orders")>>)>>, <<>>),
                       Module("B", <<3>>, <<Word("STORE")>>, <<Made("useClass", <<Class("Orders")>>)>>, <<>>),
                       Inspector(TRUE)>>, "", "value")

\* Only a controller injects what an import provides
Served == [Grown EXCEPT !.container.modules[3].providers = <<OfClass("Orders", <<Class("Mail")>>)>>,
                        !.container.modules[3].controllers =
                            <<Wrapper(Class("Web"), "class", "Web", "Web", <<Class("Orders"), Word("STORE")>>)>>]

\* A module that lends what a module it imports provides
Relayed == Application(<<Core, Module("App", <<3, 4, 6>>, <<>>, <<>>, <<>>),
                         Module("M", <<4>>, <<>>, <<OfClass("Sender", <<Word("STORE")>>)>>, <<>>),
                         Module("B", <<5>>, <<ModuleToken("C")>>, <<>>, <<>>),
                         Module("C", <<>>, <<Word("STORE")>>, <<Made("value", <<>>)>>, <<>>),
                         Inspector(TRUE)>>, "", "value")

\* A class registered twice and exported in vain, and two modules of one name,
\* of which only the second imports another
Twice == Application(<<Core, Module("App", <<3, 4, 5, 7>>, <<>>, <<>>, <<>>),
                       Module("A", <<>>, <<Class("Mail")>>, <<OfClass("Mail", <<>>)>>, <<>>),
                       Module("B", <<3>>, <<Class("Orders")>>, <<OfClass("Mail", <<>>), OfClass("Orders", <<Class("Mail")>>)>>, <<>>),
                       Module("B", <<6>>, <<>>, <<OfClass("Late", <<>>)>>, <<>>),
                       Module("C", <<>>, <<>>, <<OfClass("Lone", <<>>)>>, <<>>),
                       Inspector(TRUE)>>, "", "value")

MCApplications == <<Small, Grown, Served, Relayed, Twice>> \o FamilyApplications \o OtherApplications
MCViewed       == {1, 2}
MCMoves        == {Position(620, 70)}
=============================================================================
