------------------------------ MODULE MCGraphAgent ------------------------------
(* Names in the likeness of the demo application's.  A provider of one name in *)
(* two modules, a module that is re-exported, a symbol that contains another  *)
(* name, circles, a diamond, and a token that is not declared.                *)
EXTENDS GraphAgent

MCFold == [w \in {"App", "User", "Order", "Config", "Module", "Service", "Repository", "Controller", "Log",
                  "user", "service", "the", "Symbol", "(", ")", "_", "CONFIG", "SERVICE", " ", "Db", "db"} |->
    CASE w \in {"User", "user"} -> "user"
      [] w \in {"Service", "service", "SERVICE"} -> "service"
      [] w \in {"Config", "CONFIG"} -> "config"
      [] w \in {"Db", "db"} -> "db"
      [] w \in {"(", ")", "_", " "} -> ""
      [] OTHER -> w]
MCWordLength == [w \in {MCFold[v] : v \in DOMAIN MCFold} |-> IF w = "" THEN 0 ELSE IF w = "db" THEN 2 ELSE 5]

App == <<"App", "Module">>
User == <<"User", "Module">>
Order == <<"Order", "Module">>
Config == <<"Config", "Module">>
UserService == <<"User", "Service">>
UserRepository == <<"User", "Repository">>
UserController == <<"User", "Controller">>
OrderService == <<"Order", "Service">>
ConfigService == <<"Config", "Service">>
ConfigSymbol == <<"Symbol", "(", "CONFIG", "_", "SERVICE", ")">>
Log == <<"Log">>
Db == <<"Db">>

On(token, module) == [token |-> token, providedBy |-> module]
Has(name, dependencies) == [name |-> name, dependencies |-> dependencies]
Mod(imports, exports, providers, controllers) ==
    [imports |-> imports, exports |-> exports, providers |-> providers, controllers |-> controllers]

NoGraph == [order |-> <<>>, modules |-> <<>>]
Demo ==
    [order |-> <<App, User, Order, Config>>,
     modules |->
        (App :> Mod({User, Order, Config}, {Config}, <<Has(Log, <<>>)>>, <<>>)) @@
        (User :> Mod({Order, Config}, {UserService},
                     <<Has(UserRepository, <<On(ConfigSymbol, Config)>>),
                       Has(UserService, <<On(OrderService, Order), On(UserRepository, User), On(Log, User)>>),
                       Has(Log, <<>>)>>,
                     <<Has(UserController, <<On(UserService, User)>>)>>)) @@
        (Order :> Mod({User}, {OrderService},
                      <<Has(OrderService, <<On(UserService, User), On(ConfigService, Config)>>)>>, <<>>)) @@
        (Config :> Mod({}, {ConfigService, ConfigSymbol}, <<Has(ConfigService, <<>>)>>, <<>>))]
Diamond ==
    [order |-> <<App, Order>>,
     modules |->
        (App :> Mod({Order}, {},
                    <<Has(UserService, <<On(UserRepository, App), On(OrderService, Order)>>),
                      Has(UserRepository, <<On(Db, App)>>),
                      Has(Db, <<On(Log, Order), On(Db, NoModule)>>)>>,
                    <<>>)) @@
        (Order :> Mod({}, {Log}, <<Has(OrderService, <<On(Db, App)>>), Has(Log, <<On(OrderService, Order)>>)>>, <<>>))]
MCGraphs == ("none" :> NoGraph) @@ ("demo" :> Demo) @@ ("diamond" :> Diamond)

MCQueries ==
    {App, User, UserService, ConfigService, ConfigSymbol, Log, Db, <<"user", "_", "service">>,
     <<" ", "User", "Service">>, <<"the", " ", "user", " ", "service">>, <<"User">>, <<"Service">>, <<"Module">>,
     <<"CONFIG", "_", "SERVICE">>, <<"db">>, <<"the", "Order">>, <<"the">>, <<"(", ")">>, <<>>}

Call == <<"{", "call", "}">>
Block == CallOpen \o Call \o CallClose
MCReplies ==
    {<<>>,
     Block \o <<"word">> \o CallOpen \o <<"space">> \o Call \o CallClose,
     ThinkOpen \o Block \o <<"<", "t">> \o ThinkClose \o <<"word">>,
     <<"space">> \o Call,
     <<"{", "name", "}", "word", "<", "t">>,
     <<"{", "quote", "}", "quote", "call", "}", "word">>,
     CallOpen \o <<"{", "name", "}">> \o CallClose \o <<"word">>,
     <<"word">> \o CallOpen \o <<"{", "call">>}

Message(type, size) == [type |-> type, calls |-> 0, size |-> size, turn |-> 0]
MCRuns ==
    {[asked |-> "none", transcript |-> <<Message("human", 1)>>],
     [asked |-> "diamond", transcript |-> <<Message("human", 1)>>],
     [asked |-> "demo", transcript |-> <<Message("human", 1), Message("ai", 2), Message("human", 1)>>]}
=============================================================================
