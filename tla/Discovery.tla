------------------------------- MODULE Discovery -------------------------------
(* What DiscoveryAdapter (lib/src/adapters/discovery.ts) finds in the         *)
(* container of a Nest application: a module tree, and for each module its    *)
(* exports, providers, controllers and what they inject, by name.  A          *)
(* container is a constant of this module's operators; the adapter only reads *)
(* it.                                                                        *)
(*                                                                            *)
(*   token     [name, kind, uuid]: a class, a string, a module, or the token  *)
(*             Nest gives a global enhancer, with a UUID of its own each boot *)
(*   wrapper   [token, made, name, holds, injects, paths]: a "class",         *)
(*             "value", "factory" or "alias" provider; `name` is its          *)
(*             metatype's, `holds` the class of its instance once it has one, *)
(*             `paths` the file and the routes an option may ignore it by     *)
(*   module    [name, inspector, imports, exports, providers, controllers,    *)
(*             paths]: imports are places in the container, in order          *)
(*   container [boot, modules, documented, colons]: how it was booted, its    *)
(*             modules in registration order, the public methods of the       *)
(*             classes the application's sources tell of, and the names that  *)
(*             hold a colon, each cut at the first                            *)
(*   options   [root, ignore, coreName, coreProviders]                        *)
EXTENDS Integers, Sequences, FiniteSets, SequencesExt

Map(F(_), s) == [i \in DOMAIN s |-> F(s[i])]
Once(s) == FoldLeft(LAMBDA seen, x : IF Contains(seen, x) THEN seen ELSE Append(seen, x), <<>>, s)
FirstOf(s, P(_), default) ==
    LET fits == SelectSeq(s, P) IN IF fits = <<>> THEN default ELSE Head(fits)

--------------------------------------------------------------------------------
(* Names                                                                      *)

ClassToken(class) == [name |-> class, kind |-> "class", uuid |-> 0]

(* The name of a token; a global enhancer's goes without its UUID. *)
TokenName(token) == token.name

IsFactoryWrapper(w) == w.made \in {"factory", "alias"}

(* Preview mode calls no factory, and makes its classes' instances bare. *)
InstanceClass(c, w) == IF IsFactoryWrapper(w) /\ c.boot = "preview" THEN "" ELSE w.holds

FactoryName(w) == IF w.made = "alias" \/ w.name = "useFactory" THEN "" ELSE w.name

WrapperClassName(c, w) == IF w.name # "" THEN w.name ELSE InstanceClass(c, w)

MemberClassNameOfInstance(c, w) == WrapperClassName(c, w)
MemberClassName(c, w) ==
    IF IsFactoryWrapper(w) THEN FactoryName(w) ELSE WrapperClassName(c, w)

MemberName(c, w) ==
    IF MemberClassName(c, w) # "" THEN MemberClassName(c, w) ELSE TokenName(w.token)

--------------------------------------------------------------------------------
(* What is left out of the graph                                              *)

(* The patterns of one category, or its default when none is configured. *)
Ignored(o, category) ==
    IF category \in DOMAIN o.ignore THEN o.ignore[category]
    ELSE IF category = "paths" THEN {"node_modules"} ELSE {}

HasIgnoredPath(o, x) == x.paths \cap Ignored(o, "paths") # {}

(* Never the inspector's own module, whatever the options say. *)
ShouldIgnoreModule(c, o, r) ==
    LET m == c.modules[r]
    IN  m.inspector \/ m.name \in Ignored(o, "modules") \/ HasIgnoredPath(o, m)

ShouldIgnoreProvider(o, name, w) ==
    \/ {name, TokenName(w.token)} \cap Ignored(o, "providers") # {}
    \/ HasIgnoredPath(o, w)

ShouldIgnoreController(o, name, w) ==
    name \in Ignored(o, "controllers") \/ HasIgnoredPath(o, w)

--------------------------------------------------------------------------------
(* Dependencies.  Each has the module it comes from, "" for one that is taken *)
(* for the module's own, and the name it has there.                           *)

IsSameProviderToken(c, w, token) ==
    \/ w.token = token
    \/ w.made = "class" /\ token = ClassToken(w.name)
    \/ ~IsFactoryWrapper(w) /\ InstanceClass(c, w) # "" /\ token = ClassToken(InstanceClass(c, w))

Providing(c, r, token) ==
    SelectSeq(c.modules[r].providers, LAMBDA w : IsSameProviderToken(c, w, token))

IsExportedProviderToken(c, r, token) ==
    \E e \in Range(c.modules[r].exports) : TokenName(e) = TokenName(token)

(* Imports that export the name but provide no such token still lend it       *)
(* their own.                                                                 *)
FormatDependencyName(c, r, token) ==
    LET lender == FirstOf(c.modules[r].imports, LAMBDA i : IsExportedProviderToken(c, i, token), 0)
    IN  [module |-> IF lender = 0 THEN "" ELSE c.modules[lender].name, name |-> TokenName(token)]

(* The first of: a core provider, the module's own, one that a module it      *)
(* imports itself both provides and exports, or the bare name.                *)
ResolveDependencyName(c, o, r, token) ==
    LET own  == Providing(c, r, token)
        from == FirstOf(c.modules[r].imports,
                        LAMBDA i : IsExportedProviderToken(c, i, token) /\ Providing(c, i, token) # <<>>, 0)
    IN  IF TokenName(token) \in o.coreProviders
        THEN [module |-> o.coreName, name |-> TokenName(token)]
        ELSE IF own # <<>> THEN [module |-> "", name |-> MemberName(c, Head(own))]
        ELSE IF from # 0
        THEN [module |-> c.modules[from].name, name |-> MemberName(c, Head(Providing(c, from, token)))]
        ELSE FormatDependencyName(c, r, token)

(* Each once; a constructor's plain objects are left out, a factory's not. *)
ExtractDependencies(c, o, r, w) ==
    LET all == Map(LAMBDA token : ResolveDependencyName(c, o, r, token), w.injects)
    IN  Once(IF IsFactoryWrapper(w) THEN all
             ELSE SelectSeq(all, LAMBDA d : d # [module |-> "", name |-> "Object"]))

--------------------------------------------------------------------------------
(* Members                                                                    *)

Member(c, o, r, w) == [name |-> MemberName(c, w), dependencies |-> ExtractDependencies(c, o, r, w)]

(* Nest registers each module as a provider of itself, under its own name. *)
ExtractProviders(c, o, r) ==
    Map(LAMBDA w : Member(c, o, r, w),
        SelectSeq(c.modules[r].providers,
                  LAMBDA w : /\ ~ShouldIgnoreProvider(o, MemberName(c, w), w)
                             /\ MemberName(c, w) # c.modules[r].name))

ExtractControllers(c, o, r) ==
    Map(LAMBDA w : Member(c, o, r, w),
        SelectSeq(c.modules[r].controllers, LAMBDA w : ~ShouldIgnoreController(o, MemberName(c, w), w)))

(* The instances behind the names: of two members with one name, the last. *)
ExtractInstances(c, wrappers, members) ==
    [n \in {m.name : m \in Range(members)} |->
        InstanceClass(c, Last(SelectSeq(wrappers, LAMBDA w : MemberName(c, w) = n)))]

ExtractExports(c, o, r) ==
    LET m       == c.modules[r]
        Own(e)  == SelectSeq(m.providers, LAMBDA w : w.token = e)
        Kept(e) == IF Own(e) # <<>>
                   THEN ~ShouldIgnoreProvider(o, MemberName(c, Own(e)[1]), Own(e)[1])
                   ELSE /\ TokenName(e) \notin Ignored(o, "modules") \cup Ignored(o, "providers")
                        /\ \A i \in Range(m.imports) :
                               c.modules[i].inspector => TokenName(e) # c.modules[i].name
    IN  Map(TokenName, SelectSeq(m.exports, Kept))

--------------------------------------------------------------------------------
(* The tree, as the list of its nodes in the order they are visited           *)

Children(c, o, r) == SelectSeq(c.modules[r].imports, LAMBDA i : ~ShouldIgnoreModule(c, o, i))

(* A module met again is a reference: it has a name, and no children. *)
RECURSIVE ResolveModuleTree(_, _, _, _)
ResolveModuleTree(c, o, pending, visited) ==
    IF pending = <<>> THEN <<>>
    ELSE LET r     == Head(pending)
             below == IF r \in visited THEN <<>> ELSE Children(c, o, r)
         IN  <<[ref |-> r, children |-> below]>>
             \o ResolveModuleTree(c, o, below \o Tail(pending), visited \cup {r})

NodeWith(c, o, node, providers, controllers) ==
    LET m == c.modules[node.ref]
    IN  [name                |-> m.name,
         imports             |-> Map(LAMBDA i : c.modules[i].name, node.children),
         exports             |-> ExtractExports(c, o, node.ref),
         providers           |-> providers,
         providerInstances   |-> ExtractInstances(c, m.providers, providers),
         controllers         |-> controllers,
         controllerInstances |-> ExtractInstances(c, m.controllers, controllers)]

ResolveModuleMembers(c, o, node) ==
    NodeWith(c, o, node, ExtractProviders(c, o, node.ref), ExtractControllers(c, o, node.ref))

(* The core providers something injects, as a module of their own. *)
NestCoreModule(o, nodes) ==
    LET used == {d.name : d \in {e \in UNION {Range(x.dependencies) :
                     x \in UNION {Range(n.providers \o n.controllers) : n \in Range(nodes)}} :
                 e.module = o.coreName}} \cap o.coreProviders
        list == SetToSortSeq(used, LAMBDA a, b : FALSE)
    IN  IF used = {} THEN <<>>
        ELSE <<[name                |-> o.coreName,
                imports             |-> <<>>,
                exports             |-> list,
                providers           |-> Map(LAMBDA n : [name |-> n, dependencies |-> <<>>], list),
                providerInstances   |-> <<>>,
                controllers         |-> <<>>,
                controllerInstances |-> <<>>]>>

(* The root is named by the options, or is the first module that imports the  *)
(* inspector; 0 when there is none and the scan throws.                       *)
RootModule(c, o) ==
    LET all == [i \in DOMAIN c.modules |-> i]
    IN  IF o.root # ""
        THEN FirstOf(all, LAMBDA r : c.modules[r].name = o.root, 0)
        ELSE FirstOf(all, LAMBDA r : /\ c.modules[r].name # "InternalCoreModule" /\ ~ShouldIgnoreModule(c, o, r)
                                     /\ \E i \in Range(c.modules[r].imports) : c.modules[i].inspector, 0)

WithCore(o, nodes) == nodes \o NestCoreModule(o, nodes)

Scan(c, o) ==
    WithCore(o, Map(LAMBDA n : ResolveModuleMembers(c, o, n),
                    ResolveModuleTree(c, o, <<RootModule(c, o)>>, {})))
=============================================================================
