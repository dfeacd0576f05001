-------------------------------- MODULE TypeText --------------------------------
(***************************************************************************)
(* A method's parameter types on their way from the compiler to the form   *)
(* its arguments are typed into: written out as text by the graph builder  *)
(* (lib/src/graph-output.builder.ts), read back into checks by the viewer  *)
(* (site/app/utils/direct-run-provider.ts).                                *)
(*                                                                         *)
(* A type is [kind, word, of, keys, text]: its name or the word it is      *)
(* written as, the types it is made of, an object's keys, and what the     *)
(* compiler writes for one that has no name.  A class is an object with a  *)
(* name, or a word when it has no members.  A text is a sequence of        *)
(* tokens: an arrow is two of them, a string literal is one.               *)
(***************************************************************************)
EXTENDS Naturals, FiniteSets, SequencesExt, FiniteSetsExt

CONSTANTS MaxTypeMembers,      \* members of one type that are written out
          MaxTypeDepth         \* how deep types are written out

Unknown == <<"unknown">>
IndexSignature == <<"[", "key", ":", "string", "]", ":", "unknown">>

Joined(texts, delimiter) ==
    FlattenSeq([i \in DOMAIN texts |-> IF i = 1 THEN texts[i] ELSE <<delimiter>> \o texts[i]])
First(s, n) == SubSeq(s, 1, Min({n, Len(s)}))

(* typeReferenceCode: a type is called by its name when it has one. *)
TypeReference(t, otherwise) == IF t.word # "" THEN <<t.word>> ELSE otherwise

WrapArrayItem(text) ==
    IF Contains(text, "|") THEN <<"(">> \o text \o <<")">> ELSE text

AllowsUndefined(t) == t.word = "undefined" \/ (t.kind = "union" /\ \E i \in DOMAIN t.of : t.of[i].word = "undefined")

RECURSIVE TypeCode(_, _)
RenderSequence(types, depth, open, delimiter, close) ==
    open \o Joined([i \in DOMAIN types |-> TypeCode(types[i], depth + 1)], delimiter) \o close

RenderObjectType(t, depth) ==
    LET kept == First(t.keys, MaxTypeMembers)
        Property(i) == (IF kept[i].optional \/ AllowsUndefined(t.of[i]) THEN <<kept[i].name, "?", ":">> ELSE <<kept[i].name, ":">>)
                           \o TypeCode(t.of[i], depth + 1)
        properties == [i \in DOMAIN kept |-> Property(i)]
    IN  <<"{">> \o Joined(IF Len(t.keys) > MaxTypeMembers THEN Append(properties, IndexSignature) ELSE properties, ";") \o <<"}">>

TypeCode(t, depth) ==
    CASE t.kind = "word"                 -> <<t.word>>
      [] t.kind # "word" /\ depth >= MaxTypeDepth -> TypeReference(t, Unknown)
      [] t.kind = "nameless" /\ depth < MaxTypeDepth -> TypeReference(t, t.text)
      [] t.kind = "union" /\ depth < MaxTypeDepth ->
             IF Len(t.of) > MaxTypeMembers THEN Unknown ELSE RenderSequence(t.of, depth, <<>>, "|", <<>>)
      [] t.kind = "tuple" /\ depth < MaxTypeDepth ->
             IF Len(t.of) > MaxTypeMembers THEN <<"unknown", "[", "]">>
             ELSE RenderSequence(t.of, depth, <<"[">>, ",", <<"]">>)
      [] t.kind = "array" /\ depth < MaxTypeDepth -> WrapArrayItem(TypeCode(t.of[1], depth + 1)) \o <<"[", "]">>
      [] t.kind = "object" /\ depth < MaxTypeDepth -> RenderObjectType(t, depth)

(* What the graph says of a method: its parameters as the text of a tuple,    *)
(* by name and type; what marks one optional or a rest is not written.        *)
ParameterTypes(params) ==
    <<"[">> \o Joined([i \in DOMAIN params |-> <<params[i].name, ":">> \o TypeCode(params[i].type, 0)], ",") \o <<"]">>

--------------------------------------------------------------------------------
(* Reading it back                                                            *)

Opens  == {"{", "[", "(", "<"}
Closes == {"}", "]", ")", ">"}
Before(text, i, tokens) == Cardinality({j \in 1..(i - 1) : text[j] \in tokens})

(* scanTopLevel: the places outside every bracket.  The arrow of a function   *)
(* type closes a bracket it never opened: nothing after it is top level.      *)
IsTopLevel(text, i) ==
    /\ text[i] \notin Opens \cup Closes
    /\ Before(text, i, Opens) = Before(text, i, Closes)
FindTopLevelSeparator(text, separator) ==
    LET at == {i \in DOMAIN text : text[i] = separator /\ IsTopLevel(text, i)} IN IF at = {} THEN 0 ELSE Min(at)

SplitTopLevel(text, separators) ==
    LET ends == {i \in DOMAIN text : text[i] \in separators /\ IsTopLevel(text, i)} \cup {Len(text) + 1}
        Nth(n) == CHOOSE e \in ends : Cardinality({b \in ends : b <= e}) = n
        Part(n) == SubSeq(text, IF n = 1 THEN 1 ELSE Nth(n - 1) + 1, Nth(n) - 1)
    IN  SelectSeq([n \in 1..Cardinality(ends) |-> Part(n)], LAMBDA part : part # <<>>)

Inside(text) == SubSeq(text, 2, Len(text) - 1)
Encloses(text, open, close) == Len(text) >= 2 /\ text[1] = open /\ text[Len(text)] = close
EnclosesWholeValue(text) ==
    \A i \in 2..(Len(text) - 1) : Before(text, i + 1, {"("}) > Before(text, i + 1, {")"})

RECURSIVE StripOuterParens(_)
StripOuterParens(text) ==
    IF Encloses(text, "(", ")") /\ EnclosesWholeValue(text) THEN StripOuterParens(Inside(text)) ELSE text

TupleBody(text) == LET t == StripOuterParens(text) IN IF Encloses(t, "[", "]") THEN Inside(t) ELSE <<>>

(* The types of a method's parameters, as the viewer reads them. *)
ParameterInfos(text) ==
    LET parameters == SplitTopLevel(TupleBody(text), {","})
        TypeOf(p) == SubSeq(p, FindTopLevelSeparator(p, ":") + 1, Len(p))
    IN  [i \in DOMAIN parameters |-> TypeOf(parameters[i])]

(* A value is [json, word, items, members]. *)
Literals == [w \in {"'a'", "'b'"} |-> IF w = "'a'" THEN "a" ELSE "b"]
IsArrayType(text) ==
    /\ Len(text) > 2 /\ text[Len(text) - 1] = "[" /\ text[Len(text)] = "]"
    /\ StripOuterParens(SubSeq(text, 1, Len(text) - 2)) # <<>>
IsGenericArray(text) == Len(text) > 3 /\ text[1] \in {"Array", "ReadonlyArray"} /\ text[2] = "<" /\ text[Len(text)] = ">"

(* A property no object need have: one marked so, or of a type that lists     *)
(* undefined; and zod lets one be missing whose type accepts anything.        *)
MayBeMissing(rawName, text) ==
    \/ rawName[Len(rawName)] = "?"
    \/ Contains(SplitTopLevel(text, {"|"}), <<"undefined">>)
    \/ text \in {Unknown, <<"any">>}

RECURSIVE Accepts(_, _)
ObjectTypeAccepts(body, v) ==
    /\ v.json = "object"
    /\ \A member \in ToSet(SplitTopLevel(body, {";", ","})) :
           LET colon == FindTopLevelSeparator(member, ":")
               rawName == SubSeq(member, 1, colon - 1)
               type == SubSeq(member, colon + 1, Len(member))
           IN  colon > 1 => IF rawName[1] \in DOMAIN v.members THEN Accepts(type, v.members[rawName[1]])
                            ELSE MayBeMissing(rawName, type)

TupleAccepts(types, v) ==
    v.json = "array" /\ Len(v.items) = Len(types) /\ \A i \in DOMAIN types : Accepts(types[i], v.items[i])

UnionAccepts(parts, v) ==
    LET given == SelectSeq(parts, LAMBDA part : part \notin {<<"undefined">>, <<"void">>})
    IN  given = <<>> \/ \E i \in DOMAIN given : Accepts(given[i], v)

(* typeScriptTypeToZodSchema: whether the check made of a type lets `v` pass. *)
Accepts(raw, v) ==
    LET text  == StripOuterParens(raw)
        parts == SplitTopLevel(text, {"|"})
    IN  IF text \in {<<"string">>, <<"number">>, <<"boolean">>, <<"null">>, <<"object">>} THEN v.json = text[1]
        ELSE IF Len(text) = 1 /\ text[1] \in DOMAIN Literals THEN v.json = "string" /\ v.word = Literals[text[1]]
        ELSE IF Len(parts) > 1 THEN UnionAccepts(parts, v)
        ELSE IF IsGenericArray(text)
             THEN v.json = "array" /\ \A i \in DOMAIN v.items : Accepts(SubSeq(text, 3, Len(text) - 1), v.items[i])
        ELSE IF IsArrayType(text)
             THEN v.json = "array" /\ \A i \in DOMAIN v.items : Accepts(SubSeq(text, 1, Len(text) - 2), v.items[i])
        ELSE IF Encloses(text, "[", "]") THEN TupleAccepts(SplitTopLevel(Inside(text), {","}), v)
        ELSE IF Encloses(text, "{", "}") THEN ObjectTypeAccepts(Inside(text), v)
        ELSE TRUE

(* buildDirectRunArgsSchema: one value for each parameter. *)
ArgumentsAccepted(text, values) ==
    LET types == ParameterInfos(text)
    IN  Len(values) = Len(types) /\ \A i \in DOMAIN types : Accepts(types[i], values[i])

--------------------------------------------------------------------------------
(* What a type means, whatever its text                                       *)

RECURSIVE Fits(_, _)
Fits(t, v) ==
    CASE t.kind = "word" ->
             IF t.word \in {"string", "number", "boolean", "null", "object"} THEN v.json = t.word
             ELSE IF t.word \in DOMAIN Literals THEN v.json = "string" /\ v.word = Literals[t.word]
             ELSE t.word # "undefined"
      [] t.kind = "union"    -> \E i \in DOMAIN t.of : Fits(t.of[i], v)
      [] t.kind = "array"    -> v.json = "array" /\ \A i \in DOMAIN v.items : Fits(t.of[1], v.items[i])
      [] t.kind = "tuple"    -> v.json = "array" /\ Len(v.items) = Len(t.of) /\ \A i \in DOMAIN t.of : Fits(t.of[i], v.items[i])
      [] t.kind = "nameless" -> TRUE
      [] t.kind = "object"   ->
             /\ v.json = "object"
             /\ \A i \in DOMAIN t.keys :
                    IF t.keys[i].name \in DOMAIN v.members THEN Fits(t.of[i], v.members[t.keys[i].name])
                    ELSE t.keys[i].optional \/ AllowsUndefined(t.of[i])

(* A type all of which the text shows. *)
RECURSIVE IsShown(_, _)
IsShown(t, depth) ==
    \/ t.kind = "word"
    \/ /\ t.kind # "nameless" /\ depth < MaxTypeDepth /\ Len(t.of) <= MaxTypeMembers
       /\ \A i \in DOMAIN t.of : IsShown(t.of[i], depth + 1)
(* A type without a name in it, that is written by its text. *)
RECURSIVE HasNameless(_, _)
HasNameless(t, depth) ==
    \/ t.kind = "nameless" /\ t.word = "" /\ depth < MaxTypeDepth
    \/ \E i \in DOMAIN t.of : HasNameless(t.of[i], depth + 1)
================================================================================
