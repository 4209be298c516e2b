----------------------------- MODULE MCGetters -----------------------------
(***************************************************************************)
(* The scalars, trees, paths and targets Getters and Canonical are checked *)
(* with.                                                                   *)
(***************************************************************************)
EXTENDS Canonical, TLC

CONSTANT PathLength     \* bound: tokens of a path

MCDigit == "0" :> 0 @@ "1" :> 1 @@ "2" :> 2 @@ "3" :> 3 @@ "4" :> 4
           @@ "5" :> 5 @@ "6" :> 6 @@ "7" :> 7 @@ "8" :> 8 @@ "9" :> 9
MCOctal == 1 :> 1 @@ 10 :> 8

Numbers(forms, ns) == [form : forms, n : ns]
\* With MaxInt = 15 and MaxSafe = 7: every boundary and both sides of it.
Boundaries == {-18, -17, -16, -15, -9, -8, -7, -6, -1, 0, 1, 5, 6, 7, 8, 9, 14, 15, 16, 17, 30, 31, 32, 33}
Lexemes ==
    Numbers({"decimal", "point", "exp"}, Boundaries)
    \cup Numbers({"plus", "hex"}, Boundaries \cap Nat)
    \cup Numbers({"zeros"}, {1, 8, 10}) \cup Numbers({"half"}, {-9, -8, -7, -5, -4, -2, 0, 3, 4, 5, 6, 7, 8})
    \cup Words({"true", "True", "false", "yes", "no", "on", "off", "y", "n", "null", ".nan",
                "NaN", "text"})

Five == [form |-> "decimal", n |-> 5]
MapOf(f) == [map |-> f]
ListOf(s) == [list |-> s]
Word == Text([form |-> "word", word |-> "other"])
MCTreeOf(shape, v) ==
    CASE shape = "fields" ->
           MapOf(<<"s">> :> MapOf(<<"a">> :> v @@ <<"l">> :> ListOf(<<Null, v>>)
                                  @@ <<"m">> :> MapOf(<<"a">> :> v)))
      [] shape = "dotted" ->
           MapOf(<<"s">> :> MapOf(<<"a", ".", "l">> :> v @@ <<"a">> :> MapOf(<<"l">> :> Word)
                                  @@ <<>> :> v @@ <<"l", "[", "0", "]">> :> v @@ <<"m", "]">> :> v
                                  @@ <<"m">> :> MapOf(<<"a", ".", "l">> :> v)))
      [] shape = "quoted" -> MapOf(<<"a">> :> Value("int", 5) @@ <<"a", "1">> :> v)
      [] shape = "lists" ->
           MapOf(<<"s">> :> ListOf(<<ListOf(<<v>>), v>>) @@ <<"1">> :> MapOf(<<"]">> :> v)
                 @@ <<"a">> :> v)

UpTo(n, tokens) == UNION {[1 .. m -> tokens] : m \in 0 .. n}

Target(kind) == <<"a">> :> [scalar |-> kind] @@ <<"l">> :> [list |-> kind] @@ <<"m">> :> [map |-> kind]
Misfits == {<<"a">> :> [list |-> "int"], <<"l">> :> [scalar |-> "int"], <<"m">> :> [list |-> "int"]}
DottedTarget == <<"a", ".", "l">> :> [scalar |-> "string"] @@ <<"m", "]">> :> [scalar |-> "string"]
                @@ <<"m">> :> [map |-> "string"]

MCAsked ==
    "scalars" :> [paths |-> {<<"s">>, <<"s", ".", "a">>},
                  targets |-> {Target(kind) : kind \in {"int", "uint", "float", "bool", "string"}}]
    @@ "paths" :> [paths |-> UpTo(PathLength, {"s", "a", "l", "1", ".", "[", "]"}),
                   targets |-> {DottedTarget} \cup Misfits]
    @@ "indices" :> [paths |-> {<<"s", "[">> \o index \o <<"]">> :
                                  index \in UpTo(3, {"0", "1", "+", "-"})},
                     targets |-> {}]
    @@ "texts" :> [paths |-> {}, targets |-> {}]

\* Trees that differ in nesting, in keys, in the type of a scalar.
Quoted(k) == <<"a", "\"", ":", k, ",", "\"", "a", "1">>
SerialisedTrees(v) ==
    {v, MCTreeOf("fields", v), MCTreeOf("dotted", v), MCTreeOf("lists", v),
     ListOf(<<v, v>>), ListOf(<<ListOf(<<v>>), v>>), ListOf(<<v, ListOf(<<v>>)>>),
     ListOf(<<>>), MapOf([k \in {} |-> v]), MapOf(<<"a">> :> v),
     MapOf(<<"a">> :> v @@ <<"a", "1">> :> v), MapOf(Quoted("5") :> v)}
OtherScalars ==
    {Value("int", 5), Value("int64", 5), Value("uint64", 31), Float(5), Float(6), Float(-6),
     [type |-> "float", twice |-> 11], Bool(TRUE), Null, Nan}
    \cup {Text(l) : l \in Words({"true", "null", "text"}) \cup {Five}}
MCSerialised ==
    [c \in DOMAIN MCAsked |->
        IF c = "texts" THEN UNION {SerialisedTrees(v) : v \in OtherScalars} ELSE {}]
MCCode == "\"" :> 1 @@ "," :> 2 @@ "." :> 3 @@ "0" :> 4 @@ "1" :> 5 @@ "5" :> 6 @@ ":" :> 7
          @@ "[" :> 8 @@ "]" :> 9 @@ "a" :> 10 @@ "l" :> 11 @@ "m" :> 12 @@ "s" :> 13

MCCases ==
    [origin : {"yaml", "json", "string"}, lexeme : Lexemes, shape : {"fields"}, calls : {"scalars"}]
    \cup [origin : {"yaml"}, lexeme : {Five} \cup Words({"null", "text"}),
          shape : {"fields", "dotted", "lists"}, calls : {"paths"}]
    \cup [origin : {"yaml"}, lexeme : {Five}, shape : {"lists"}, calls : {"indices"}]
    \cup [origin : {"yaml", "json", "string"},
          lexeme : {Five} \cup Numbers({"decimal", "point"}, {5, 6, -6}) \cup Words({"null", "true", "text"}),
          shape : {"fields", "dotted", "lists", "quoted"}, calls : {"texts"}]

\* The tokens of all paths and keys, and the trees with all below their roots.
MCToken == DOMAIN MCCode \cup DOMAIN MCDigit \cup {"+", "-"}
WithBranches(nodes) == nodes \cup UNION {Branches(v) : v \in nodes}
Trees ==
    WithBranches(WithBranches(WithBranches(
        {MCTreeOf(c.shape, Decoded(c.origin, c.lexeme)) :
           c \in {x \in MCCases : Decodable(x.origin, x.lexeme)}}
        \cup UNION {MCSerialised[c] : c \in DOMAIN MCAsked})))
MCNode == Trees     \* TLC keeps the value of Trees

RECURSIVE MCHeight(_)
MCHeight(v) == IF Branches(v) = {} THEN 0 ELSE 1 + Max({MCHeight(w) : w \in Branches(v)})
=============================================================================
