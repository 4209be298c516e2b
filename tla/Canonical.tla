----------------------------- MODULE Canonical -----------------------------
(***************************************************************************)
(* Canonical JSON (src/canonical_json.go): the text of a tree, as tokens,  *)
(* asked for beside the getters.                                           *)
(***************************************************************************)
EXTENDS Getters

CONSTANTS
    Code,       \* [tokens of keys -> their place in the order of code points]
    Serialised, \* [calls -> the trees whose texts CanonicalJSON is asked for]
    Height(_)   \* how many levels a tree has below its root

\* No digit is a mark of JSON.
ASSUME DigitAssumption ==
    DOMAIN Digit \cap {"{", "}", "[", "]", ",", ":", "\"", ".", "-", "e", "true", "false", "null"} = {}

ASSUME CodeAssumption ==
    \A t, u \in DOMAIN Code : Code[t] \in Nat /\ (Code[t] = Code[u] => t = u)

ASSUME SerialisedAssumption == \A c \in Cases : Serialised[c.calls] \subseteq Node

\* Trees are finite.
ASSUME TreeAssumption ==
    \A v \in Node :
        /\ Height(v) \in Nat /\ \A w \in Branches(v) : Height(w) < Height(v)
        /\ IsMapNode(v) => IsFiniteSet(DOMAIN v.map) /\ DOMAIN v.map \subseteq Seq(DOMAIN Code)

Signed(n) == IF n < 0 THEN <<"-">> \o Decimal(-n) ELSE Decimal(n)

\* strconv.FormatFloat(f, 'g', -1, 64); where the mantissa and exponent stand
\* is left out, that the text is not an integer's is not.
FloatText(v) ==
    LET whole == Towards0(v.twice) IN
    CASE ~IsWhole(v) -> (IF v.twice < 0 THEN <<"-">> ELSE <<>>)
                        \o Decimal(IF whole < 0 THEN -whole ELSE whole) \o <<".", "5">>
      [] IsPlainFloat(v) -> Signed(whole)
      [] OTHER -> Signed(whole) \o <<"e">>

\* Mutant: a quote is written as it is.
EscapedCharUnquoted(t) == IF t = "\\" THEN <<"\\", "\\">> ELSE <<t>>
EscapedChar(t) == IF t \in {"\\", "\""} THEN <<"\\", t>> ELSE <<t>>
StringText(s) ==
    <<"\"">> \o FlattenSeq([i \in DOMAIN s |-> EscapedChar(s[i])]) \o <<"\"">>

\* The characters of a lexeme.
Spelled(l) ==
    CASE l.form = "word" -> <<l.word>>
      [] l.form = "decimal" -> Signed(l.n)
      [] OTHER -> <<l.form>> \o Signed(l.n)

Joined(texts) ==
    FlattenSeq([i \in DOMAIN texts |-> (IF i > 1 THEN <<",">> ELSE <<>>) \o texts[i]])

\* sort.Strings: bytewise, the shorter of two that begin alike first.
KeyBefore(a, b) ==
    \/ Len(a) < Len(b) /\ SubSeq(b, 1, Len(a)) = a
    \/ \E i \in DOMAIN a \cap DOMAIN b :
          SubSeq(a, 1, i - 1) = SubSeq(b, 1, i - 1) /\ Code[a[i]] < Code[b[i]]

ScalarText(v) ==
    CASE v.type \in {"int", "int64", "uint64"} -> Signed(v.n)
      [] v.type = "float" -> FloatText(v)
      [] v.type = "bool" -> IF v.b THEN <<"true">> ELSE <<"false">>
      [] v.type = "null" -> <<"null">>
      [] v.type = "string" -> StringText(Spelled(v.lexeme))
      [] v.type = "nan" -> <<>>     \* an error, and no text

Entry(key, text) == StringText(key) \o <<":">> \o text

\* The keys of a map in the order they are written in: the i-th has i - 1 before it.
Keys(v) ==
    LET Before(k) == {l \in DOMAIN v.map : KeyBefore(l, k)}
    IN [i \in 1 .. Cardinality(DOMAIN v.map) |->
           CHOOSE k \in DOMAIN v.map : Cardinality(Before(k)) = i - 1]

\* writeCanonical; a float64 that is no number is an error, asked for first.
CanonicalJSON[v \in Node] ==
    IF IsMapNode(v)
    THEN LET keys == Keys(v) IN
         <<"{">> \o Joined([i \in DOMAIN keys |-> Entry(keys[i], CanonicalJSON[v.map[keys[i]]])])
                \o <<"}">>
    ELSE IF IsListNode(v)
    THEN <<"[">> \o Joined([i \in DOMAIN v.list |-> CanonicalJSON[v.list[i]]]) \o <<"]">>
    ELSE ScalarText(v)

IsSerialisable[v \in Node] == v # Nan /\ \A w \in Branches(v) : IsSerialisable[w]

\* CanonicalJSON of the tree of this handle, and of another tree.
Serialise(other) ==
    /\ tree # None /\ call = None
    /\ Return(Called("canonical", other, <<>>),
              [texts |-> [v \in {w \in {tree, other} : IsSerialisable[w]} |-> CanonicalJSON[v]]])

CanonicalNext == Next \/ \E other \in Serialised[case.calls] : Serialise(other)
CanonicalSpec == Init /\ [][CanonicalNext]_vars

-----------------------------------------------------------------------------
(* What a reader of the text can tell: the tree with its numbers by value. *)

ScalarValue(v) ==
    CASE v.type \in {"int", "int64", "uint64"} -> Value("int", v.n)
      [] v.type = "float" /\ IsPlainFloat(v) -> Value("int", Towards0(v.twice))
      [] v.type = "string" -> [type |-> "string", text |-> Spelled(v.lexeme)]
      [] OTHER -> v

EqualInValue[v \in Node] == [w \in Node |->
    IF IsMapNode(v) \/ IsMapNode(w)
    THEN /\ IsMapNode(v) /\ IsMapNode(w) /\ DOMAIN v.map = DOMAIN w.map
         /\ \A k \in DOMAIN v.map : EqualInValue[v.map[k]][w.map[k]]
    ELSE IF IsListNode(v) \/ IsListNode(w)
    THEN /\ IsListNode(v) /\ IsListNode(w) /\ Len(v.list) = Len(w.list)
         /\ \A i \in DOMAIN v.list : EqualInValue[v.list[i]][w.list[i]]
    ELSE ScalarValue(v) = ScalarValue(w)]

\* Two trees have one canonical text exactly when they are equal, whatever type
\* their integers were decoded to; a whole float64 is the integer as long as
\* it is written without an exponent (canonical_json.go:12-44, 184-245).
TextTellsTreesApart ==
    call # None /\ call.op = "canonical" =>
        \A v, w \in DOMAIN answer.texts :
            answer.texts[v] = answer.texts[w] <=> EqualInValue[v][w]
=============================================================================
