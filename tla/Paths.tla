------------------------------- MODULE Paths -------------------------------
(***************************************************************************)
(* Dot-notation paths and the walk along them (src/paths.go).  A segment   *)
(* is a key, a sequence of tokens, or an index; a tree is made of          *)
(* [map |-> f], [list |-> s] and values.                                   *)
(***************************************************************************)
EXTENDS Tokens

CONSTANTS
    Token,      \* the tokens of paths and keys
    Digit,      \* [digit tokens -> their numbers]
    MaxIndex    \* the largest int

Marks == {".", "[", "]", "+", "-"}

ASSUME TokenAssumption ==
    /\ Marks \cup DOMAIN Digit \subseteq Token
    /\ Marks \cap DOMAIN Digit = {}
    /\ Digit \in [DOMAIN Digit -> 0 .. 9]
    /\ \A n \in 0 .. 9 : \E d \in DOMAIN Digit : Digit[d] = n

ASSUME MaxIndexAssumption == MaxIndex \in Nat

Index(n) == [index |-> n]
Key(tokens) == [key |-> tokens]
IsIndex(segment) == DOMAIN segment = {"index"}

-----------------------------------------------------------------------------
(* parsePath: the set of the segments, empty for a parse_error.            *)

\* strconv.Atoi, to the numbers >= 0: one optional sign, digits.
IsNegative(s) == s # <<>> /\ s[1] = "-"
Unsigned(s) == IF s # <<>> /\ s[1] \in {"+", "-"} THEN Tail(s) ELSE s
IsAtoi(s) == Unsigned(s) # <<>> /\ Range(Unsigned(s)) \subseteq DOMAIN Digit
Atoi(s) ==
    LET value[n \in 0 .. Len(Unsigned(s))] ==
          IF n = 0 THEN 0 ELSE 10 * value[n - 1] + Digit[Unsigned(s)[n]]
    IN value[Len(Unsigned(s))]

IsArrayIndex(s) == IsAtoi(s) /\ Atoi(s) <= MaxIndex /\ (IsNegative(s) => Atoi(s) = 0)

\* Mutant: a key may hold a bracket.
KeyEndAtDot(s, i) ==
    IF IndexFrom(s, i, ".") = 0 THEN Len(s) ELSE IndexFrom(s, i, ".") - 1

\* Where the key that starts at i ends: before the next "." or "[".
KeyEnd(s, i) ==
    LET stops == {j \in i .. Len(s) : s[j] \in {".", "["}}
    IN IF stops = {} THEN Len(s) ELSE Min(stops) - 1

Prefixed(segment, parses) == {<<segment>> \o rest : rest \in parses}

\* The index in the brackets that open at i.
IndexAt(s, i) == SubSeq(s, i + 1, IndexFrom(s, i, "]") - 1)
IsIndexAt(s, i) == IndexFrom(s, i, "]") # 0 /\ IsArrayIndex(IndexAt(s, i))

\* separable: a "." may stand here, and the path may end here.
ParsePath(s) ==
    LET from[i \in 1 .. Len(s) + 1] ==
          [separable \in BOOLEAN |->
             IF i > Len(s) THEN IF separable THEN {<<>>} ELSE {}
             ELSE IF s[i] = "." THEN IF separable THEN from[i + 1][FALSE] ELSE {}
             ELSE IF s[i] = "["
             THEN IF IsIndexAt(s, i)
                  THEN Prefixed(Index(Atoi(IndexAt(s, i))), from[IndexFrom(s, i, "]") + 1][TRUE])
                  ELSE {}
             ELSE Prefixed(Key(SubSeq(s, i, KeyEnd(s, i))), from[KeyEnd(s, i) + 1][TRUE])]
    IN from[1][FALSE]

Decimal(number) ==
    LET digits[n \in 0 .. number] ==
          LET last == <<CHOOSE d \in DOMAIN Digit : Digit[d] = n % 10>>
          IN IF n < 10 THEN last ELSE digits[n \div 10] \o last
    IN digits[number]

\* Mutant: no separator before the second segment.
PieceTight(segments, n) ==
    CASE IsIndex(segments[n]) -> <<"[">> \o Decimal(segments[n].index) \o <<"]">>
      [] ~IsIndex(segments[n]) /\ n > 2 -> <<".">> \o segments[n].key
      [] OTHER -> segments[n].key

\* One turn of formatTraversed, and all of them.
Piece(segments, n) ==
    CASE IsIndex(segments[n]) -> <<"[">> \o Decimal(segments[n].index) \o <<"]">>
      [] ~IsIndex(segments[n]) /\ n > 1 -> <<".">> \o segments[n].key
      [] OTHER -> segments[n].key
Formatted(segments) ==
    LET text[n \in 0 .. Len(segments)] ==
          IF n = 0 THEN <<>> ELSE text[n - 1] \o Piece(segments, n)
    IN text[Len(segments)]

\* A key that a path can hold.
IsPlainKey(k) == k # <<>> /\ Range(k) \cap {".", "["} = {}

-----------------------------------------------------------------------------
(* navigate, and what stops it.                                            *)

IsMapNode(v) == DOMAIN v = {"map"}
IsListNode(v) == DOMAIN v = {"list"}

Found(v) == [found |-> v]
Stopped(reason, path) == [reason |-> reason, path |-> path]
IsFound(result) == "found" \in DOMAIN result

\* The n-th segment, from where the segments before it led.
Entered(result, segments, n) ==
    LET v == result.found
        seg == segments[n]
        Missing == Stopped("missing", Formatted(SubSeq(segments, 1, n)))
        Mismatch == Stopped("type_mismatch", Formatted(SubSeq(segments, 1, n)))
    IN CASE ~IsFound(result) -> result
         [] IsFound(result) /\ IsIndex(seg) /\ ~IsListNode(v) -> Mismatch
         [] IsFound(result) /\ IsIndex(seg) /\ IsListNode(v) ->
              IF seg.index < Len(v.list) THEN Found(v.list[seg.index + 1]) ELSE Missing
         [] IsFound(result) /\ ~IsIndex(seg) /\ ~IsMapNode(v) -> Mismatch
         [] IsFound(result) /\ ~IsIndex(seg) /\ IsMapNode(v) ->
              IF seg.key \in DOMAIN v.map THEN Found(v.map[seg.key]) ELSE Missing

WalkFrom(tree, segments) ==
    LET at[n \in 0 .. Len(segments)] ==
          IF n = 0 THEN Found(tree) ELSE Entered(at[n - 1], segments, n)
    IN at[Len(segments)]

Navigate(tree, path) ==
    IF ParsePath(path) = {} THEN Stopped("parse_error", path)
    ELSE WalkFrom(tree, CHOOSE s \in ParsePath(path) : TRUE)
=============================================================================
