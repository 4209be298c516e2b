--------------------------- MODULE SecretGrammar ---------------------------
(***************************************************************************)
(* ${secret:<scheme>:<path>[?query][#field][:-default]}: the parser of     *)
(* src/secret_grammar.go, and the grammar it is held against.              *)
(***************************************************************************)
EXTENDS Tokens

CONSTANTS
    Lower,      \* the tokens that match [a-z][a-z0-9_]*
    Escapes,    \* [percent-encoded tokens and "+" -> what QueryUnescape makes of them]
    Malformed   \* the tokens QueryUnescape refuses

ASSUME GrammarAssumption ==
    /\ Lower \cap {":", "?", "#", "+"} = {}
    /\ "+" \in DOMAIN Escapes /\ Escapes["+"] = <<" ">>

Failed == [ok |-> FALSE]

\* splitField and splitQuery step over doubled characters from the left.
FirstSingle(s, token) ==
    LET from[i \in 1 .. Len(s) + 1] ==
          IF i > Len(s) THEN 0
          ELSE IF HasAt(s, i, <<token, token>>) THEN from[i + 2]
          ELSE IF s[i] = token THEN i
          ELSE from[i + 1]
    IN from[1]

\* splitField with "#", splitQuery with "?".
SplitSingle(s, token) ==
    IF FirstSingle(s, token) = 0 THEN Whole(s) ELSE Cut(s, FirstSingle(s, token), 1)

IsDefaultAt(s, i) == HasAt(s, i, <<":", "-">>) /\ (i > 1 => s[i - 1] # ":")

\* Mutant: ::- is not recognised.
SplitDefaultAnywhere(s) ==
    LET i == SelectInSeq([j \in DOMAIN s |-> HasAt(s, j, <<":", "-">>)], LAMBDA b : b)
    IN IF i = 0 THEN Whole(s) ELSE Cut(s, i, 2)

SplitDefault(s) ==
    LET i == SelectInSeq([j \in DOMAIN s |-> IsDefaultAt(s, j)], LAMBDA b : b)
    IN IF i = 0 THEN Whole(s) ELSE Cut(s, i, 2)

\* Step 6.  After the splits every ? and # of the path is doubled, so the test
\* for a single one that follows the replacements never fails.
Unescaped(path) ==
    ReplaceEach(ReplaceEach(ReplaceEach(path, <<"?", "?">>, <<"?">>),
                            <<"#", "#">>, <<"#">>),
                <<":", ":", "-">>, <<":", "-">>)

\* The values of key=value pairs joined by &, percent-decoded; the keys stay as they are.
InValue(query, i) ==
    \E k \in 1 .. i - 1 : query[k] = "=" /\ \A m \in k .. i : query[m] # "&"
DecodedBy(escapes, query) ==
    FlattenSeq([i \in DOMAIN query |->
        IF InValue(query, i) /\ query[i] \in DOMAIN escapes
        THEN escapes[query[i]] ELSE <<query[i]>>])
IsPair(pair) == Contains(pair, "=") /\ Range(CutAtFirst(pair, "=").tail) \cap Malformed = {}

IsQuery(query) == \A pair \in Parts(query, "&") : IsPair(pair)
DecodeQuery(query) == DecodedBy(Escapes, query)     \* url.QueryUnescape of every value

IsScheme(s) == s # <<>> /\ Range(s) \subseteq Lower     \* schemeRE

ParseSecretRef(inner) ==
    LET withDefault == SplitDefault(inner)
        withScheme == CutAtFirst(withDefault.head, ":")
        withField == SplitSingle(withScheme.tail, "#")
        withQuery == SplitSingle(withField.head, "?")
    IN IF \/ withScheme.tail = None
          \/ ~IsScheme(withScheme.head)
          \/ withQuery.tail # None /\ ~IsQuery(withQuery.tail)
       THEN Failed
       ELSE [ok |-> TRUE,
             scheme |-> withScheme.head,
             path |-> Unescaped(withQuery.head)
                      \o (IF withQuery.tail = None THEN <<>>
                          ELSE <<"?">> \o DecodeQuery(withQuery.tail))
                      \o (IF withField.tail = None THEN <<>>
                          ELSE <<"#">> \o ReplaceEach(withField.tail, <<"#", "#">>, <<"#">>)),
             default |-> withDefault.tail]

\* secretRefOuter at position i, and where the text of a reference ends.
RefOpening == <<"$", "{", "secret", ":">>
IsRefAt(s, i) == HasAt(s, i, RefOpening) /\ IndexFrom(s, i + 4, "}") # 0
RefEnd(s, i) == IndexFrom(s, i + 4, "}")
HasRef(s) == \E i \in DOMAIN s : IsRefAt(s, i)
IsWholeRef(s) == s # <<>> /\ IsRefAt(s, 1) /\ RefEnd(s, 1) = Len(s)
Inner(s) == SubSeq(s, 5, Len(s) - 1)

\* Mutant: text around a reference is let through.
ConvertStringLenient(s) ==
    IF IsWholeRef(s) THEN [kind |-> "ref", ref |-> ParseSecretRef(Inner(s))]
    ELSE [kind |-> "text", text |-> s]

\* convertString: a scalar is a text, a reference, or neither.
ConvertString(s) ==
    CASE ~HasRef(s) -> [kind |-> "text", text |-> s]
      [] IsWholeRef(s) -> [kind |-> "ref", ref |-> ParseSecretRef(Inner(s))]
      [] OTHER -> [kind |-> "ref", ref |-> Failed]

-----------------------------------------------------------------------------
(* The grammar of ADR-0002, as the ways to cut a body into its parts.      *)

\* RFC 3986 leaves a plus sign alone.
PercentOnly == [t \in DOMAIN Escapes \ {"+"} |-> Escapes[t]]

\* Every ?, # and :- of a path is written as its escape.
IsEscapedPath(path) ==
    LET from[i \in 1 .. Len(path) + 3] ==
          IF i > Len(path) THEN TRUE
          ELSE IF path[i] \in {"?", "#"} THEN HasAt(path, i, <<path[i], path[i]>>) /\ from[i + 2]
          ELSE IF HasAt(path, i, <<":", ":", "-">>) THEN from[i + 3]
          ELSE ~HasAt(path, i, <<":", "-">>) /\ from[i + 1]
    IN from[1]

IsLegalPair(pair) ==
    /\ IsPair(pair)
    /\ \E key \in Lower : CutAtFirst(pair, "=").head = <<key>>
    /\ Range(CutAtFirst(pair, "=").tail) \cap {"=", "#"} = {}

\* body = path \o query \o field \o default, in the one order there is; ## and
\* ::- are escapes and never hold a separator.
Cuttings(body) ==
    LET n == Len(body)
        Part(i, j) == SubSeq(body, i + 1, j)
        Starts(token) == {i \in 0 .. n - 1 : body[i + 1] = token}
        Ends ==
            {c \in (Starts("?") \cup Starts("#") \cup Starts(":") \cup {n})
                   \X (Starts("#") \cup Starts(":") \cup {n})
                   \X (Starts(":") \cup {n}) :
               /\ c[1] <= c[2] /\ c[2] <= c[3]
               /\ c[1] < c[2] => body[c[1] + 1] = "?"
               /\ c[2] < c[3] => body[c[2] + 1] = "#" /\ ~HasAt(body, c[2] + 1, <<"#", "#">>)
               /\ c[3] < n => IsDefaultAt(body, c[3] + 1)
               /\ IsEscapedPath(Part(0, c[1]))
               /\ c[1] < c[2] => \A p \in Parts(Part(c[1] + 1, c[2]), "&") : IsLegalPair(p)}
    IN {<<Part(0, c[1]), Part(c[1], c[2]), Part(c[2], c[3]), Part(c[3], n)>> : c \in Ends}

WithoutSeparator(part, n) == IF part = <<>> THEN None ELSE SubSeq(part, n + 1, Len(part))

Readings(body) ==
    {[path |-> Unescaped(c[1]), query |-> WithoutSeparator(c[2], 1),
      field |-> WithoutSeparator(c[3], 1), default |-> WithoutSeparator(c[4], 2)] :
        c \in Cuttings(body)}

\* What the query of a reading says, and the text SecretRef.Path has for it.
MeantQuery(reading) == DecodedBy(PercentOnly, reading.query)
CanonicalPath(reading) ==
    reading.path
    \o (IF reading.query = None THEN <<>> ELSE <<"?">> \o MeantQuery(reading))
    \o (IF reading.field = None THEN <<>>
        ELSE <<"#">> \o ReplaceEach(reading.field, <<"#", "#">>, <<"#">>))
=============================================================================
