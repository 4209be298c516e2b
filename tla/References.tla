----------------------------- MODULE References -----------------------------
(***************************************************************************)
(* One string leaf of a source from the text that is written to the value  *)
(* that is served (src/interpolation.go, src/secret_grammar.go,            *)
(* src/secrets.go, parseVaultPath of src/vault/source.go): interpolation,  *)
(* conversion of a whole-value reference, and its resolution by the env or *)
(* the vault scheme.                                                       *)
(***************************************************************************)
EXTENDS Interpolation, SecretGrammar

CONSTANTS
    Cases,      \* the leaves: [source, text, env], env a function from the set variables
    Char,       \* the tokens of texts and of variables
    Integer     \* the tokens strconv.Atoi reads

ASSUME CasesAssumption ==
    \A c \in Cases :
        /\ c.source \in {"file", "dict", "templated"} /\ c.text \in Seq(Char)
        /\ DOMAIN c.env \subseteq Name /\ \A name \in DOMAIN c.env : c.env[name] \in Seq(Char)

ASSUME CharAssumption ==
    /\ Name \cup {"$", "{", "}", ":", "-", "#", "?"} \subseteq Char
    /\ Name \cap {"$", "{", "}", ":", "-"} = {}
    /\ {Mask, Unset} \cap Char = {} /\ Mask # Unset
    /\ None \notin Seq(Char)

ASSUME EscapesAssumption == \A t \in DOMAIN Escapes : Escapes[t] \in Seq(Char)

VARIABLES
    leaf,       \* the case
    stage,      \* the stage that is next
    node,       \* the leaf's value so far
    answer      \* what the load comes to, None while it runs

vars == <<leaf, stage, node, answer>>

TextNode(s) == [kind |-> "text", text |-> s]

Init ==
    /\ leaf \in Cases
    /\ stage = IF leaf.source = "file" THEN "interpolate" ELSE "convert"
    /\ node = TextNode(leaf.text)
    /\ answer = None

Answer(a) ==
    /\ answer' = a
    /\ stage' = "done"
    /\ UNCHANGED <<leaf, node>>

Fail(reason) == Answer([failure |-> reason])

\* The raw text of a file before it is decoded, or the string leaves of a
\* templated dict after its Load.
Interpolate ==
    /\ stage = "interpolate"
    /\ \/ /\ node.kind = "text" /\ Interpolable(node.text, leaf.env)
          /\ node' = TextNode(InterpolateString(node.text, leaf.env))
          /\ stage' = IF leaf.source = "file" THEN "convert" ELSE "resolve"
          /\ UNCHANGED <<leaf, answer>>
       \/ /\ node.kind = "text" /\ ~Interpolable(node.text, leaf.env)
          /\ Fail("env_unresolved")
       \/ /\ node.kind = "ref"
          /\ stage' = "resolve"
          /\ UNCHANGED <<leaf, node, answer>>

Convert ==
    /\ stage = "convert"
    /\ LET converted == ConvertString(node.text) IN
       IF converted.kind = "ref" /\ ~converted.ref.ok THEN Fail("parse_error")
       ELSE /\ node' = converted
            /\ stage' = IF leaf.source = "templated" THEN "interpolate" ELSE "resolve"
            /\ UNCHANGED <<leaf, answer>>

-----------------------------------------------------------------------------
(* The two schemes.                                                        *)

\* Mutant: a variable that is set but empty counts as unset.
EnvResolveNonEmpty(path, env) ==
    IF \E name \in DOMAIN env : path = <<name>> /\ env[name] # <<>>
    THEN env[Head(path)] ELSE None

\* EnvSecretSource.Resolve (a path with ? or # is no name): a text, or None for secret_unresolved.
EnvResolve(path, env) ==
    IF \E name \in DOMAIN env : path = <<name>> THEN env[Head(path)] ELSE None

\* strconv.Atoi, with its optional sign.
IsAtoi(s) == \/ Len(s) = 1 /\ s[1] \in Integer
             \/ Len(s) = 2 /\ s[1] \in {"+", "-"} /\ s[2] \in Integer

\* What is asked of the server, from the three parts of a path.
VaultRequest(path, query, field) ==
    LET cut == CutAtFirst(path, "/")
        pairs == IF query \in {None, <<>>} THEN {} ELSE Parts(query, "&")
        IsRead(pair) ==
            LET kv == CutAtFirst(pair, "=")
            IN kv.head = <<"version">> /\ kv.tail # None /\ IsAtoi(kv.tail)
    IN IF cut.tail = None \/ \E pair \in pairs : ~IsRead(pair) THEN None
       ELSE [mount |-> cut.head, key |-> cut.tail, query |-> query,
             field |-> IF field = None THEN <<>> ELSE field]

\* Mutant: the query is looked for before the field is cut off.
ParseVaultPathQueryFirst(path) ==
    LET withQuery == CutAtFirst(path, "?")
    IN IF withQuery.tail = None
       THEN LET c == CutAtFirst(path, "#") IN VaultRequest(c.head, None, c.tail)
       ELSE LET c == CutAtFirst(withQuery.tail, "#")
            IN VaultRequest(withQuery.head, c.head, c.tail)

ParseVaultPath(path) ==
    LET withField == CutAtFirst(path, "#")
        withQuery == CutAtFirst(withField.head, "?")
    IN VaultRequest(withQuery.head, withQuery.tail, withField.tail)

\* resolveOneRef: any *Error of the source falls back to the default.
Unresolved(ref) ==
    IF ref.default = None THEN Fail("secret_unresolved") ELSE Answer(TextNode(ref.default))

Resolve ==
    /\ stage = "resolve"
    /\ \/ node.kind = "text" /\ Answer(node)
       \/ /\ node.kind = "ref"
          /\ LET ref == node.ref IN
             CASE ref.scheme = <<"env">> ->
                    IF EnvResolve(ref.path, leaf.env) = None THEN Unresolved(ref)
                    ELSE Answer(TextNode(EnvResolve(ref.path, leaf.env)))
               [] ref.scheme = <<"vault">> ->
                    \/ Unresolved(ref)
                    \/ ParseVaultPath(ref.path) # None
                       /\ Answer([kind |-> "secret", request |-> ParseVaultPath(ref.path)])
               [] OTHER -> Unresolved(ref)

Done == stage = "done" /\ UNCHANGED vars

Next == Interpolate \/ Convert \/ Resolve \/ Done
Spec == Init /\ [][Next]_vars

-----------------------------------------------------------------------------
(* Properties.                                                             *)

AnswersText == stage = "done" /\ "kind" \in DOMAIN answer /\ answer.kind = "text"

\* Masking $$, replacing, and unmasking come to one reading of the text from
\* the left: what a variable or a default brings in is not read again, and
\* "$$" is a "$" wherever it stands (interpolation.go:44-97).
OnePass == InterpolateString(leaf.text, leaf.env) = ReadOnce(leaf.text, leaf.env)

\* The text before it was interpolated, with every $ doubled.
Doubled(s) == ReplaceEach(s, <<"$">>, <<"$", "$">>)

\* A text whose every $ is doubled is served with single ones, whatever the
\* environment is - except that ${secret:...} cannot be written this way: it
\* becomes a reference when the escape is undone (interpolation.go:36-39).
EscapedIsLiteral ==
    LET s == ReplaceEach(leaf.text, <<"$", "$">>, <<"$">>) IN
    stage = "done" /\ leaf.source = "file" /\ leaf.text = Doubled(s) =>
        (node = TextNode(s) /\ answer = node <=> ~HasRef(s))

\* No text that still holds a reference is served from a source that converts
\* after it interpolates, or does not interpolate (secret_grammar.go:215-223) - but
\* for the value of a variable read through the env scheme, which nothing parses.
NoReferenceServed ==
    AnswersText /\ leaf.source # "templated" /\ HasRef(answer.text) =>
        /\ node.kind = "ref" /\ node.ref.scheme = <<"env">>
        /\ \E name \in DOMAIN leaf.env :
              node.ref.path = <<name>> /\ answer.text = leaf.env[name]

Body == SubSeq(Inner(leaf.text), 3, Len(Inner(leaf.text)))
IsBodyCase ==
    /\ leaf.source = "dict" /\ IsWholeRef(leaf.text)
    /\ Len(Inner(leaf.text)) >= 2 /\ Inner(leaf.text)[1] \in Lower /\ Inner(leaf.text)[2] = ":"
LegalReadings == Readings(Body)

HasPlus(reading) == reading.query # None /\ Contains(reading.query, "+")
Agrees(ref, reading) ==
    ref.ok /\ ref.path = CanonicalPath(reading) /\ ref.default = reading.default

\* A reference the grammar allows is accepted and read as the grammar reads
\* it: the separators are found past the escapes, in path, query, field and
\* default (ADR-0002:119-142, secret_grammar.go:48-142).  Three are not: a + in a
\* query value becomes a space; an empty path before :- is taken for the path
\* ":-default"; and before a path that begins with - the colon of the scheme
\* is taken for the default separator.
ReadAsWritten ==
    IsBodyCase /\ LegalReadings # {} =>
        ((\E r \in LegalReadings : Agrees(ParseSecretRef(Inner(leaf.text)), r))
         <=> ~(HasAt(Body, 1, <<":", "-">>) \/ HasAt(Body, 1, <<"-">>)
               \/ \A r \in LegalReadings : HasPlus(r)))

\* What the path of a reading asks Vault for.
Asked(reading) ==
    VaultRequest(reading.path,
                 IF reading.query = None THEN None ELSE MeantQuery(reading),
                 IF reading.field = None THEN None
                 ELSE ReplaceEach(reading.field, <<"#", "#">>, <<"#">>))

\* The characters the adapter splits at, where an escape has put them.
SplitAgain(reading) ==
    \/ Range(reading.path) \cap {"#", "?"} # {}
    \/ reading.query # None /\ Contains(MeantQuery(reading), "#")

\* The adapter, which splits SecretRef.Path again, finds the mount, key, query
\* and field of the reference (vault/source.go:427-489; "literal # inside path
\* is ##", spec/_meta/secret_ref_grammar.yaml:15).  It does not when an escape
\* has left a # or a ? in a part before them: these act as separators again.
VaultReadsAsMeant ==
    IsBodyCase /\ leaf.text[5] = "vault" =>
        \A r \in LegalReadings :
            Agrees(ParseSecretRef(Inner(leaf.text)), r) =>
                LET asked == ParseVaultPath(ParseSecretRef(Inner(leaf.text)).path) IN
                /\ ~SplitAgain(r) => asked = Asked(r)
                /\ SplitAgain(r) /\ Asked(r) # None => asked # Asked(r)

\* ${secret:env:X:-default} is served what ${X:-default} is replaced by: two stages
\* with scanners of their own, equal but for a variable that is set and empty
\* (ADR-0002:154-170, interpolation.go:74-90, secrets.go:124-164).
EnvTwin(ref) ==
    <<"$", "{">> \o ref.path
    \o (IF ref.default = None THEN <<>> ELSE <<":", "-">> \o Doubled(ref.default)) \o <<"}">>
EnvParity ==
    stage = "done" /\ node.kind = "ref" /\ node.ref.scheme = <<"env">>
    /\ (\E name \in Name : node.ref.path = <<name>>) =>
        LET twin == EnvTwin(node.ref)
            empty == IsSet(leaf.env, Head(node.ref.path)) /\ leaf.env[Head(node.ref.path)] = <<>>
        IN IF Interpolable(twin, leaf.env)
           THEN answer = TextNode(InterpolateString(twin, leaf.env))
                <=> ~(empty /\ node.ref.default \notin {None, <<>>})
           ELSE answer = [failure |-> "secret_unresolved"]
=============================================================================
