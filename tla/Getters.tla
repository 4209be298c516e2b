------------------------------ MODULE Getters ------------------------------
(***************************************************************************)
(* A scalar written in a source, decoded into the tree, and asked for by a *)
(* path: Get, Has, GetInt ... GetBool and their Default forms, GetList and *)
(* GetSection (src/config.go:479-672).                                     *)
(***************************************************************************)
EXTENDS Paths, Coercion

CONSTANTS
    Cases,      \* what is asked: [origin, lexeme, shape, calls], where origin is
                \* "yaml" (a plain scalar), "json" or "string" (a dict's, or quoted)
    Asked,      \* [calls -> [paths, targets]]
    Node,       \* the trees, and all they are made of
    Levels,     \* how far below the root EveryNodeReachable looks for nodes
    TreeOf(_, _),   \* the tree of a shape around a value
    Default     \* the default callers pass, equal to no value of a tree

Kinds == {"int", "float", "bool", "string"}

Decodable(o, l) == o = "json" => IsJson(l)
Decoded(o, l) ==
    CASE o = "yaml" -> YamlValue(l) [] o = "json" -> JsonValue(l) [] o = "string" -> Text(l)

ASSUME CasesAssumption ==
    \A c \in Cases : c.origin \in {"yaml", "json", "string"} /\ c.lexeme \in Lexeme

\* The values right below one.
Branches(v) ==
    CASE IsMapNode(v) -> {v.map[k] : k \in DOMAIN v.map}
      [] IsListNode(v) -> Range(v.list)
      [] OTHER -> {}

ASSUME NodeAssumption ==
    /\ \A v \in Node : \/ v \in Scalar
                       \/ IsListNode(v) /\ v.list \in Seq(Branches(v)) /\ Len(v.list) <= MaxIndex
                       \/ IsMapNode(v) /\ DOMAIN v.map \subseteq Seq(Token)
    /\ UNION {Branches(v) : v \in Node} \subseteq Node
    /\ {TreeOf(c.shape, Decoded(c.origin, c.lexeme)) :
          c \in {x \in Cases : Decodable(x.origin, x.lexeme)}} \subseteq Node

ASSUME DefaultAssumption ==
    \A v \in Node \cap Scalar : \A kind \in Kinds : Default \notin Coerce(kind, v)

\* What a field of a target is: a scalar, a list or a map of scalars of a kind.
FieldKinds == Kinds \cup {"uint"}
FieldTypes == [scalar : FieldKinds] \cup [list : FieldKinds] \cup [map : FieldKinds]

ASSUME AskedAssumption ==
    \A c \in Cases :
        /\ Asked[c.calls].paths \subseteq Seq(Token)
        /\ \A target \in Asked[c.calls].targets :
              \A k \in DOMAIN target : k \in Seq(Token) /\ target[k] \in FieldTypes

VARIABLES
    case,       \* the case
    tree,       \* the tree of the handle, None before the source is loaded
    call,       \* the call that is made, None before
    answer      \* what it returns, None before

vars == <<case, tree, call, answer>>

Init ==
    /\ case \in Cases
    /\ Decodable(case.origin, case.lexeme)
    /\ tree = None /\ call = None /\ answer = None

LoadTree ==
    /\ tree = None
    /\ tree' = TreeOf(case.shape, Decoded(case.origin, case.lexeme))
    /\ UNCHANGED <<case, call, answer>>

Return(c, a) ==
    /\ call' = c
    /\ answer' = a
    /\ UNCHANGED <<case, tree>>

Called(op, kind, path) == [op |-> op, kind |-> kind, path |-> path]

-----------------------------------------------------------------------------
(* Reads of one value.                                                     *)

Typed(kind, v, path) ==
    IF ~IsMapNode(v) /\ ~IsListNode(v) /\ Coerce(kind, v) # {}
    THEN Found(CHOOSE c \in Coerce(kind, v) : TRUE)
    ELSE Stopped("type_mismatch", path)

\* Get, and Has, which is whether it finds.
Get(path) == Return(Called("get", "any", path), Navigate(tree, path))

GetTyped(kind, path) ==
    LET result == Navigate(tree, path) IN
    Return(Called("typed", kind, path),
           IF IsFound(result) THEN Typed(kind, result.found, path) ELSE result)

\* Mutant: whatever stops the walk counts as missing.
IsMissingAny(result) == TRUE
IsMissing(result) == result.reason = "missing"

GetDefault(kind, path) ==
    LET result == Navigate(tree, path) IN
    Return(Called("default", kind, path),
           CASE IsFound(result) -> Typed(kind, result.found, path)
             [] ~IsFound(result) /\ IsMissing(result) -> Found(Default)
             [] OTHER -> result)

GetList(path) ==
    LET result == Navigate(tree, path) IN
    Return(Called("list", "any", path),
           CASE ~IsFound(result) -> result
             [] IsFound(result) /\ IsListNode(result.found) -> result
             [] OTHER -> Stopped("type_mismatch", path))

-----------------------------------------------------------------------------
(* GetSection.                                                             *)

IsContainer(v) == IsMapNode(v) \/ IsListNode(v)
Child(path, key) == path \o <<".">> \o key
Element(path, i) == path \o <<"[">> \o Decimal(i - 1) \o <<"]">>

\* The scalars of a field of type t that coerceForType reaches: [at, value, kind].
Reached(v, t, path) ==
    CASE DOMAIN t = {"scalar"} -> {[at |-> path, value |-> v, kind |-> t.scalar]}
      [] DOMAIN t = {"list"} /\ IsListNode(v) ->
           {[at |-> Element(path, i), value |-> v.list[i], kind |-> t.list] : i \in DOMAIN v.list}
      [] DOMAIN t = {"map"} /\ IsMapNode(v) ->
           {[at |-> Child(path, k), value |-> v.map[k], kind |-> t.map] : k \in DOMAIN v.map}
      [] OTHER -> {}

\* A field the decoder cannot fill: it wants another kind of container.
IsMisfit(v, t) ==
    /\ v # Null
    /\ \/ DOMAIN t = {"list"} /\ ~IsListNode(v)
       \/ DOMAIN t = {"map"} /\ ~IsMapNode(v)

HasMisfit(section, target) ==
    \E k \in DOMAIN target \cap DOMAIN section.map : IsMisfit(section.map[k], target[k])

FieldsOf(section, target, path) ==
    UNION {Reached(section.map[k], target[k], Child(path, k)) :
             k \in DOMAIN target \cap DOMAIN section.map}

\* Mutant: the error names the field alone.
ReversedFieldsUnprefixed(fields, path) ==
    {[f EXCEPT !.at = SubSeq(f.at, Len(path) + 2, Len(f.at))] :
       f \in {g \in fields : ~IsContainer(g.value) /\ IsReversed(g.value, g.kind)}}

ReversedFields(fields, path) ==
    {f \in fields : ~IsContainer(f.value) /\ IsReversed(f.value, f.kind)}

\* What the decoder puts into a field of a kind: no value that is no scalar's.
FieldValue(v, kind) == IF IsContainer(v) THEN {} ELSE SectionField(v, kind)

Undecodable(fields) == \E f \in fields : FieldValue(f.value, f.kind) = {}

\* The elements yaml.v3 keeps of a list of scalars: null is none of them.
WithoutNulls(list) ==
    LET kept[n \in 0 .. Len(list)] ==
          IF n = 0 THEN <<>>
          ELSE IF list[n] = Null THEN kept[n - 1] ELSE Append(kept[n - 1], list[n])
    IN kept[Len(list)]

\* A field of type t after the decoder: each scalar as the values it may be.
SectionValue(v, t) ==
    CASE DOMAIN t = {"scalar"} -> FieldValue(v, t.scalar)
      [] DOMAIN t = {"list"} /\ IsListNode(v) ->
           LET kept == WithoutNulls(v.list) IN [j \in DOMAIN kept |-> FieldValue(kept[j], t.list)]
      [] DOMAIN t = {"map"} /\ IsMapNode(v) ->
           [k \in DOMAIN v.map |-> FieldValue(v.map[k], t.map)]
      [] OTHER -> <<>>

\* The walk visits a map in any order: the error is that of any such field.
GetSection(target, path) ==
    LET result == Navigate(tree, path)
        section == result.found
        fields == FieldsOf(section, target, path)
        called == Called("section", target, path)
    IN \/ /\ ~IsFound(result)
          /\ Return(called, result)
       \/ /\ IsFound(result) /\ ~IsMapNode(section)
          /\ Return(called, Stopped("type_mismatch", path))
       \/ /\ IsFound(result) /\ IsMapNode(section)
          /\ \E f \in ReversedFields(fields, path) : Return(called, Stopped("type_mismatch", f.at))
       \/ /\ IsFound(result) /\ IsMapNode(section)
          /\ ReversedFields(fields, path) = {}
          /\ IF Undecodable(fields) \/ HasMisfit(section, target)
             THEN Return(called, Stopped("validation_failed", path))
             ELSE Return(called, Found([k \in DOMAIN target \cap DOMAIN section.map |->
                                           SectionValue(section.map[k], target[k])]))

Call ==
    /\ tree # None /\ call = None
    /\ \E path \in Asked[case.calls].paths :
          \/ Get(path) \/ GetList(path)
          \/ \E kind \in Kinds : GetTyped(kind, path) \/ GetDefault(kind, path)
          \/ \E target \in Asked[case.calls].targets : GetSection(target, path)

Done == call # None /\ UNCHANGED vars

Next == LoadTree \/ Call \/ Done
Spec == Init /\ [][Next]_vars

-----------------------------------------------------------------------------
(* Properties.                                                             *)

IsNumber(l) == l.form # "word"

\* GetInt returns the number that is written, to the last unit, or an error;
\* it never returns another - but for a plain YAML 010, which is octal, one of
\* 2^63 and above, which wraps to a negative number, and a JSON n.5 above 2^52,
\* which encoding/json rounds to an integer (config.go:749-773, sources.go:303).
IsOctal(o, l) == o = "yaml" /\ l.form = "zeros" /\ l.n \in DOMAIN Octal /\ Octal[l.n] # l.n
IsWrapped(o, l) == o = "yaml" /\ l.form \in {"decimal", "hex"} /\ l.n \in MaxInt + 1 .. MaxUint
IsRoundedWhole(l) == l.form = "half" /\ Rounded(Written(l)) % 2 = 0
                     /\ IsSafe(Rounded(Written(l)) \div 2)
IntIsExact ==
    LET o == case.origin
        l == case.lexeme
        answers == CoerceInt(Decoded(o, l))
    IN IsNumber(l) /\ Decodable(o, l) /\ answers # {} =>
         ((\A n \in answers : 2 * n = Written(l))
          <=> ~(IsOctal(o, l) \/ IsWrapped(o, l) \/ (o = "json" /\ IsRoundedWhole(l))))

\* "restoring parity with YamlFileSource" (sources.go:259-264): GetInt answers
\* alike for one number in JSON and in YAML - but for whole numbers written
\* with a point or an exponent, those n.5, and integers out of the safe range.
JsonYamlParity ==
    LET l == case.lexeme IN
    IsNumber(l) /\ IsJson(l) =>
        (CoerceInt(JsonValue(l)) = CoerceInt(YamlValue(l))
         <=> ~ \/ l.form \in {"point", "exp"} /\ IsSafe(l.n)
               \/ IsRoundedWhole(l)
               \/ l.form = "decimal" /\ l.n \in MinInt .. MaxUint /\ ~IsSafe(l.n))

\* What int64(x) returns for an x out of its range, which Go leaves open, does
\* not show: neither saturation nor wrapping makes an integer of such an x
\* (sources.go:303, 320-323).
NormalisedAnyway ==
    LET l == case.lexeme IN
    IsNumber(l) /\ IsJson(l) =>
        \A i, j \in Conversions(FloatOf(l)) : Normalised(FloatOf(l), i) = Normalised(FloatOf(l), j)

\* A field of a section and the getter at the field's path answer with the same
\* value, or both with an error - but for the differences listed here, in which
\* one of the two answers alone.  A list of a section goes without its nulls, for
\* which the getter at their index fails: an element that k nulls stand before is
\* found k places earlier than the getter finds it, and none is lost or repeated
\* (config.go:633-671, 739-819, section_coerce.go:72-89, 154-215).
KnownDifference(v, kind) ==
    \/ v.type = "null"
    \/ kind = "int" /\ v.type = "uint64"
    \/ kind = "int" /\ v.type = "float" /\ v.twice <= Float(MaxInt).twice
    \/ kind = "int" /\ v.type = "string" /\ v.lexeme.form = "plus" /\ IsInt64(v.lexeme.n)
    \/ kind = "float" /\ v.type = "string"
       /\ (v.lexeme.form = "plus" \/ v.lexeme \in Words({"NaN"}))
    \/ kind = "bool" /\ v.type = "string" /\ v.lexeme \in Words({"y", "on", "n", "off"})

Matches(values, v, kind) ==
    ~IsContainer(v) => (values = Coerce(kind, v) <=> ~KnownDifference(v, kind))

\* How many of the first i elements of a list are not null.
Place(list, i) == Cardinality({h \in 1 .. i : list[h] # Null})

ValueMatches(values, v, t) ==
    /\ DOMAIN t = {"scalar"} => Matches(values, v, t.scalar)
    /\ DOMAIN t = {"list"} /\ IsListNode(v) =>
         /\ DOMAIN values = 1 .. Place(v.list, Len(v.list))
         /\ \A i \in DOMAIN v.list :
               v.list[i] # Null => Matches(values[Place(v.list, i)], v.list[i], t.list)
    /\ DOMAIN t = {"map"} /\ IsMapNode(v) =>
         \A k \in DOMAIN v.map : Matches(values[k], v.map[k], t.map)

SectionCalled == call # None /\ call.op = "section"
                 /\ IsFound(Navigate(tree, call.path)) /\ IsMapNode(Navigate(tree, call.path).found)

\* The fields are compared whatever came of the call: one that fails hides none.
SectionMatchesGetter ==
    SectionCalled =>
        LET section == Navigate(tree, call.path).found IN
        \A k \in DOMAIN call.kind \cap DOMAIN section.map :
            LET t == call.kind[k]
                values == SectionValue(section.map[k], t)
            IN t \in [scalar : Kinds] \cup [list : Kinds] \cup [map : Kinds] =>
                 /\ ValueMatches(values, section.map[k], t)
                 /\ IsFound(answer) => answer.found[k] = values

\* An error of a section that is a map comes from one of its fields, and where
\* its path leads depends on the reason.  A type_mismatch names the value that
\* caused it, and its path leads back there - but not through a key that holds
\* a separator, and then perhaps to another value.  A validation_failed names the
\* section alone, whichever field below it cannot be decoded, and no field
\* would have been a type_mismatch: the path of the field, which ADR-0001 4.2
\* and 4.5 and the comment at config.go:615 promise, is not there
\* (config.go:644-670, section_coerce.go:196-210, 217-222).
HasPlainKeys(v) == IsMapNode(v) => \A k \in DOMAIN v.map : IsPlainKey(k)
SectionErrorReadsBack ==
    SectionCalled /\ ~IsFound(answer) =>
        LET section == Navigate(tree, call.path).found
            keys == DOMAIN call.kind \cap DOMAIN section.map
            ReachedIn(k) == Reached(section.map[k], call.kind[k], Child(call.path, k))
        IN
        \/ /\ answer.reason = "type_mismatch"
           /\ \E k \in keys : \E f \in ReachedIn(k) :
                 /\ f.at = answer.path
                 /\ ~IsContainer(f.value) /\ IsReversed(f.value, f.kind)
                 /\ IsPlainKey(k) /\ HasPlainKeys(section.map[k]) => Navigate(tree, f.at) = Found(f.value)
        \/ /\ answer = Stopped("validation_failed", call.path)
           /\ \E k \in keys :
                 \/ IsMisfit(section.map[k], call.kind[k])
                 \/ \E f \in ReachedIn(k) : FieldValue(f.value, f.kind) = {}
           /\ \A k \in keys : \A f \in ReachedIn(k) :
                 ~IsContainer(f.value) => ~IsReversed(f.value, f.kind)

\* The path an error of navigate names is a path, and asking for it fails at
\* the same place for the same reason (paths.go:127-137, 200-217).
ErrorPathReadsBack ==
    call # None /\ call.op = "get" /\ ~IsFound(answer) /\ answer.reason # "parse_error" =>
        Navigate(tree, answer.path) = answer

\* The nodes n levels below a root, by the segments that lead to them.
Below(p, v) ==
    CASE IsMapNode(v) -> {[path |-> Append(p, Key(k)), node |-> v.map[k]] : k \in DOMAIN v.map}
      [] IsListNode(v) -> {[path |-> Append(p, Index(i - 1)), node |-> v.list[i]] : i \in DOMAIN v.list}
      [] OTHER -> {}
NextLevel(nodes) == UNION {Below(x.path, x.node) : x \in nodes}
NodesAt(root, n) ==
    LET level[i \in 0 .. n] ==
          IF i = 0 THEN {[path |-> <<>>, node |-> root]} ELSE NextLevel(level[i - 1])
    IN level[n]
IsPlainPath(p) == \A i \in DOMAIN p : ~IsIndex(p[i]) => IsPlainKey(p[i].key)

\* Every node of the tree has a path that Get finds it at, unless a key on the way
\* is empty or holds a separator: such a node no path leads to, and Get finds
\* nothing but the node its path spells out (paths.go:32-123).
EveryNodeReachable ==
    /\ tree # None =>
         \A n \in 1 .. Levels : \A x \in NodesAt(tree, n) :
             IsPlainPath(x.path) => Navigate(tree, Formatted(x.path)) = Found(x.node)
    /\ call # None /\ call.op = "get" /\ IsFound(answer) =>
         \E segments \in ParsePath(call.path) : \E x \in NodesAt(tree, Len(segments)) :
             x.path = segments /\ IsPlainPath(segments) /\ answer = Found(x.node)

\* The default is returned only where there is nothing: not for null, not for a
\* value of another type, and not when the path runs through a scalar
\* (config.go:510-519, 532-541, 711-721).
DefaultOnlyWhenAbsent ==
    call # None /\ call.op = "default" /\ answer = Found(Default) =>
        \E segments \in ParsePath(call.path) : \E n \in DOMAIN segments :
            LET parent == WalkFrom(tree, SubSeq(segments, 1, n - 1)) IN
            /\ IsFound(parent)
            /\ \/ ~IsIndex(segments[n]) /\ IsMapNode(parent.found)
                  /\ segments[n].key \notin DOMAIN parent.found.map
               \/ IsIndex(segments[n]) /\ IsListNode(parent.found)
                  /\ segments[n].index + 1 \notin DOMAIN parent.found.list
=============================================================================
