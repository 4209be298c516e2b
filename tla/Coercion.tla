------------------------------ MODULE Coercion ------------------------------
(***************************************************************************)
(* A scalar from the way it is written to what a typed getter or a field   *)
(* of GetSection's target makes of it (src/sources.go, src/config.go,      *)
(* src/section_coerce.go).                                                 *)
(*                                                                         *)
(* Integers keep their widths, scaled down: MaxInt stands for 2^63-1 and   *)
(* MaxSafe for 2^53-1.  A lexeme is a record of its form and the number it *)
(* shows.  An option is a set: empty for an error, else its one value.     *)
(***************************************************************************)
EXTENDS Integers

CONSTANTS
    MaxInt, MaxSafe,
    Steps,      \* how far apart float64 numbers are: 1, 2, 4 ..., and then
                \* overflow: a number out of their reach is an error of its parser
    MaxPlain,   \* the least whole float64 that is written with an exponent
    Octal       \* [numbers that can be read as octal -> their value read so]

ASSUME WidthAssumption ==
    /\ MaxSafe \in Nat /\ MaxInt \in Nat /\ MaxSafe < MaxInt
    /\ MaxSafe % 2 = 1
    /\ Steps \subseteq Nat \ {0} /\ {1, 2} \subseteq Steps
    /\ \A s \in Steps \ {1} : \E t \in Steps : s = 2 * t
    /\ MaxPlain \in Nat
    /\ \A n \in DOMAIN Octal : n \in 0 .. MaxInt /\ Octal[n] \in 0 .. MaxInt

MinInt == -MaxInt - 1
MaxUint == 2 * MaxInt + 1
IsInt64(n) == n \in MinInt .. MaxInt
IsSafe(n) == n \in -MaxSafe .. MaxSafe

Value(type, n) == [type |-> type, n |-> n]
Nan == [type |-> "nan"]
Null == [type |-> "null"]
Text(lexeme) == [type |-> "string", lexeme |-> lexeme]
Bool(b) == [type |-> "bool", b |-> b]

IsWhole(v) == v.twice % 2 = 0
Towards0(twice) == IF twice >= 0 THEN twice \div 2 ELSE -((-twice) \div 2)

\* A float64 that strconv.FormatFloat(f, 'g', -1, 64) writes as an integer.
IsPlainFloat(v) == IsWhole(v) /\ Towards0(v.twice) \in -MaxPlain + 1 .. MaxPlain - 1

\* s is the distance between the float64 numbers next to n, both in halves.
IsStepOf(s, n) ==
    /\ n \in -(MaxSafe + 1) * s .. (MaxSafe + 1) * s
    /\ s # 1 => n \notin -(MaxSafe + 1) * (s \div 2) .. (MaxSafe + 1) * (s \div 2)
Reachable == {n \in Int : \A m \in {2 * n, 2 * n + 1} : \E s \in Steps : IsStepOf(s, m)}

StepOf(n) == CHOOSE s \in Steps : IsStepOf(s, n)

\* Of two multiples at the same distance, the one with the even mantissa.
NearestMultiple(step, n) ==
    LET low == n \div step
        rest == n % step
    IN IF 2 * rest < step \/ (2 * rest = step /\ low % 2 = 0) THEN low * step
       ELSE (low + 1) * step

Rounded(n) == NearestMultiple(StepOf(n), n)     \* the float64 nearest to n

Halves(n) == [type |-> "float", twice |-> Rounded(n)]
Float(n) == Halves(2 * n)

-----------------------------------------------------------------------------
(* Lexemes, by form:  decimal 5   plus +5   zeros 05   hex 0x5   point 5.0 *)
(* half 5.5   exp 5e0, each with its n, and words.                         *)

Words(ws) == [form : {"word"}, word : ws]
FloatForms == {"point", "half", "exp"}
NumberForms == {"decimal", "plus", "zeros", "hex"} \cup FloatForms
UnsignedForms == {"plus", "zeros", "hex"}
Lexeme == [form : NumberForms \ UnsignedForms, n : Reachable]
          \cup [form : UnsignedForms, n : Reachable \cap Nat]
          \cup Words(STRING)
Written(l) == IF l.form = "half" THEN 2 * l.n + 1 ELSE 2 * l.n      \* in halves
FloatOf(l) == Halves(Written(l))

\* The scalars a tree holds.
Scalar ==
    [type : {"int", "int64"}, n : MinInt .. MaxInt]
    \cup [type : {"uint64"}, n : MaxInt + 1 .. MaxUint]
    \cup [type : {"float"}, twice : Int]
    \cup [type : {"string"}, lexeme : Lexeme]
    \cup [type : {"bool"}, b : BOOLEAN]
    \cup {Nan, Null}

\* yaml.v3 of a plain scalar into any: the first of int, uint64, float, string.
\* Its pattern of a float has no 0x: a longer hex number is a string.
YamlValue(l) ==
    CASE l.form \in {"decimal", "plus", "hex"} /\ IsInt64(l.n) -> Value("int", l.n)
      [] l.form \in {"decimal", "hex"} /\ l.n \in MaxInt + 1 .. MaxUint -> Value("uint64", l.n)
      [] l.form = "zeros" /\ l.n \in DOMAIN Octal -> Value("int", Octal[l.n])
      [] l.form = "word" /\ l.word \in {"true", "True"} -> Bool(TRUE)
      [] l.form = "word" /\ l.word = "false" -> Bool(FALSE)
      [] l.form = "word" /\ l.word = "null" -> Null
      [] l.form = "word" /\ l.word = ".nan" -> Nan
      [] l.form = "word" /\ l.word \notin {"true", "True", "false", "null", ".nan"} -> Text(l)
      [] l.form = "hex" /\ l.n > MaxUint -> Text(l)
      [] OTHER -> FloatOf(l)

IsJson(l) == l.form \in {"decimal"} \cup FloatForms
             \/ (l.form = "word" /\ l.word \in {"true", "false", "null"})

\* float64 to int64, and back to a float64: out of range it is any int64.
Conversions(v) == IF IsInt64(Towards0(v.twice)) THEN {Towards0(v.twice)} ELSE MinInt .. MaxInt

\* Mutant: the safe range is not looked at.
NormalisedAll(v, int) == IF v = Float(int) THEN Value("int64", int) ELSE v

\* Mutant: the bound itself is left out.
NormalisedBelow(v, int) ==
    IF v = Float(int) /\ v.twice \in -2 * MaxSafe + 1 .. 2 * MaxSafe - 1
    THEN Value("int64", int) ELSE v

\* normaliseJSONIntegers for one float64, with int for int64(x).
Normalised(v, int) ==
    IF v = Float(int) /\ v.twice \in -2 * MaxSafe .. 2 * MaxSafe
    THEN Value("int64", int) ELSE v

\* encoding/json gives float64 for every number.
JsonValue(l) ==
    CASE l.form # "word" -> Normalised(FloatOf(l), CHOOSE int \in Conversions(FloatOf(l)) : TRUE)
      [] l.form = "word" /\ l.word \in {"true", "false"} -> Bool(l.word = "true")
      [] OTHER -> Null

-----------------------------------------------------------------------------
(* The getters.                                                            *)

\* Mutant: the base is taken from the prefix.
ParseIntBase0(l) ==
    CASE l.form \in {"decimal", "plus", "hex"} /\ IsInt64(l.n) -> {l.n}
      [] l.form = "zeros" /\ l.n \in DOMAIN Octal -> {Octal[l.n]}
      [] OTHER -> {}

\* strconv.ParseInt(x, 10, 64)
ParseInt(l) == IF l.form \in {"decimal", "plus", "zeros"} /\ IsInt64(l.n) THEN {l.n} ELSE {}

\* strconv.ParseFloat
ParseFloat(l) ==
    CASE l.form \in FloatForms \cup {"decimal", "plus", "zeros"} -> {FloatOf(l)}
      [] l.form = "word" /\ l.word = "NaN" -> {Nan}
      [] OTHER -> {}

CoerceInt(v) ==
    CASE v.type \in {"int", "int64"} -> {v.n}
      [] v.type = "uint64" -> {v.n - (MaxUint + 1)}
      [] v.type = "string" -> ParseInt(v.lexeme)
      [] OTHER -> {}

CoerceNumber(v) ==
    CASE v.type \in {"int", "int64", "uint64"} -> {Float(v.n)}
      [] v.type \in {"float", "nan"} -> {v}
      [] v.type = "string" -> ParseFloat(v.lexeme)
      [] OTHER -> {}

\* strings.ToLower of true, yes, 1 and false, no, 0
TrueWords == Words({"true", "True", "yes"}) \cup {[form |-> "decimal", n |-> 1]}
FalseWords == Words({"false", "no"}) \cup {[form |-> "decimal", n |-> 0]}

BoolWord(l) == CASE l \in TrueWords -> {TRUE} [] l \in FalseWords -> {FALSE} [] OTHER -> {}

CoerceBool(v) ==
    CASE v.type = "bool" -> {v.b}
      [] v.type = "string" -> BoolWord(v.lexeme)
      [] OTHER -> {}

CoerceString(v) == IF v.type = "string" THEN {v.lexeme} ELSE {}

Coerce(kind, v) ==
    CASE kind = "int" -> CoerceInt(v) [] kind = "float" -> CoerceNumber(v)
      [] kind = "bool" -> CoerceBool(v) [] kind = "string" -> CoerceString(v)

-----------------------------------------------------------------------------
(* GetSection: the walk over the target's fields, then yaml.v3.            *)

IntStringRe == {"decimal", "zeros"}
NumberStringReNoExponent == IntStringRe \cup {"point", "half"}
NumberStringRe == IntStringRe \cup FloatForms

IsReversed(v, kind) == kind = "string" /\ v.type \notin {"string", "null"}

\* coerceScalar, for a value that is not a native one in a string field.
CoerceScalar(v, kind) ==
    LET l == v.lexeme
        converted ==
          CASE kind = "int" /\ l.form \in IntStringRe -> {Value("int64", n) : n \in ParseInt(l)}
            [] kind = "uint" /\ l.form \in IntStringRe /\ l.n \in 0 .. MaxUint ->
                 {Value("uint64", l.n)}
            [] kind = "float" /\ l.form \in NumberStringRe -> ParseFloat(l)
            [] kind = "bool" -> {Bool(b) : b \in BoolWord(l)}
            [] OTHER -> {}
    IN IF v.type = "string" /\ converted # {} THEN CHOOSE c \in converted : TRUE ELSE v

\* yaml.v3, Marshal and then Unmarshal into a field: the values it may get.  A
\* float64 is cut to an integer - but below 10^6 a whole one has become an
\* integer in Marshal; at 2^63 and above, and for a negative one into a uint,
\* the conversion is undefined when the range test, itself done in float64,
\* lets it through.
Zero(kind) == CASE kind \in {"int", "uint"} -> 0 [] kind = "float" -> Float(0)
                [] kind = "bool" -> FALSE [] OTHER -> [form |-> "word", word |-> ""]

DecodedInto(v, kind) ==
    CASE v.type = "null" -> {Zero(kind)}
      [] v.type \in {"int", "int64", "uint64"} /\ kind \in {"int", "uint"} ->
           {v.n} \cap (IF kind = "int" THEN MinInt .. MaxInt ELSE 0 .. MaxUint)
      [] v.type = "float" /\ kind = "int" ->
           IF v.twice <= Float(MaxInt).twice THEN Conversions(v) ELSE {}
      [] v.type = "float" /\ kind = "uint" ->
           CASE v.twice > Float(MaxUint).twice \/ (IsPlainFloat(v) /\ v.twice < 0) -> {}
             [] v.twice <= Float(MaxUint).twice /\ Towards0(v.twice) \in 0 .. MaxUint -> {Towards0(v.twice)}
             [] OTHER -> 0 .. MaxUint
      [] v.type \in {"int", "int64", "uint64"} /\ kind = "float" -> {Float(v.n)}
      [] v.type \in {"float", "nan"} /\ kind = "float" -> {v}
      [] v.type = "bool" /\ kind = "bool" -> {v.b}
      [] v.type = "string" /\ kind = "bool" ->
           CASE v.lexeme \in Words({"y", "on"}) -> {TRUE} [] v.lexeme \in Words({"n", "off"}) -> {FALSE}
             [] OTHER -> {}
      [] v.type = "string" /\ kind = "string" -> {v.lexeme}
      [] OTHER -> {}

SectionField(v, kind) ==
    IF IsReversed(v, kind) THEN {} ELSE DecodedInto(CoerceScalar(v, kind), kind)
=============================================================================
