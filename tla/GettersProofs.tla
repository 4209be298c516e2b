--------------------------- MODULE GettersProofs ---------------------------
(***************************************************************************)
(* What the getters make of a written number, for integers and floats of   *)
(* any width (2^63-1 and 2^53-1 are the program's), and of a path, for     *)
(* trees and targets of any size.                                          *)
(***************************************************************************)
EXTENDS Getters, PathsProofs, FiniteSetTheorems, TLAPS

-----------------------------------------------------------------------------
(* Rounding to a float64.                                                  *)

\* A number has a step, which is 1 or the double of another.
LEMMA StepFacts ==
    ASSUME NEW n \in Int, \E s \in Steps : IsStepOf(s, n)
    PROVE  /\ StepOf(n) \in Steps /\ IsStepOf(StepOf(n), n)
           /\ StepOf(n) \in Nat \ {0}
           /\ StepOf(n) = 1 \/ \E t \in Nat \ {0} : StepOf(n) = 2 * t
  <1>1. StepOf(n) \in Steps /\ IsStepOf(StepOf(n), n)
    BY DEF StepOf
  <1>2. QED
    BY <1>1, WidthAssumption

\* Within one step's reach of zero every integer is a float64.
LEMMA RoundedExact ==
    ASSUME NEW n \in -(MaxSafe + 1) .. MaxSafe + 1
    PROVE  Rounded(n) = n
  <1>1. n \in Int /\ IsStepOf(1, n)
    BY WidthAssumption DEF IsStepOf
  <1>2. StepOf(n) \in Steps /\ IsStepOf(StepOf(n), n)
    BY <1>1, WidthAssumption, StepFacts
  <1>3. StepOf(n) = 1
    <2>1. SUFFICES ASSUME StepOf(n) # 1 PROVE FALSE
      OBVIOUS
    <2>2. PICK t \in Nat \ {0} : StepOf(n) = 2 * t
      BY <1>1, <2>1, WidthAssumption, StepFacts
    <2>3. n \notin -(MaxSafe + 1) * t .. (MaxSafe + 1) * t
      <3>1. (2 * t) \div 2 = t
        BY <2>2
      <3>2. QED
        BY <1>2, <2>1, <2>2, <3>1 DEF IsStepOf
    <2>4. (MaxSafe + 1) * t >= MaxSafe + 1 /\ -(MaxSafe + 1) * t <= -(MaxSafe + 1)
      BY <2>2, WidthAssumption
    <2>5. QED
      BY <1>1, <2>2, <2>3, <2>4, WidthAssumption
  <1>4. NearestMultiple(1, n) = n
    BY <1>1 DEF NearestMultiple
  <1>5. QED
    BY <1>3, <1>4 DEF Rounded

\* Further out a number becomes an even one, and stays as far out.
LEMMA RoundedFar ==
    ASSUME NEW n \in Int, \E s \in Steps : IsStepOf(s, n),
           n \notin -(MaxSafe + 1) .. MaxSafe + 1
    PROVE  /\ Rounded(n) \in Int /\ Rounded(n) % 2 = 0
           /\ n > 0 => Rounded(n) >= MaxSafe + 1
           /\ n < 0 => Rounded(n) <= -(MaxSafe + 1)
           /\ n > 2 * (MaxSafe + 1) => Rounded(n) >= 2 * (MaxSafe + 1)
           /\ n < -2 * (MaxSafe + 1) => Rounded(n) <= -2 * (MaxSafe + 1)
  <1>. DEFINE low == n \div StepOf(n)
  <1>1. PICK t \in Nat \ {0} : StepOf(n) = 2 * t
    <2>1. StepOf(n) # 1
      BY StepFacts, WidthAssumption DEF IsStepOf
    <2>2. QED
      BY <2>1, StepFacts
  <1>2. n \in -(MaxSafe + 1) * (2 * t) .. (MaxSafe + 1) * (2 * t)
        /\ n \notin -(MaxSafe + 1) * t .. (MaxSafe + 1) * t
    <2>1. (2 * t) \div 2 = t /\ 2 * t # 1
      BY <1>1
    <2>2. QED
      BY <1>1, <2>1, StepFacts DEF IsStepOf
  <1>3. PICK k \in Nat : MaxSafe + 1 = 2 * k
    <2>1. (MaxSafe + 1) \div 2 \in Nat /\ MaxSafe + 1 = 2 * ((MaxSafe + 1) \div 2)
      BY WidthAssumption
    <2>2. QED
      BY <2>1
  <1>4. low \in Int /\ low * (2 * t) <= n /\ n < (low + 1) * (2 * t)
    BY <1>1
  <1>5. Rounded(n) = low * (2 * t) \/ Rounded(n) = (low + 1) * (2 * t)
    BY <1>1 DEF Rounded, NearestMultiple
  <1>6. /\ k * (2 * t) >= MaxSafe + 1
        /\ n \notin -2 * (MaxSafe + 1) .. 2 * (MaxSafe + 1) => k * (2 * t) >= 2 * (MaxSafe + 1)
    <2>1. k * (2 * t) = (MaxSafe + 1) * t
      BY <1>3
    <2>2. t >= 2 => (MaxSafe + 1) * t >= 2 * (MaxSafe + 1)
      BY WidthAssumption
    <2>3. t = 1 => n \in -2 * (MaxSafe + 1) .. 2 * (MaxSafe + 1)
      BY <1>2, WidthAssumption
    <2>4. t >= 1 => (MaxSafe + 1) * t >= MaxSafe + 1
      BY WidthAssumption
    <2>5. QED
      BY <2>1, <2>2, <2>3, <2>4
  <1>7. CASE n > 0
    <2>1. n > k * (2 * t)
      BY <1>2, <1>3, <1>7
    <2>2. low >= k
      BY <1>3, <1>4, <2>1
    <2>3. low * (2 * t) >= k * (2 * t) /\ (low + 1) * (2 * t) >= k * (2 * t)
      BY <1>3, <1>4, <2>2
    <2>4. QED
      BY <1>3, <1>4, <1>5, <1>6, <1>7, <2>3, WidthAssumption
  <1>8. CASE n < 0
    <2>1. n < -k * (2 * t)
      BY <1>2, <1>3, <1>8
    <2>2. low + 1 <= -k
      BY <1>3, <1>4, <2>1
    <2>3. low * (2 * t) <= -k * (2 * t) /\ (low + 1) * (2 * t) <= -k * (2 * t)
      BY <1>3, <1>4, <2>2
    <2>4. QED
      BY <1>3, <1>4, <1>5, <1>6, <1>8, <2>3, WidthAssumption
  <1>9. n # 0
    BY WidthAssumption
  <1>10. QED
    BY <1>7, <1>8, <1>9

\* An even number of halves, which is an integer, is a float64 up to the bound.
LEMMA RoundedEven ==
    ASSUME NEW n \in -(MaxSafe + 1) .. MaxSafe + 1
    PROVE  Rounded(2 * n) = 2 * n
  <1>1. CASE 2 * n \in -(MaxSafe + 1) .. MaxSafe + 1
    BY <1>1, RoundedExact
  <1>2. CASE 2 * n \notin -(MaxSafe + 1) .. MaxSafe + 1
    <2>1. 2 * n \in Int /\ \E s \in Steps : IsStepOf(s, 2 * n)
      <3>1. IsStepOf(2, 2 * n)
        BY <1>2, WidthAssumption DEF IsStepOf
      <3>2. QED
        BY <3>1, WidthAssumption
    <2>2. StepOf(2 * n) # 1
      BY <1>2, <2>1, StepFacts, WidthAssumption DEF IsStepOf
    <2>3. PICK t \in Nat \ {0} : StepOf(2 * n) = 2 * t
      BY <2>1, <2>2, StepFacts
    <2>4. 2 * n \notin -(MaxSafe + 1) * t .. (MaxSafe + 1) * t
      <3>1. (2 * t) \div 2 = t
        BY <2>3
      <3>2. QED
        BY <2>1, <2>2, <2>3, <3>1, StepFacts DEF IsStepOf
    <2>5. t = 1
      <3>1. t >= 2 => (MaxSafe + 1) * t >= 2 * (MaxSafe + 1) /\ -(MaxSafe + 1) * t <= -2 * (MaxSafe + 1)
        BY WidthAssumption
      <3>2. QED
        BY <2>3, <2>4, <3>1, WidthAssumption
    <2>6. NearestMultiple(2, 2 * n) = 2 * n
      <3>1. (2 * n) \div 2 = n /\ (2 * n) % 2 = 0 /\ n * 2 = 2 * n
        BY WidthAssumption
      <3>2. QED
        BY <3>1 DEF NearestMultiple
    <2>7. QED
      BY <2>3, <2>5, <2>6 DEF Rounded
  <1>3. QED
    BY <1>1, <1>2

\* The float64 of an integer: itself in the safe range, out of the range otherwise.
LEMMA FloatOfInteger ==
    ASSUME NEW n \in Reachable
    PROVE  /\ IsSafe(n) => Rounded(2 * n) = 2 * n
           /\ ~IsSafe(n) => Rounded(2 * n) \in Int /\ Rounded(2 * n) \notin -2 * MaxSafe .. 2 * MaxSafe
  <1>1. n \in Int /\ 2 * n \in Int /\ \E s \in Steps : IsStepOf(s, 2 * n)
    BY DEF Reachable
  <1>2. CASE n \in -(MaxSafe + 1) .. MaxSafe + 1
    BY <1>1, <1>2, RoundedEven, WidthAssumption DEF IsSafe
  <1>3. CASE n \notin -(MaxSafe + 1) .. MaxSafe + 1
    <2>1. 2 * n \notin -(MaxSafe + 1) .. MaxSafe + 1
      BY <1>1, <1>3, WidthAssumption
    <2>2. 2 * n > 2 * (MaxSafe + 1) \/ 2 * n < -2 * (MaxSafe + 1)
      BY <1>1, <1>3, WidthAssumption
    <2>3. Rounded(2 * n) \in Int
          /\ (Rounded(2 * n) >= 2 * (MaxSafe + 1) \/ Rounded(2 * n) <= -2 * (MaxSafe + 1))
      BY <1>1, <2>1, <2>2, RoundedFar
    <2>4. QED
      BY <1>1, <1>3, <2>3, WidthAssumption DEF IsSafe
  <1>4. QED
    BY <1>2, <1>3

\* The float64 of an integer and a half: itself, or an integer.
LEMMA FloatOfHalf ==
    ASSUME NEW n \in Reachable
    PROVE  Rounded(2 * n + 1) \in Int
           /\ (Rounded(2 * n + 1) = 2 * n + 1 \/ Rounded(2 * n + 1) % 2 = 0)
  <1>1. 2 * n + 1 \in Int /\ \E s \in Steps : IsStepOf(s, 2 * n + 1)
    BY DEF Reachable
  <1>2. QED
    BY <1>1, RoundedExact, RoundedFar, WidthAssumption

-----------------------------------------------------------------------------
(* What GetInt makes of a number, by the way it came in.                   *)

NumberLexeme == {l \in Lexeme : IsNumber(l)}

LEMMA NumberFacts ==
    ASSUME NEW l \in NumberLexeme
    PROVE  /\ l.form \in NumberForms /\ l.n \in Reachable /\ l.n \in Int
           /\ Written(l) \in Int
           /\ l.form = "half" => Written(l) = 2 * l.n + 1
           /\ l.form # "half" => Written(l) = 2 * l.n
           /\ Rounded(Written(l)) \in Int
  <1>1. l.form \in NumberForms /\ l.n \in Reachable /\ l.n \in Int
    BY DEF NumberLexeme, Lexeme, IsNumber, Words, NumberForms, UnsignedForms, Reachable
  <1>2. CASE l.form = "half"
    BY <1>1, <1>2, FloatOfHalf DEF Written
  <1>3. CASE l.form # "half"
    <2>1. Rounded(2 * l.n) \in Int
      <3>1. CASE IsSafe(l.n)
        BY <1>1, <3>1, FloatOfInteger
      <3>2. CASE ~IsSafe(l.n)
        BY <1>1, <3>2, FloatOfInteger
      <3>3. QED
        BY <3>1, <3>2
    <2>2. QED
      BY <1>1, <1>3, <2>1 DEF Written
  <1>4. QED
    BY <1>2, <1>3

\* A float64 in the safe range has one conversion to int64.
LEMMA SafeConversion ==
    ASSUME NEW w \in -2 * MaxSafe .. 2 * MaxSafe
    PROVE  /\ Towards0(w) \in -MaxSafe .. MaxSafe
           /\ Conversions([type |-> "float", twice |-> w]) = {Towards0(w)}
           /\ w % 2 = 0 => Towards0(w) = w \div 2 /\ 2 * (w \div 2) = w
  BY WidthAssumption DEF Towards0, Conversions, IsInt64, MinInt

\* A JSON number is an integer exactly if its float64 is one in the safe range.
LEMMA JsonInt ==
    ASSUME NEW l \in NumberLexeme
    PROVE  LET w == Rounded(Written(l)) IN
           CoerceInt(JsonValue(l)) =
             IF w % 2 = 0 /\ w \in -2 * MaxSafe .. 2 * MaxSafe THEN {w \div 2} ELSE {}
  <1>. DEFINE w == Rounded(Written(l))
              v == [type |-> "float", twice |-> w]
              int == CHOOSE i \in Conversions(v) : TRUE
  <1>1. w \in Int /\ FloatOf(l) = v
    BY NumberFacts DEF FloatOf, Halves
  <1>2. JsonValue(l) = Normalised(v, int)
    BY <1>1 DEF JsonValue, NumberLexeme, IsNumber
  <1>3. CoerceInt(v) = {}
    BY DEF CoerceInt
  <1>4. CASE w \notin -2 * MaxSafe .. 2 * MaxSafe
    <2>1. Normalised(v, int) = v
      BY <1>4 DEF Normalised
    <2>2. QED
      BY <1>2, <1>3, <1>4, <2>1
  <1>5. CASE w \in -2 * MaxSafe .. 2 * MaxSafe
    <2>1. int = Towards0(w) /\ int \in -MaxSafe .. MaxSafe
      BY <1>5, SafeConversion
    <2>2. Rounded(2 * int) = 2 * int
      BY <2>1, RoundedEven, WidthAssumption
    <2>3. Float(int) = [type |-> "float", twice |-> 2 * int]
      BY <2>2 DEF Float, Halves
    <2>4. CASE w % 2 = 0
      <3>1. w = 2 * int /\ int = w \div 2
        BY <1>5, <2>1, <2>4, SafeConversion
      <3>2. Normalised(v, int) = Value("int64", int)
        BY <1>5, <2>3, <3>1 DEF Normalised
      <3>3. CoerceInt(Value("int64", int)) = {int}
        BY DEF CoerceInt, Value
      <3>4. QED
        BY <1>2, <1>5, <2>4, <3>1, <3>2, <3>3
    <2>5. CASE w % 2 # 0
      <3>1. w # 2 * int
        BY <1>1, <2>1, <2>5, WidthAssumption
      <3>2. v # Float(int)
        BY <2>3, <3>1
      <3>3. Normalised(v, int) = v
        BY <3>2 DEF Normalised
      <3>4. QED
        BY <1>2, <1>3, <2>5, <3>3
    <2>6. QED
      BY <2>4, <2>5
  <1>6. QED
    BY <1>4, <1>5

\* An integer in a plain YAML scalar or in a string.
LEMMA YamlInt ==
    ASSUME NEW l \in NumberLexeme
    PROVE  CoerceInt(YamlValue(l)) =
             CASE l.form \in {"decimal", "plus", "hex"} /\ IsInt64(l.n) -> {l.n}
               [] l.form \in {"decimal", "hex"} /\ l.n \in MaxInt + 1 .. MaxUint ->
                    {l.n - (MaxUint + 1)}
               [] l.form = "zeros" /\ l.n \in DOMAIN Octal -> {Octal[l.n]}
               [] OTHER -> {}
  <1>1. l.form # "word" /\ l.form \in NumberForms /\ l.n \in Int
    BY NumberFacts DEF NumberLexeme, IsNumber
  <1>2. /\ ~(IsInt64(l.n) /\ l.n \in MaxInt + 1 .. MaxUint)
        /\ IsInt64(l.n) \/ l.n \in MaxInt + 1 .. MaxUint => ~(l.n > MaxUint)
    BY <1>1, WidthAssumption DEF IsInt64, MinInt, MaxUint
  <1>3. CASE l.form \in {"decimal", "plus", "hex"} /\ IsInt64(l.n)
    <2>1. YamlValue(l) = Value("int", l.n)
      BY <1>1, <1>2, <1>3 DEF YamlValue
    <2>2. QED
      BY <1>1, <1>2, <1>3, <2>1 DEF CoerceInt, Value
  <1>4. CASE l.form \in {"decimal", "hex"} /\ l.n \in MaxInt + 1 .. MaxUint
    <2>1. YamlValue(l) = Value("uint64", l.n)
      BY <1>1, <1>2, <1>4 DEF YamlValue
    <2>2. QED
      BY <1>1, <1>2, <1>4, <2>1 DEF CoerceInt, Value
  <1>5. CASE l.form = "zeros" /\ l.n \in DOMAIN Octal
    <2>1. YamlValue(l) = Value("int", Octal[l.n])
      BY <1>1, <1>5 DEF YamlValue
    <2>2. QED
      BY <1>1, <1>5, <2>1 DEF CoerceInt, Value
  <1>6. CASE /\ ~(l.form \in {"decimal", "plus", "hex"} /\ IsInt64(l.n))
             /\ ~(l.form \in {"decimal", "hex"} /\ l.n \in MaxInt + 1 .. MaxUint)
             /\ ~(l.form = "zeros" /\ l.n \in DOMAIN Octal)
    <2>1. CASE l.form = "hex" /\ l.n > MaxUint
      <3>1. YamlValue(l) = Text(l)
        BY <1>1, <1>6, <2>1 DEF YamlValue
      <3>2. CoerceInt(Text(l)) = {}
        BY <2>1 DEF Text, CoerceInt, ParseInt
      <3>3. QED
        BY <1>6, <3>1, <3>2
    <2>2. CASE ~(l.form = "hex" /\ l.n > MaxUint)
      <3>1. YamlValue(l) = FloatOf(l)
        BY <1>1, <1>6, <2>2 DEF YamlValue
      <3>2. CoerceInt(FloatOf(l)) = {}
        BY DEF FloatOf, Halves, CoerceInt
      <3>3. QED
        BY <1>6, <3>1, <3>2
    <2>3. QED
      BY <2>1, <2>2
  <1>7. QED
    BY <1>3, <1>4, <1>5, <1>6

\* The float64 of a whole number is in the safe range exactly if the number is.
LEMMA WholeNumber ==
    ASSUME NEW l \in NumberLexeme, l.form # "half"
    PROVE  LET w == Rounded(Written(l)) IN
           /\ IsSafe(l.n) => w = 2 * l.n /\ w % 2 = 0 /\ w \div 2 = l.n
                             /\ w \in -2 * MaxSafe .. 2 * MaxSafe
           /\ ~IsSafe(l.n) => w \notin -2 * MaxSafe .. 2 * MaxSafe
  <1>1. l.n \in Int /\ l.n \in Reachable /\ Written(l) = 2 * l.n
    BY NumberFacts
  <1>2. IsSafe(l.n) => /\ (2 * l.n) % 2 = 0 /\ (2 * l.n) \div 2 = l.n
                       /\ 2 * l.n \in -2 * MaxSafe .. 2 * MaxSafe
    BY <1>1, WidthAssumption DEF IsSafe
  <1>3. QED
    BY <1>1, <1>2, FloatOfInteger

\* An n.5 is rounded to an integer of the safe range, or is none.
LEMMA HalfNumber ==
    ASSUME NEW l \in NumberLexeme, l.form = "half"
    PROVE  LET w == Rounded(Written(l)) IN
           /\ IsRoundedWhole(l) <=> (w % 2 = 0 /\ w \in -2 * MaxSafe .. 2 * MaxSafe)
           /\ 2 * (w \div 2) # Written(l)
  <1>1. /\ Written(l) = 2 * l.n + 1 /\ l.n \in Int /\ Rounded(Written(l)) \in Int
    BY NumberFacts
  <1>2. QED
    BY <1>1, WidthAssumption DEF IsRoundedWhole, IsSafe

-----------------------------------------------------------------------------
(* The theorems about GetInt: no call changes the case, so they hold if    *)
(* they hold for every origin and lexeme.                                  *)

LEMMA CaseFixed == Spec => [](case \in Cases)
  <1>1. Init => case \in Cases
    BY DEF Init
  <1>2. case \in Cases /\ [Next]_vars => (case \in Cases)'
    <2>1. LoadTree => UNCHANGED case
      BY DEF LoadTree
    <2>2. Call => UNCHANGED case
      BY DEF Call, Get, GetList, GetTyped, GetDefault, GetSection, Return
    <2>3. Done => UNCHANGED case
      BY DEF Done, vars
    <2>4. UNCHANGED vars => UNCHANGED case
      BY DEF vars
    <2>5. QED
      BY <2>1, <2>2, <2>3, <2>4 DEF Next
  <1>3. QED
    BY <1>1, <1>2, PTL DEF Spec

\* Each way in, and the exceptions of its own.
LEMMA ExactInt ==
    ASSUME NEW o \in {"yaml", "json", "string"}, NEW l \in NumberLexeme,
           CoerceInt(Decoded(o, l)) # {}
    PROVE  (\A n \in CoerceInt(Decoded(o, l)) : 2 * n = Written(l))
           <=> ~(IsOctal(o, l) \/ IsWrapped(o, l) \/ (o = "json" /\ IsRoundedWhole(l)))
  <1>1. /\ l.form \in NumberForms /\ l.n \in Int /\ Written(l) \in Int
        /\ l.form # "half" => Written(l) = 2 * l.n
        /\ IsNumber(l)
    BY NumberFacts DEF NumberLexeme
  <1>2. CASE o = "string"
    <2>1. CoerceInt(Decoded(o, l)) = ParseInt(l)
      BY <1>2 DEF Decoded, CoerceInt, Text
    <2>2. ParseInt(l) = {l.n} /\ l.form # "half"
      BY <2>1 DEF ParseInt
    <2>3. QED
      BY <1>1, <1>2, <2>1, <2>2 DEF IsOctal, IsWrapped
  <1>3. CASE o = "json"
    <2>1. CoerceInt(Decoded(o, l)) = CoerceInt(JsonValue(l))
      BY <1>3 DEF Decoded
    <2>2. PICK w \in Int : /\ w = Rounded(Written(l)) /\ w % 2 = 0
                           /\ w \in -2 * MaxSafe .. 2 * MaxSafe
                           /\ CoerceInt(Decoded(o, l)) = {w \div 2}
      BY <2>1, JsonInt, NumberFacts
    <2>3. CASE l.form = "half"
      <3>1. IsRoundedWhole(l) /\ 2 * (w \div 2) # Written(l)
        BY <2>2, <2>3, HalfNumber
      <3>2. QED
        BY <1>3, <2>2, <3>1
    <2>4. CASE l.form # "half"
      <3>1. IsSafe(l.n) /\ w \div 2 = l.n
        BY <2>2, <2>4, WholeNumber
      <3>2. QED
        BY <1>1, <1>3, <2>2, <2>4, <3>1 DEF IsOctal, IsWrapped, IsRoundedWhole
    <2>5. QED
      BY <2>3, <2>4
  <1>4. CASE o = "yaml"
    <2>1. CoerceInt(Decoded(o, l)) = CoerceInt(YamlValue(l))
      BY <1>4 DEF Decoded
    <2>2. CASE l.form \in {"decimal", "plus", "hex"} /\ IsInt64(l.n)
      <3>1. l.n \notin MaxInt + 1 .. MaxUint
        BY <1>1, <2>2, WidthAssumption DEF IsInt64, MinInt, MaxUint
      <3>2. CoerceInt(Decoded(o, l)) = {l.n}
        BY <2>1, <2>2, <3>1, YamlInt
      <3>3. ~IsOctal(o, l) /\ ~IsWrapped(o, l)
        BY <2>2, <3>1 DEF IsOctal, IsWrapped
      <3>4. QED
        BY <1>1, <1>4, <2>2, <3>2, <3>3
    <2>3. CASE l.form \in {"decimal", "hex"} /\ l.n \in MaxInt + 1 .. MaxUint
      <3>1. ~IsInt64(l.n)
        BY <1>1, <2>3, WidthAssumption DEF IsInt64, MinInt, MaxUint
      <3>2. CoerceInt(Decoded(o, l)) = {l.n - (MaxUint + 1)}
        BY <2>1, <2>3, <3>1, YamlInt
      <3>3. 2 * (l.n - (MaxUint + 1)) # 2 * l.n
        BY <1>1, WidthAssumption DEF MaxUint
      <3>4. QED
        BY <1>1, <1>4, <2>3, <3>2, <3>3 DEF IsWrapped
    <2>4. CASE l.form = "zeros" /\ l.n \in DOMAIN Octal
      <3>1. CoerceInt(Decoded(o, l)) = {Octal[l.n]}
        BY <2>1, <2>4, YamlInt
      <3>2. Octal[l.n] \in Int
        BY <2>4, WidthAssumption
      <3>3. QED
        BY <1>1, <1>4, <2>4, <3>1, <3>2 DEF IsOctal, IsWrapped
    <2>5. QED
      BY <2>1, <2>2, <2>3, <2>4, YamlInt
  <1>5. QED
    BY <1>2, <1>3, <1>4

\* GetInt answers with the number that is written or with an error, at every
\* width, but for the octal, wrapped and rounded ones (config.go:749-773).
THEOREM IntIsExactHolds == Spec => []IntIsExact
  <1>1. case \in Cases => IntIsExact
    <2>1. SUFFICES ASSUME case \in Cases, IsNumber(case.lexeme),
                          CoerceInt(Decoded(case.origin, case.lexeme)) # {}
                   PROVE  (\A n \in CoerceInt(Decoded(case.origin, case.lexeme)) :
                              2 * n = Written(case.lexeme))
                          <=> ~ \/ IsOctal(case.origin, case.lexeme)
                                \/ IsWrapped(case.origin, case.lexeme)
                                \/ (case.origin = "json" /\ IsRoundedWhole(case.lexeme))
      BY DEF IntIsExact
    <2>2. case.origin \in {"yaml", "json", "string"} /\ case.lexeme \in NumberLexeme
      BY <2>1, CasesAssumption DEF NumberLexeme
    <2>3. QED
      BY <2>1, <2>2, ExactInt
  <1>2. QED
    BY <1>1, CaseFixed, PTL

\* Two numbers in JSON and in YAML.
LEMMA Parity ==
    ASSUME NEW l \in NumberLexeme, IsJson(l)
    PROVE  CoerceInt(JsonValue(l)) = CoerceInt(YamlValue(l))
           <=> ~ \/ l.form \in {"point", "exp"} /\ IsSafe(l.n)
                 \/ IsRoundedWhole(l)
                 \/ l.form = "decimal" /\ l.n \in MinInt .. MaxUint /\ ~IsSafe(l.n)
  <1>1. l.n \in Int /\ l.form \in {"decimal", "point", "half", "exp"}
    BY NumberFacts DEF NumberLexeme, IsNumber, IsJson, FloatForms
  <1>2. CASE l.form = "half"
    <2>1. CoerceInt(YamlValue(l)) = {}
      BY <1>2, YamlInt
    <2>2. CoerceInt(JsonValue(l)) # {} <=> IsRoundedWhole(l)
      BY <1>2, HalfNumber, JsonInt
    <2>3. QED
      BY <1>2, <2>1, <2>2
  <1>3. CASE l.form \in {"point", "exp"}
    <2>1. CoerceInt(YamlValue(l)) = {}
      BY <1>3, YamlInt
    <2>2. CoerceInt(JsonValue(l)) # {} <=> IsSafe(l.n)
      BY <1>3, WholeNumber, JsonInt
    <2>3. QED
      BY <1>3, <2>1, <2>2 DEF IsRoundedWhole
  <1>4. CASE l.form = "decimal"
    <2>1. CoerceInt(JsonValue(l)) = IF IsSafe(l.n) THEN {l.n} ELSE {}
      BY <1>4, WholeNumber, JsonInt
    <2>2. IsSafe(l.n) => IsInt64(l.n)
      BY <1>1, WidthAssumption DEF IsSafe, IsInt64, MinInt
    <2>3. l.n \in MinInt .. MaxUint <=> (IsInt64(l.n) \/ l.n \in MaxInt + 1 .. MaxUint)
      BY <1>1, WidthAssumption DEF IsInt64, MinInt, MaxUint
    <2>4. CoerceInt(YamlValue(l)) =
            CASE IsInt64(l.n) -> {l.n}
              [] ~IsInt64(l.n) /\ l.n \in MaxInt + 1 .. MaxUint -> {l.n - (MaxUint + 1)}
              [] OTHER -> {}
      <3>1. CASE IsInt64(l.n)
        <4>1. l.n \notin MaxInt + 1 .. MaxUint
          BY <1>1, <3>1, WidthAssumption DEF IsInt64, MinInt, MaxUint
        <4>2. QED
          BY <1>4, <3>1, <4>1, YamlInt
      <3>2. CASE ~IsInt64(l.n) /\ l.n \in MaxInt + 1 .. MaxUint
        BY <1>4, <3>2, YamlInt
      <3>3. CASE ~IsInt64(l.n) /\ l.n \notin MaxInt + 1 .. MaxUint
        BY <1>4, <3>3, YamlInt
      <3>4. QED
        BY <3>1, <3>2, <3>3
    <2>5. QED
      BY <1>4, <2>1, <2>2, <2>3, <2>4 DEF IsRoundedWhole
  <1>5. QED
    BY <1>1, <1>2, <1>3, <1>4

\* JSON and YAML agree on what GetInt answers, but for the listed numbers, at
\* every width (sources.go:259-310).
THEOREM JsonYamlParityHolds == Spec => []JsonYamlParity
  <1>1. case \in Cases => JsonYamlParity
    BY CasesAssumption, Parity DEF JsonYamlParity, NumberLexeme
  <1>2. QED
    BY <1>1, CaseFixed, PTL

\* What the platform makes of an out-of-range conversion never shows
\* (sources.go:303, 320-323).
THEOREM NormalisedAnywayHolds == Spec => []NormalisedAnyway
  <1>1. case \in Cases => NormalisedAnyway
    <2>1. SUFFICES ASSUME case \in Cases, IsNumber(case.lexeme),
                          NEW i \in Conversions(FloatOf(case.lexeme)),
                          NEW j \in Conversions(FloatOf(case.lexeme))
                   PROVE  Normalised(FloatOf(case.lexeme), i) = Normalised(FloatOf(case.lexeme), j)
      BY DEF NormalisedAnyway
    <2>. DEFINE w == Rounded(Written(case.lexeme))
    <2>2. w \in Int /\ FloatOf(case.lexeme) = [type |-> "float", twice |-> w]
      BY <2>1, CasesAssumption, NumberFacts DEF NumberLexeme, FloatOf, Halves
    <2>3. CASE w \in -2 * MaxSafe .. 2 * MaxSafe
      <3>1. Conversions(FloatOf(case.lexeme)) = {Towards0(w)}
        BY <2>2, <2>3, SafeConversion
      <3>2. QED
        BY <2>1, <3>1
    <2>4. CASE w \notin -2 * MaxSafe .. 2 * MaxSafe
      BY <2>2, <2>4 DEF Normalised
    <2>5. QED
      BY <2>3, <2>4
  <1>2. QED
    BY <1>1, CaseFixed, PTL

-----------------------------------------------------------------------------
(* Sections and getters.                                                   *)

\* What the decoders yield for one scalar, from any origin, is a Scalar: no
\* integer leaves its width (sources.go:247-310).
THEOREM DecodedIsScalar ==
    \A o \in {"yaml", "json", "string"}, l \in Lexeme :
        Decodable(o, l) => Decoded(o, l) \in Scalar
  <1>. SUFFICES ASSUME NEW o \in {"yaml", "json", "string"}, NEW l \in Lexeme, Decodable(o, l)
                PROVE  Decoded(o, l) \in Scalar
    OBVIOUS
  <1>1. CASE o = "string"
    BY <1>1 DEF Decoded, Text, Scalar
  <1>2. CASE IsNumber(l)
    <2>1. l \in NumberLexeme /\ l.n \in Int /\ Rounded(Written(l)) \in Int
      BY <1>2, NumberFacts DEF NumberLexeme
    <2>2. FloatOf(l) \in Scalar
      BY <2>1 DEF FloatOf, Halves, Scalar
    <2>3. CASE o = "json"
      <3>1. \A i \in MinInt .. MaxInt : Value("int64", i) \in Scalar
        BY DEF Value, Scalar
      <3>2. (CHOOSE i \in Conversions(FloatOf(l)) : TRUE) \in MinInt .. MaxInt
        <4>1. 0 \in MinInt .. MaxInt
          BY WidthAssumption DEF MinInt
        <4>2. QED
          BY <4>1 DEF Conversions, IsInt64
      <3>3. QED
        BY <1>2, <2>2, <2>3, <3>1, <3>2 DEF Decoded, JsonValue, Normalised, IsNumber
    <2>4. CASE o = "yaml"
      <3>1. \A n \in MinInt .. MaxInt : Value("int", n) \in Scalar
        BY DEF Value, Scalar
      <3>2. \A n \in MaxInt + 1 .. MaxUint : Value("uint64", n) \in Scalar
        BY DEF Value, Scalar
      <3>3. \A n \in DOMAIN Octal : Octal[n] \in MinInt .. MaxInt
        BY WidthAssumption DEF MinInt
      <3>4. ~(IsInt64(l.n) /\ l.n \in MaxInt + 1 .. MaxUint)
        BY <2>1, WidthAssumption DEF IsInt64, MinInt, MaxUint
      <3>5. Text(l) \in Scalar
        BY DEF Text, Scalar
      <3>6. ~(l.n \in MinInt .. MaxUint /\ l.n > MaxUint) /\ (IsInt64(l.n) => ~(l.n > MaxUint))
        BY <2>1, WidthAssumption DEF IsInt64, MinInt, MaxUint
      <3>7. YamlValue(l) \in Scalar
        BY <1>2, <2>2, <3>1, <3>2, <3>3, <3>4, <3>5, <3>6 DEF YamlValue, IsNumber, IsInt64
      <3>8. QED
        BY <2>4, <3>7 DEF Decoded
    <2>5. QED
      BY <1>1, <2>3, <2>4
  <1>3. CASE ~IsNumber(l) /\ o # "string"
    <2>1. l.form = "word"
      BY <1>3 DEF IsNumber
    <2>2. Text(l) \in Scalar /\ Null \in Scalar /\ Nan \in Scalar
          /\ \A b \in BOOLEAN : Bool(b) \in Scalar
      BY DEF Text, Null, Nan, Bool, Scalar
    <2>3. CASE o = "json"
      BY <2>1, <2>2, <2>3 DEF Decoded, JsonValue
    <2>4. CASE o = "yaml"
      <3>1. YamlValue(l) \in Scalar
        BY <2>1, <2>2 DEF YamlValue
      <3>2. QED
        BY <2>4, <3>1 DEF Decoded
    <2>5. QED
      BY <1>3, <2>3, <2>4
  <1>4. QED
    BY <1>1, <1>2, <1>3

LEMMA ScalarTypes ==
    ASSUME NEW v \in Scalar
    PROVE  /\ v.type \in {"int", "int64", "uint64", "float", "string", "bool", "nan", "null"}
           /\ v.type \in {"int", "int64"} => v.n \in Int /\ v.n \in MinInt .. MaxInt
           /\ v.type = "uint64" => v.n \in Int /\ v.n \in MaxInt + 1 .. MaxUint
           /\ v.type = "float" => v.twice \in Int
           /\ v.type = "string" => v.lexeme \in Lexeme
           /\ v.type = "bool" => v.b \in BOOLEAN
  BY WidthAssumption DEF Scalar, Nan, Null, MinInt, MaxUint

LEMMA LexemeForms ==
    ASSUME NEW l \in Lexeme
    PROVE  /\ l.form \in NumberForms \cup {"word"}
           /\ l.form # "word" => l.n \in Int
  BY DEF Lexeme, Words, NumberForms, UnsignedForms, Reachable

LEMMA IntField ==
    ASSUME NEW v \in Scalar
    PROVE  SectionField(v, "int") = CoerceInt(v) <=> ~KnownDifference(v, "int")
  <1>1. SectionField(v, "int") = DecodedInto(CoerceScalar(v, "int"), "int")
    BY DEF SectionField, IsReversed
  <1>2. v.type # "string" => CoerceScalar(v, "int") = v
    BY DEF CoerceScalar
  <1>3. CASE v.type \in {"int", "int64"}
    <2>1. DecodedInto(v, "int") = {v.n} \cap (MinInt .. MaxInt)
      BY <1>3 DEF DecodedInto
    <2>2. QED
      BY <1>1, <1>2, <1>3, <2>1, ScalarTypes DEF CoerceInt, KnownDifference
  <1>4. CASE v.type = "uint64"
    <2>1. DecodedInto(v, "int") = {v.n} \cap (MinInt .. MaxInt)
      BY <1>4 DEF DecodedInto
    <2>2. v.n \notin MinInt .. MaxInt
      BY <1>4, ScalarTypes, WidthAssumption DEF MinInt
    <2>3. QED
      BY <1>1, <1>2, <1>4, <2>1, <2>2 DEF CoerceInt, KnownDifference
  <1>5. CASE v.type = "float"
    <2>1. DecodedInto(v, "int") = IF v.twice <= Float(MaxInt).twice THEN Conversions(v) ELSE {}
      BY <1>5 DEF DecodedInto
    <2>2. Conversions(v) # {}
      <3>1. 0 \in MinInt .. MaxInt
        BY WidthAssumption DEF MinInt
      <3>2. QED
        BY <3>1 DEF Conversions
    <2>3. QED
      BY <1>1, <1>2, <1>5, <2>1, <2>2 DEF CoerceInt, KnownDifference
  <1>6. CASE v.type = "string"
    <2>. DEFINE l == v.lexeme
    <2>1. l.form \in NumberForms \cup {"word"} /\ (l.form # "word" => l.n \in Int)
      BY <1>6, ScalarTypes, LexemeForms
    <2>2. CASE l.form \in IntStringRe /\ IsInt64(l.n)
      <3>1. ParseInt(l) = {l.n}
        BY <2>2 DEF ParseInt, IntStringRe
      <3>2. CoerceScalar(v, "int") = Value("int64", l.n)
        BY <1>6, <2>2, <3>1 DEF CoerceScalar
      <3>3. DecodedInto(Value("int64", l.n), "int") = {l.n}
        BY <2>2 DEF DecodedInto, Value, IsInt64
      <3>4. QED
        BY <1>1, <1>6, <2>2, <3>1, <3>2, <3>3 DEF CoerceInt, KnownDifference, IntStringRe
    <2>3. CASE ~(l.form \in IntStringRe /\ IsInt64(l.n))
      <3>1. CoerceScalar(v, "int") = v
        BY <1>6, <2>3 DEF CoerceScalar, ParseInt
      <3>2. DecodedInto(v, "int") = {}
        BY <1>6 DEF DecodedInto
      <3>3. ParseInt(l) = IF l.form = "plus" /\ IsInt64(l.n) THEN {l.n} ELSE {}
        BY <2>3 DEF ParseInt, IntStringRe
      <3>4. QED
        BY <1>1, <1>6, <2>3, <3>1, <3>2, <3>3 DEF CoerceInt, KnownDifference, IntStringRe
    <2>4. QED
      BY <2>2, <2>3
  <1>7. CASE v.type \in {"bool", "nan", "null"}
    <2>1. DecodedInto(v, "int") = IF v.type = "null" THEN {0} ELSE {}
      BY <1>7 DEF DecodedInto, Zero
    <2>2. QED
      BY <1>1, <1>2, <1>7, <2>1 DEF CoerceInt, KnownDifference
  <1>8. QED
    BY <1>3, <1>4, <1>5, <1>6, <1>7, ScalarTypes

LEMMA FloatField ==
    ASSUME NEW v \in Scalar
    PROVE  SectionField(v, "float") = CoerceNumber(v) <=> ~KnownDifference(v, "float")
  <1>1. SectionField(v, "float") = DecodedInto(CoerceScalar(v, "float"), "float")
    BY DEF SectionField, IsReversed
  <1>2. v.type # "string" => CoerceScalar(v, "float") = v
    BY DEF CoerceScalar
  <1>3. CASE v.type \in {"int", "int64", "uint64"}
    <2>1. DecodedInto(v, "float") = {Float(v.n)} /\ CoerceNumber(v) = {Float(v.n)}
      BY <1>3 DEF DecodedInto, CoerceNumber
    <2>2. QED
      BY <1>1, <1>2, <1>3, <2>1 DEF KnownDifference
  <1>4. CASE v.type \in {"float", "nan"}
    <2>1. DecodedInto(v, "float") = {v} /\ CoerceNumber(v) = {v}
      BY <1>4 DEF DecodedInto, CoerceNumber
    <2>2. QED
      BY <1>1, <1>2, <1>4, <2>1 DEF KnownDifference
  <1>5. CASE v.type = "string"
    <2>. DEFINE l == v.lexeme
    <2>1. l \in Lexeme /\ l.form \in NumberForms \cup {"word"} /\ CoerceNumber(v) = ParseFloat(l)
      BY <1>5, ScalarTypes, LexemeForms DEF CoerceNumber
    <2>2. CASE l.form \in NumberStringRe
      <3>1. ParseFloat(l) = {FloatOf(l)}
        BY <2>2 DEF ParseFloat, NumberStringRe, IntStringRe, FloatForms
      <3>2. CoerceScalar(v, "float") = FloatOf(l)
        BY <1>5, <2>2, <3>1 DEF CoerceScalar
      <3>3. DecodedInto(FloatOf(l), "float") = {FloatOf(l)}
        BY DEF DecodedInto, FloatOf, Halves
      <3>4. l.form # "plus" /\ l \notin Words({"NaN"})
        BY <2>2 DEF NumberStringRe, IntStringRe, FloatForms, Words
      <3>5. QED
        BY <1>1, <1>5, <2>1, <3>1, <3>2, <3>3, <3>4 DEF KnownDifference
    <2>3. CASE l.form \notin NumberStringRe
      <3>1. CoerceScalar(v, "float") = v
        BY <1>5, <2>3 DEF CoerceScalar
      <3>2. DecodedInto(v, "float") = {}
        BY <1>5 DEF DecodedInto
      <3>3. ParseFloat(l) # {} <=> l.form = "plus" \/ l \in Words({"NaN"})
        <4>1. CASE l.form = "word"
          <5>1. l \in Words({"NaN"}) <=> l.word = "NaN"
            BY <2>1, <4>1 DEF Lexeme, Words, NumberForms, FloatForms, UnsignedForms
          <5>2. QED
            BY <4>1, <5>1 DEF ParseFloat, FloatForms
        <4>2. CASE l.form # "word"
          <5>1. l \notin Words({"NaN"})
            BY <4>2 DEF Words
          <5>2. QED
            BY <2>1, <2>3, <4>2, <5>1 DEF ParseFloat, NumberStringRe, IntStringRe, FloatForms, NumberForms
        <4>3. QED
          BY <4>1, <4>2
      <3>4. QED
        BY <1>1, <1>5, <2>1, <3>1, <3>2, <3>3 DEF KnownDifference
    <2>4. QED
      BY <2>2, <2>3
  <1>6. CASE v.type \in {"bool", "null"}
    <2>1. CoerceNumber(v) = {}
      BY <1>6 DEF CoerceNumber
    <2>2. DecodedInto(v, "float") = IF v.type = "null" THEN {Float(0)} ELSE {}
      BY <1>6 DEF DecodedInto, Zero
    <2>3. QED
      BY <1>1, <1>2, <1>6, <2>1, <2>2 DEF KnownDifference
  <1>7. QED
    BY <1>3, <1>4, <1>5, <1>6, ScalarTypes

LEMMA BoolField ==
    ASSUME NEW v \in Scalar
    PROVE  SectionField(v, "bool") = CoerceBool(v) <=> ~KnownDifference(v, "bool")
  <1>1. SectionField(v, "bool") = DecodedInto(CoerceScalar(v, "bool"), "bool")
    BY DEF SectionField, IsReversed
  <1>2. CASE v.type # "string"
    <2>1. CoerceScalar(v, "bool") = v
      BY <1>2 DEF CoerceScalar
    <2>2. DecodedInto(v, "bool") = CASE v.type = "null" -> {FALSE} [] v.type = "bool" -> {v.b}
                                     [] OTHER -> {}
      BY <1>2 DEF DecodedInto, Zero
    <2>3. QED
      BY <1>1, <1>2, <2>1, <2>2 DEF CoerceBool, KnownDifference
  <1>3. CASE v.type = "string"
    <2>. DEFINE l == v.lexeme
    <2>1. CoerceBool(v) = BoolWord(l)
      BY <1>3 DEF CoerceBool
    <2>2. l \notin TrueWords \/ l \notin FalseWords
      BY DEF TrueWords, FalseWords, Words
    <2>3. CASE l \in TrueWords \cup FalseWords
      <3>1. PICK b \in BOOLEAN : BoolWord(l) = {b}
        BY <2>2, <2>3 DEF BoolWord
      <3>2. CoerceScalar(v, "bool") = Bool(b)
        BY <1>3, <3>1 DEF CoerceScalar
      <3>3. DecodedInto(Bool(b), "bool") = {b}
        BY DEF DecodedInto, Bool
      <3>4. l \notin Words({"y", "on", "n", "off"})
        BY <2>3 DEF TrueWords, FalseWords, Words
      <3>5. QED
        BY <1>1, <1>3, <2>1, <3>1, <3>2, <3>3, <3>4 DEF KnownDifference
    <2>4. CASE l \notin TrueWords \cup FalseWords
      <3>1. BoolWord(l) = {}
        BY <2>4 DEF BoolWord
      <3>2. CoerceScalar(v, "bool") = v
        BY <1>3, <3>1 DEF CoerceScalar
      <3>3. DecodedInto(v, "bool") # {} <=> l \in Words({"y", "on", "n", "off"})
        <4>1. DecodedInto(v, "bool") =
                CASE l \in Words({"y", "on"}) -> {TRUE} [] l \in Words({"n", "off"}) -> {FALSE}
                  [] OTHER -> {}
          BY <1>3 DEF DecodedInto
        <4>2. /\ l \notin Words({"y", "on"}) \/ l \notin Words({"n", "off"})
              /\ l \in Words({"y", "on", "n", "off"})
                 <=> l \in Words({"y", "on"}) \/ l \in Words({"n", "off"})
          BY DEF Words
        <4>3. QED
          BY <4>1, <4>2
      <3>4. QED
        BY <1>1, <1>3, <2>1, <3>1, <3>2, <3>3 DEF KnownDifference
    <2>5. QED
      BY <2>3, <2>4
  <1>4. QED
    BY <1>2, <1>3

LEMMA StringField ==
    ASSUME NEW v \in Scalar
    PROVE  SectionField(v, "string") = CoerceString(v) <=> ~KnownDifference(v, "string")
  <1>1. CoerceScalar(v, "string") = v
    BY DEF CoerceScalar
  <1>2. CASE v.type = "string"
    <2>1. SectionField(v, "string") = {v.lexeme}
      BY <1>1, <1>2 DEF SectionField, IsReversed, DecodedInto
    <2>2. QED
      BY <1>2, <2>1 DEF CoerceString, KnownDifference
  <1>3. CASE v.type = "null"
    <2>1. SectionField(v, "string") = {Zero("string")}
      BY <1>1, <1>3 DEF SectionField, IsReversed, DecodedInto
    <2>2. QED
      BY <1>3, <2>1 DEF CoerceString, KnownDifference
  <1>4. CASE v.type \notin {"string", "null"}
    BY <1>4 DEF SectionField, IsReversed, CoerceString, KnownDifference
  <1>5. QED
    BY <1>2, <1>3, <1>4

\* A scalar asked for by a typed getter and as a field of a section of the same
\* kind gives one answer, at every width, exactly but for the differences that
\* KnownDifference lists (config.go:739-819, section_coerce.go:154-215).
THEOREM FieldMatchesGetter ==
    \A v \in Scalar, kind \in Kinds :
        SectionField(v, kind) = Coerce(kind, v) <=> ~KnownDifference(v, kind)
  BY IntField, FloatField, BoolField, StringField DEF Kinds, Coerce

-----------------------------------------------------------------------------
(* Calls: the tree, the paths and the targets they are made with.          *)

IsTarget(target) == \A k \in DOMAIN target : k \in Seq(Token) /\ target[k] \in FieldTypes

\* What holds between the calls: the tree is made of nodes, and a call that was
\* made was made of a tree, with a path and a target of the program's types.
Held ==
    /\ case \in Cases /\ Decodable(case.origin, case.lexeme)
    /\ tree # None => tree \in Node
    /\ call # None => /\ tree # None
                      /\ call.path \in Seq(Token)
                      /\ call.op = "section" => IsTarget(call.kind)

\* A call reads the tree, at a path, and changes nothing else.
LEMMA CallFacts ==
    ASSUME Held, Call
    PROVE  /\ UNCHANGED <<case, tree>> /\ tree \in Node
           /\ \E path \in Seq(Token) :
                \/ Get(path)
                \/ GetList(path)
                \/ \E kind \in Kinds : GetTyped(kind, path) \/ GetDefault(kind, path)
                \/ \E target : IsTarget(target) /\ GetSection(target, path)
  <1>1. tree \in Node /\ case \in Cases
    BY DEF Held, Call
  <1>2. UNCHANGED <<case, tree>>
    BY DEF Call, Get, GetList, GetTyped, GetDefault, GetSection, Return
  <1>3. PICK path \in Asked[case.calls].paths :
           \/ Get(path) \/ GetList(path)
           \/ \E kind \in Kinds : GetTyped(kind, path) \/ GetDefault(kind, path)
           \/ \E target \in Asked[case.calls].targets : GetSection(target, path)
    BY DEF Call
  <1>4. path \in Seq(Token) /\ \A target \in Asked[case.calls].targets : IsTarget(target)
    BY <1>1, AskedAssumption DEF IsTarget
  <1>5. CASE \E target \in Asked[case.calls].targets : GetSection(target, path)
    BY <1>1, <1>2, <1>4, <1>5
  <1>6. QED
    BY <1>1, <1>2, <1>3, <1>4, <1>5

\* What was called, by its name.
LEMMA CallNames ==
    ASSUME NEW path
    PROVE  /\ Get(path) => call' = Called("get", "any", path)
           /\ GetList(path) => call' = Called("list", "any", path)
           /\ \A kind : GetTyped(kind, path) => call' = Called("typed", kind, path)
           /\ \A kind : GetDefault(kind, path) => call' = Called("default", kind, path)
           /\ \A target : GetSection(target, path) => call' = Called("section", target, path)
  BY DEF Get, GetList, GetTyped, GetDefault, GetSection, Return

LEMMA HeldInductive == Held /\ [Next]_vars => Held'
  <1>. SUFFICES ASSUME Held, [Next]_vars PROVE Held'
    OBVIOUS
  <1>1. CASE LoadTree
    <2>1. UNCHANGED <<case, call>> /\ call = None
      BY <1>1 DEF LoadTree, Held
    <2>2. tree' = TreeOf(case.shape, Decoded(case.origin, case.lexeme))
      BY <1>1 DEF LoadTree
    <2>3. tree' \in Node
      BY <2>2, NodeAssumption DEF Held
    <2>4. QED
      BY <2>1, <2>3 DEF Held
  <1>2. CASE Call
    <2>1. UNCHANGED <<case, tree>> /\ tree # None
      BY <1>2, CallFacts DEF Call
    <2>2. call'.path \in Seq(Token) /\ (call'.op = "section" => IsTarget(call'.kind))
      <3>1. PICK path \in Seq(Token) :
                \/ Get(path)
                \/ GetList(path)
                \/ \E kind \in Kinds : GetTyped(kind, path) \/ GetDefault(kind, path)
                \/ \E target : IsTarget(target) /\ GetSection(target, path)
        BY <1>2, CallFacts
      <3>2. \/ \E op \in {"get", "list", "typed", "default"} : \E kind : call' = Called(op, kind, path)
            \/ \E target : IsTarget(target) /\ call' = Called("section", target, path)
        BY <3>1, CallNames
      <3>3. QED
        BY <3>2 DEF Called
    <2>3. QED
      BY <2>1, <2>2 DEF Held
  <1>3. CASE Done \/ UNCHANGED vars
    BY <1>3 DEF Done, Held, vars
  <1>4. QED
    BY <1>1, <1>2, <1>3 DEF Next

LEMMA AlwaysHeld == Spec => []Held
  <1>1. Init => Held
    BY DEF Init, Held
  <1>2. QED
    BY <1>1, HeldInductive, PTL DEF Spec

\* The error of a read names a path that fails in the same way (paths.go:127-137,
\* 200-217), for every tree and every path.
THEOREM ErrorPathReadsBackHolds == Spec => []ErrorPathReadsBack
  <1>1. Init => ErrorPathReadsBack
    BY DEF Init, ErrorPathReadsBack
  <1>2. Held /\ ErrorPathReadsBack /\ [Next]_vars => ErrorPathReadsBack'
    <2>. SUFFICES ASSUME Held, ErrorPathReadsBack, [Next]_vars PROVE ErrorPathReadsBack'
      OBVIOUS
    <2>1. CASE LoadTree
      BY <2>1 DEF LoadTree, Held, ErrorPathReadsBack
    <2>2. CASE Call
      <3>1. PICK path \in Seq(Token) :
                \/ Get(path)
                \/ GetList(path)
                \/ \E kind \in Kinds : GetTyped(kind, path) \/ GetDefault(kind, path)
                \/ \E target : IsTarget(target) /\ GetSection(target, path)
        BY <2>2, CallFacts
      <3>2. CASE Get(path)
        <4>1. tree' = tree /\ answer' = Navigate(tree, path)
          BY <3>2 DEF Get, Return
        <4>2. ~IsFound(answer') /\ answer'.reason # "parse_error" =>
                 Navigate(tree, answer'.path) = answer'
          BY <4>1, NavigateReadsBack
        <4>3. QED
          BY <4>1, <4>2 DEF ErrorPathReadsBack
      <3>3. CASE ~Get(path)
        <4>1. call'.op # "get"
          BY <3>1, <3>3, CallNames DEF Called
        <4>2. QED
          BY <4>1 DEF ErrorPathReadsBack
      <3>4. QED
        BY <3>2, <3>3
    <2>3. CASE Done \/ UNCHANGED vars
      BY <2>3 DEF Done, ErrorPathReadsBack, vars
    <2>4. QED
      BY <2>1, <2>2, <2>3 DEF Next
  <1>3. QED
    BY <1>1, <1>2, AlwaysHeld, PTL DEF Spec

-----------------------------------------------------------------------------
(* What a walk through a tree of nodes meets.                              *)

LEMMA NodeFacts ==
    ASSUME NEW v \in Node
    PROVE  /\ v \in Scalar \/ IsListNode(v) \/ IsMapNode(v)
           /\ v \in Scalar => ~IsListNode(v) /\ ~IsMapNode(v)
           /\ IsListNode(v) => /\ ~IsMapNode(v)
                               /\ v.list \in Seq(Branches(v)) /\ Len(v.list) \in 0 .. MaxIndex
                               /\ DOMAIN v.list = 1 .. Len(v.list)
                               /\ \A i \in DOMAIN v.list : v.list[i] \in Node
           /\ IsMapNode(v) => \A k \in DOMAIN v.map : k \in Seq(Token) /\ v.map[k] \in Node
  <1>1. Branches(v) \subseteq Node
    BY NodeAssumption
  <1>2. v \in Scalar => "type" \in DOMAIN v
    BY DEF Scalar, Nan, Null
  <1>3. v \in Scalar => ~IsListNode(v) /\ ~IsMapNode(v)
    BY <1>2 DEF IsListNode, IsMapNode
  <1>4. \/ v \in Scalar
        \/ IsListNode(v) /\ v.list \in Seq(Branches(v)) /\ Len(v.list) <= MaxIndex
        \/ IsMapNode(v) /\ DOMAIN v.map \subseteq Seq(Token)
    BY NodeAssumption
  <1>5. IsListNode(v) => ~IsMapNode(v)
    BY DEF IsListNode, IsMapNode
  <1>6. ASSUME IsListNode(v)
        PROVE  /\ v.list \in Seq(Branches(v)) /\ Len(v.list) \in 0 .. MaxIndex
               /\ DOMAIN v.list = 1 .. Len(v.list)
               /\ \A i \in DOMAIN v.list : v.list[i] \in Node
    <2>1. v.list \in Seq(Branches(v)) /\ Len(v.list) <= MaxIndex
      BY <1>3, <1>4, <1>5, <1>6
    <2>2. Len(v.list) \in Nat /\ DOMAIN v.list = 1 .. Len(v.list)
          /\ \A i \in DOMAIN v.list : v.list[i] \in Branches(v)
      BY <2>1
    <2>3. QED
      BY <1>1, <2>1, <2>2, MaxIndexAssumption
  <1>7. ASSUME IsMapNode(v)
        PROVE  \A k \in DOMAIN v.map : k \in Seq(Token) /\ v.map[k] \in Node
    <2>1. DOMAIN v.map \subseteq Seq(Token)
      BY <1>3, <1>4, <1>5, <1>7
    <2>2. \A k \in DOMAIN v.map : v.map[k] \in Branches(v)
      <3>. DEFINE f == v.map
      <3>1. Branches(v) = {f[k] : k \in DOMAIN f}
        BY <1>5, <1>7, Zenon DEF Branches
      <3>. HIDE DEF f
      <3>2. \A k \in DOMAIN f : f[k] \in Branches(v)
        BY <3>1
      <3>3. QED
        BY <3>2 DEF f
    <2>3. QED
      BY <1>1, <2>1, <2>2
  <1>8. QED
    BY <1>3, <1>4, <1>5, <1>6, <1>7

LEMMA WalkInNode ==
    ASSUME NEW root \in Node, NEW segments \in Seq(Segment), NEW n \in 0 .. Len(segments),
           IsFound(WalkFrom(root, SubSeq(segments, 1, n)))
    PROVE  LET result == WalkFrom(root, SubSeq(segments, 1, n)) IN
           result = Found(result.found) /\ result.found \in Node
  <1>. DEFINE W(m) == WalkFrom(root, SubSeq(segments, 1, m))
              Good(m) == m <= Len(segments) /\ IsFound(W(m)) =>
                            W(m) = Found(W(m).found) /\ W(m).found \in Node
              S == {m \in Nat : Good(m)}
  <1>1. 0 \in S
    <2>1. SubSeq(segments, 1, 0) = <<>>
      OBVIOUS
    <2>2. W(0) = Found(root)
      BY <2>1, WalkOfNothing, Zenon
    <2>3. Good(0)
      <3>. HIDE DEF W
      <3>1. QED
        BY <2>2 DEF Found
    <2>4. QED
      BY <2>3
  <1>2. ASSUME NEW m \in Nat, m \in S PROVE m + 1 \in S
    <2>. SUFFICES ASSUME m + 1 <= Len(segments), IsFound(W(m + 1))
                  PROVE  W(m + 1) = Found(W(m + 1).found) /\ W(m + 1).found \in Node
      OBVIOUS
    <2>. DEFINE seg == segments[m + 1]
                v == W(m).found
    <2>1. m + 1 \in 1 .. Len(segments) /\ (m + 1) - 1 = m /\ m <= Len(segments)
      OBVIOUS
    <2>2. W(m + 1) = Entered(W(m), segments, m + 1)
      BY <2>1, WalkStep
    <2>3. seg \in Segment
      BY <2>1
    <2>. HIDE DEF W
    <2>4. IsFound(W(m))
      BY <2>2 DEF Entered
    <2>5. v \in Node /\ Good(m)
      BY <1>2, <2>1, <2>4
    <2>6. \/ IsIndex(seg) /\ IsListNode(v) /\ seg.index < Len(v.list)
             /\ W(m + 1) = Found(v.list[seg.index + 1])
          \/ ~IsIndex(seg) /\ IsMapNode(v) /\ seg.key \in DOMAIN v.map
             /\ W(m + 1) = Found(v.map[seg.key])
      BY <2>2, <2>4 DEF Entered, IsFound, Stopped, Found
    <2>7. CASE IsIndex(seg)
      <3>1. seg.index \in Nat
        BY <2>3, <2>7 DEF IsIndex, Segment
      <3>2. seg.index + 1 \in DOMAIN v.list
        BY <2>5, <2>6, <2>7, <3>1, NodeFacts
      <3>3. v.list[seg.index + 1] \in Node
        BY <2>5, <2>6, <2>7, <3>2, NodeFacts
      <3>4. QED
        BY <2>6, <2>7, <3>3 DEF Found
    <2>8. CASE ~IsIndex(seg)
      BY <2>5, <2>6, <2>8, NodeFacts DEF Found
    <2>9. QED
      BY <2>7, <2>8
  <1>3. Nat \subseteq S
    <2>. HIDE DEF S
    <2>1. QED
      BY <1>1, <1>2, NatSetInduction
  <1>4. Good(n)
    <2>. HIDE DEF Good
    <2>1. QED
      BY <1>3
  <1>5. QED
    BY <1>4

LEMMA NavigateInNode ==
    ASSUME NEW root \in Node, NEW path \in Seq(Token), IsFound(Navigate(root, path))
    PROVE  LET result == Navigate(root, path) IN
           result = Found(result.found) /\ result.found \in Node
  <1>1. ParsePath(path) # {}
    BY DEF Navigate, IsFound, Stopped
  <1>2. PICK segments \in ParsePath(path) : TRUE
    BY <1>1
  <1>3. Navigate(root, path) = WalkFrom(root, segments) /\ segments \in Seq(Segment)
    BY <1>2, NavigateDef
  <1>4. SubSeq(segments, 1, Len(segments)) = segments /\ Len(segments) \in 0 .. Len(segments)
    BY <1>3
  <1>5. WalkFrom(root, SubSeq(segments, 1, Len(segments))) = Navigate(root, path)
    BY <1>3, <1>4, Zenon
  <1>6. IsFound(WalkFrom(root, SubSeq(segments, 1, Len(segments))))
    BY <1>5, Zenon
  <1>7. QED
    BY <1>3, <1>4, <1>5, <1>6, WalkInNode

\* A walk that stops for a missing value stops in a map without the key, or in
\* a list without the element.
LEMMA MissingIsAbsent ==
    ASSUME NEW root \in Node, NEW path \in Seq(Token),
           ~IsFound(Navigate(root, path)), Navigate(root, path).reason = "missing"
    PROVE  \E segments \in ParsePath(path) : \E n \in DOMAIN segments :
              LET parent == WalkFrom(root, SubSeq(segments, 1, n - 1)) IN
              /\ IsFound(parent)
              /\ \/ ~IsIndex(segments[n]) /\ IsMapNode(parent.found)
                    /\ segments[n].key \notin DOMAIN parent.found.map
                 \/ IsIndex(segments[n]) /\ IsListNode(parent.found)
                    /\ segments[n].index + 1 \notin DOMAIN parent.found.list
  <1>1. ParsePath(path) # {}
    BY DEF Navigate, Stopped
  <1>2. PICK segments \in ParsePath(path) : TRUE
    BY <1>1
  <1>3. Navigate(root, path) = WalkFrom(root, segments) /\ segments \in Seq(Segment)
    BY <1>2, NavigateDef
  <1>4. PICK n \in 1 .. Len(segments) : StopsAt(root, segments, n, WalkFrom(root, segments))
    BY <1>3, WalkStops
  <1>. DEFINE parent == WalkFrom(root, SubSeq(segments, 1, n - 1))
              v == parent.found
  <1>5. n \in DOMAIN segments /\ n - 1 \in 0 .. Len(segments) /\ segments[n] \in Segment
    BY <1>3, <1>4
  <1>6. IsFound(parent) /\ Absent(v, segments[n])
    BY <1>3, <1>4 DEF StopsAt
  <1>7. v \in Node
    BY <1>3, <1>5, <1>6, WalkInNode
  <1>. HIDE DEF parent
  <1>8. \/ ~IsIndex(segments[n]) /\ IsMapNode(v) /\ segments[n].key \notin DOMAIN v.map
        \/ IsIndex(segments[n]) /\ IsListNode(v) /\ segments[n].index + 1 \notin DOMAIN v.list
    <2>1. CASE IsIndex(segments[n])
      <3>1. IsListNode(v) /\ ~(segments[n].index < Len(v.list)) /\ segments[n].index \in Nat
        BY <1>5, <1>6, <2>1 DEF Absent, IsIndex, Segment
      <3>2. DOMAIN v.list = 1 .. Len(v.list) /\ Len(v.list) \in Nat
        BY <1>7, <3>1, NodeFacts
      <3>3. QED
        BY <2>1, <3>1, <3>2
    <2>2. CASE ~IsIndex(segments[n])
      BY <1>6, <2>2 DEF Absent
    <2>3. QED
      BY <2>1, <2>2
  <1>9. QED
    BY <1>2, <1>5, <1>6, <1>8 DEF parent

\* What a typed getter makes of a value is never the default itself.
LEMMA TypedIsNoDefault ==
    ASSUME NEW v \in Node, NEW kind \in Kinds, NEW path
    PROVE  Typed(kind, v, path) # Found(Default)
  <1>1. CASE ~IsMapNode(v) /\ ~IsListNode(v) /\ Coerce(kind, v) # {}
    <2>1. v \in Node \cap Scalar
      BY <1>1, NodeFacts
    <2>. DEFINE c == CHOOSE x \in Coerce(kind, v) : TRUE
    <2>2. c \in Coerce(kind, v)
      BY <1>1
    <2>3. c # Default
      BY <2>1, <2>2, DefaultAssumption
    <2>. HIDE DEF c
    <2>4. Typed(kind, v, path) = Found(c)
      BY <1>1 DEF Typed, c
    <2>5. QED
      BY <2>3, <2>4 DEF Found
  <1>2. CASE ~(~IsMapNode(v) /\ ~IsListNode(v) /\ Coerce(kind, v) # {})
    <2>1. Typed(kind, v, path) = Stopped("type_mismatch", path)
      BY <1>2 DEF Typed
    <2>2. QED
      BY <2>1 DEF Stopped, Found
  <1>3. QED
    BY <1>1, <1>2

\* The default stands only where there is nothing (config.go:510-519, 532-541,
\* 711-721).
THEOREM DefaultOnlyWhenAbsentHolds == Spec => []DefaultOnlyWhenAbsent
  <1>1. Init => DefaultOnlyWhenAbsent
    BY DEF Init, DefaultOnlyWhenAbsent
  <1>2. Held /\ DefaultOnlyWhenAbsent /\ [Next]_vars => DefaultOnlyWhenAbsent'
    <2>. SUFFICES ASSUME Held, DefaultOnlyWhenAbsent, [Next]_vars PROVE DefaultOnlyWhenAbsent'
      OBVIOUS
    <2>1. CASE LoadTree
      BY <2>1 DEF LoadTree, Held, DefaultOnlyWhenAbsent
    <2>2. CASE Call
      <3>1. PICK path \in Seq(Token) :
                \/ Get(path)
                \/ GetList(path)
                \/ \E kind \in Kinds : GetTyped(kind, path) \/ GetDefault(kind, path)
                \/ \E target : IsTarget(target) /\ GetSection(target, path)
        BY <2>2, CallFacts
      <3>2. tree \in Node /\ tree' = tree
        BY <2>2, CallFacts
      <3>3. ASSUME NEW kind \in Kinds, GetDefault(kind, path) PROVE DefaultOnlyWhenAbsent'
        <4>. SUFFICES ASSUME answer' = Found(Default) PROVE DefaultOnlyWhenAbsent'
          BY DEF DefaultOnlyWhenAbsent
        <4>. DEFINE result == Navigate(tree, path)
        <4>1. call'.path = path
          BY <3>3, CallNames DEF Called
        <4>2. ~IsFound(result)
          <5>. SUFFICES ASSUME IsFound(result) PROVE FALSE
            OBVIOUS
          <5>1. answer' = Typed(kind, result.found, path)
            BY <3>3 DEF GetDefault, Return
          <5>2. result.found \in Node
            BY <3>2, NavigateInNode
          <5>3. QED
            BY <5>1, <5>2, TypedIsNoDefault
        <4>3. IsMissing(result)
          <5>1. ~IsMissing(result) => answer' = result
            BY <3>3, <4>2 DEF GetDefault, Return
          <5>2. QED
            BY <4>2, <5>1 DEF IsFound, Found
        <4>4. QED
          BY <3>2, <4>1, <4>2, <4>3, MissingIsAbsent DEF DefaultOnlyWhenAbsent, IsMissing
      <3>4. CASE \A kind \in Kinds : ~GetDefault(kind, path)
        <4>1. \/ Get(path) \/ GetList(path)
              \/ \E kind : GetTyped(kind, path)
              \/ \E target : GetSection(target, path)
          BY <3>1, <3>4
        <4>2. \E op \in {"get", "list", "typed", "section"} : \E kind : call' = Called(op, kind, path)
          BY <4>1, CallNames
        <4>3. call'.op # "default"
          BY <4>2 DEF Called
        <4>4. QED
          BY <4>3 DEF DefaultOnlyWhenAbsent
      <3>5. QED
        BY <3>3, <3>4
    <2>3. CASE Done \/ UNCHANGED vars
      BY <2>3 DEF Done, DefaultOnlyWhenAbsent, vars
    <2>4. QED
      BY <2>1, <2>2, <2>3 DEF Next
  <1>3. QED
    BY <1>1, <1>2, AlwaysHeld, PTL DEF Spec

-----------------------------------------------------------------------------
(* GetSection.                                                             *)

\* What coerceForType reaches in a field: nodes, each with the kind it is
\* decoded into.
LEMMA ReachedFacts ==
    ASSUME NEW v \in Node, NEW t \in FieldTypes, NEW path, NEW f \in Reached(v, t, path)
    PROVE  /\ \/ t \in [scalar : FieldKinds] /\ f = [at |-> path, value |-> v, kind |-> t.scalar]
              \/ /\ IsListNode(v)
                 /\ \E i \in DOMAIN v.list :
                      f = [at |-> Element(path, i), value |-> v.list[i], kind |-> t.list]
              \/ /\ IsMapNode(v)
                 /\ \E k \in DOMAIN v.map :
                      f = [at |-> Child(path, k), value |-> v.map[k], kind |-> t.map]
           /\ f.value \in Node /\ f.kind \in FieldKinds
           /\ ~IsContainer(f.value) => f.value \in Scalar
  <1>1. CASE t \in [scalar : FieldKinds]
    <2>1. DOMAIN t = {"scalar"} /\ t.scalar \in FieldKinds
      BY <1>1
    <2>2. f = [at |-> path, value |-> v, kind |-> t.scalar]
      BY <2>1 DEF Reached
    <2>3. f.value \in Node /\ f.kind \in FieldKinds
      BY <2>1, <2>2
    <2>4. QED
      BY <1>1, <2>2, <2>3, NodeFacts DEF IsContainer
  <1>2. CASE t \in [list : FieldKinds]
    <2>1. DOMAIN t = {"list"} /\ t.list \in FieldKinds
      BY <1>2
    <2>2. IsListNode(v)
      BY <2>1 DEF Reached
    <2>3. PICK i \in DOMAIN v.list :
             f = [at |-> Element(path, i), value |-> v.list[i], kind |-> t.list]
      BY <2>1, <2>2 DEF Reached
    <2>4. f.value \in Node /\ f.kind \in FieldKinds
      BY <2>1, <2>2, <2>3, NodeFacts
    <2>5. QED
      BY <2>2, <2>3, <2>4, NodeFacts DEF IsContainer
  <1>3. CASE t \in [map : FieldKinds]
    <2>1. DOMAIN t = {"map"} /\ t.map \in FieldKinds
      BY <1>3
    <2>2. IsMapNode(v)
      BY <2>1 DEF Reached
    <2>3. PICK k \in DOMAIN v.map :
             f = [at |-> Child(path, k), value |-> v.map[k], kind |-> t.map]
      BY <2>1, <2>2 DEF Reached
    <2>4. f.value \in Node /\ f.kind \in FieldKinds
      BY <2>1, <2>2, <2>3, NodeFacts
    <2>5. QED
      BY <2>2, <2>3, <2>4, NodeFacts DEF IsContainer
  <1>4. QED
    BY <1>1, <1>2, <1>3 DEF FieldTypes

\* How many elements of a list are not null, one element further.
LEMMA PlaceFacts ==
    ASSUME NEW list, NEW n \in Nat
    PROVE  /\ Place(list, n) \in Nat /\ Place(list, 0) = 0
           /\ Place(list, n + 1) = Place(list, n) + IF list[n + 1] # Null THEN 1 ELSE 0
  <1>. DEFINE Kept(m) == {h \in 1 .. m : list[h] # Null}
  <1>1. ASSUME NEW m \in Nat
        PROVE  IsFiniteSet(Kept(m)) /\ Cardinality(Kept(m)) \in Nat
    <2>1. IsFiniteSet(1 .. m)
      BY <1>1, FS_Interval
    <2>2. IsFiniteSet(Kept(m))
      BY <2>1, FS_Subset
    <2>3. QED
      BY <2>2, FS_CardinalityType
  <1>2. Kept(0) = {} /\ Cardinality({}) = 0
    BY FS_EmptySet
  <1>3. Cardinality(Kept(n + 1)) = Cardinality(Kept(n)) + IF list[n + 1] # Null THEN 1 ELSE 0
    <2>1. CASE list[n + 1] = Null
      <3>1. Kept(n + 1) = Kept(n)
        BY <2>1
      <3>2. QED
        BY <1>1, <2>1, <3>1
    <2>2. CASE list[n + 1] # Null
      <3>1. Kept(n + 1) = Kept(n) \cup {n + 1} /\ n + 1 \notin Kept(n)
        BY <2>2
      <3>2. IsFiniteSet(Kept(n))
        BY <1>1
      <3>. HIDE DEF Kept
      <3>3. Cardinality(Kept(n) \cup {n + 1}) = Cardinality(Kept(n)) + 1
        BY <3>1, <3>2, FS_AddElement
      <3>4. QED
        BY <2>2, <3>1, <3>3
    <2>3. QED
      BY <2>1, <2>2
  <1>4. \A m : Place(list, m) = Cardinality(Kept(m))
    BY DEF Place
  <1>5. Cardinality(Kept(n)) \in Nat
    BY <1>1
  <1>. HIDE DEF Kept
  <1>6. QED
    BY <1>2, <1>3, <1>4, <1>5

\* The equation of WithoutNulls.
IsKept(list, kept) ==
    /\ kept[0] = <<>>
    /\ \A n \in 1 .. Len(list) :
          kept[n] = IF list[n] = Null THEN kept[n - 1] ELSE Append(kept[n - 1], list[n])

LEMMA WithoutNullsDef ==
    ASSUME NEW list, Len(list) \in Nat
    PROVE  \E kept : IsKept(list, kept) /\ WithoutNulls(list) = kept[Len(list)]
  <1>. DEFINE Step(n, kept) == IF list[n] = Null THEN kept ELSE Append(kept, list[n])
              Def(N, f) == f = [n \in 0 .. N |-> IF n = 0 THEN <<>> ELSE Step(n, f[n - 1])]
              S == {N \in Nat : \E f : Def(N, f)}
  <1>0. WithoutNulls(list) =
          (CHOOSE f : Def(Len(list), f))[Len(list)]
    <2>1. \A f : [n \in 0 .. Len(list) |->
                     IF n = 0 THEN <<>>
                     ELSE IF list[n] = Null THEN f[n - 1] ELSE Append(f[n - 1], list[n])]
                 = [n \in 0 .. Len(list) |-> IF n = 0 THEN <<>> ELSE Step(n, f[n - 1])]
      OBVIOUS
    <2>2. QED
      BY DEF WithoutNulls
  <1>00. \A n, kept : Step(n, kept) = IF list[n] = Null THEN kept ELSE Append(kept, list[n])
    OBVIOUS
  <1>. HIDE DEF Step
  <1>1. 0 \in S
    <2>1. Def(0, [n \in 0 .. 0 |-> <<>>])
      OBVIOUS
    <2>2. QED
      BY <2>1
  <1>2. ASSUME NEW N \in Nat, N \in S PROVE N + 1 \in S
    <2>1. PICK f : Def(N, f)
      BY <1>2
    <2>. DEFINE g == [n \in 0 .. N + 1 |-> IF n <= N THEN f[n] ELSE Step(N + 1, f[N])]
    <2>2. ASSUME NEW n \in 0 .. N + 1
          PROVE  g[n] = IF n = 0 THEN <<>> ELSE Step(n, g[n - 1])
      <3>1. CASE n = 0
        BY <2>1, <3>1
      <3>2. CASE n # 0 /\ n <= N
        <4>1. f[n] = Step(n, f[n - 1])
          BY <2>1, <3>2
        <4>2. g[n] = f[n] /\ g[n - 1] = f[n - 1]
          BY <3>2
        <4>3. QED
          BY <3>2, <4>1, <4>2
      <3>3. CASE n = N + 1
        <4>1. g[n] = Step(N + 1, f[N]) /\ g[n - 1] = f[N] /\ n # 0
          BY <3>3
        <4>2. QED
          BY <3>3, <4>1
      <3>4. QED
        BY <3>1, <3>2, <3>3
    <2>3. Def(N + 1, g)
      BY <2>2
    <2>4. \E h : Def(N + 1, h)
      <3>. HIDE DEF Def
      <3>1. QED
        BY <2>3
    <2>. HIDE DEF Def
    <2>5. QED
      BY <2>4
  <1>3. Nat \subseteq S
    <2>. HIDE DEF S
    <2>1. QED
      BY <1>1, <1>2, NatSetInduction
  <1>4. PICK f : Def(Len(list), f)
    BY <1>3
  <1>. DEFINE kept == CHOOSE g : Def(Len(list), g)
  <1>5. Def(Len(list), kept)
    <2>. HIDE DEF Def
    <2>1. QED
      BY <1>4
  <1>6. WithoutNulls(list) = kept[Len(list)]
    BY <1>0
  <1>. HIDE DEF kept
  <1>7. \A n \in 0 .. Len(list) : kept[n] = IF n = 0 THEN <<>> ELSE Step(n, kept[n - 1])
    BY <1>5
  <1>8. IsKept(list, kept)
    <2>1. kept[0] = <<>>
      <3>1. 0 \in 0 .. Len(list)
        OBVIOUS
      <3>2. QED
        BY <1>7, <3>1
    <2>2. ASSUME NEW n \in 1 .. Len(list)
          PROVE  kept[n] = IF list[n] = Null THEN kept[n - 1] ELSE Append(kept[n - 1], list[n])
      <3>1. n \in 0 .. Len(list) /\ n # 0
        OBVIOUS
      <3>2. kept[n] = Step(n, kept[n - 1])
        BY <1>7, <3>1
      <3>3. QED
        BY <1>00, <3>2
    <2>3. QED
      BY <2>1, <2>2 DEF IsKept
  <1>9. QED
    BY <1>6, <1>8

\* Every element of a list that is not null is kept, at its place among those.
LEMMA WithoutNullsFacts ==
    ASSUME NEW S, NEW list \in Seq(S)
    PROVE  /\ DOMAIN WithoutNulls(list) = 1 .. Place(list, Len(list))
           /\ \A i \in DOMAIN list :
                 list[i] # Null => /\ Place(list, i) \in DOMAIN WithoutNulls(list)
                                   /\ WithoutNulls(list)[Place(list, i)] = list[i]
  <1>0. Len(list) \in Nat /\ DOMAIN list = 1 .. Len(list) /\ \A i \in 1 .. Len(list) : list[i] \in S
    OBVIOUS
  <1>1. PICK kept : IsKept(list, kept) /\ WithoutNulls(list) = kept[Len(list)]
    BY <1>0, WithoutNullsDef
  <1>. DEFINE IsKeptTo(n) ==
                /\ kept[n] \in Seq(S) /\ Len(kept[n]) = Place(list, n)
                /\ \A i \in 1 .. n :
                      list[i] # Null => /\ Place(list, i) \in 1 .. Place(list, n)
                                        /\ kept[n][Place(list, i)] = list[i]
              Reach == {n \in Nat : n <= Len(list) => IsKeptTo(n)}
  <1>2. 0 \in Reach
    <2>1. kept[0] = <<>>
      BY <1>1 DEF IsKept
    <2>2. Place(list, 0) = 0
      <3>1. 0 \in Nat
        OBVIOUS
      <3>2. QED
        BY <3>1, PlaceFacts
    <2>3. <<>> \in Seq(S) /\ Len(<<>>) = 0 /\ 1 .. 0 = {}
      OBVIOUS
    <2>4. IsKeptTo(0)
      BY <2>1, <2>2, <2>3
    <2>5. QED
      BY <2>4
  <1>3. ASSUME NEW n \in Nat, n \in Reach PROVE n + 1 \in Reach
    <2>. SUFFICES ASSUME n + 1 <= Len(list) PROVE IsKeptTo(n + 1)
      OBVIOUS
    <2>. DEFINE old == kept[n]
                p == Place(list, n)
                x == list[n + 1]
    <2>1. IsKeptTo(n) /\ n + 1 \in 1 .. Len(list) /\ x \in S
      BY <1>0, <1>3
    <2>2. p \in Nat /\ Place(list, n + 1) = p + IF x # Null THEN 1 ELSE 0
      BY PlaceFacts
    <2>3. old \in Seq(S) /\ Len(old) = p
      BY <2>1
    <2>4. kept[n + 1] = IF x = Null THEN old ELSE Append(old, x)
      <3>1. (n + 1) - 1 = n
        OBVIOUS
      <3>2. QED
        BY <1>1, <2>1, <3>1 DEF IsKept
    <2>5. \A i \in 1 .. n : list[i] # Null =>
             Place(list, i) \in 1 .. p /\ old[Place(list, i)] = list[i]
      BY <2>1
    <2>6. \A i \in 1 .. n + 1 : i \in 1 .. n \/ i = n + 1
      OBVIOUS
    <2>7. CASE x = Null
      <3>1. kept[n + 1] = old /\ Place(list, n + 1) = p
        BY <2>2, <2>4, <2>7
      <3>. HIDE DEF old, p
      <3>2. QED
        BY <2>3, <2>5, <2>6, <2>7, <3>1
    <2>8. CASE x # Null
      <3>1. kept[n + 1] = Append(old, x) /\ Place(list, n + 1) = p + 1
        BY <2>2, <2>4, <2>8
      <3>. HIDE DEF old, p, x
      <3>2. /\ Append(old, x) \in Seq(S) /\ Len(Append(old, x)) = p + 1
            /\ Append(old, x)[p + 1] = x /\ \A q \in 1 .. p : Append(old, x)[q] = old[q]
        BY <2>1, <2>2, <2>3
      <3>3. ASSUME NEW i \in 1 .. n + 1, list[i] # Null
            PROVE  /\ Place(list, i) \in 1 .. p + 1
                   /\ Append(old, x)[Place(list, i)] = list[i]
        <4>1. CASE i \in 1 .. n
          BY <2>2, <2>5, <3>2, <3>3, <4>1
        <4>2. CASE i = n + 1
          BY <2>2, <3>1, <3>2, <4>2 DEF x
        <4>3. QED
          BY <2>6, <4>1, <4>2
      <3>4. QED
        BY <3>1, <3>2, <3>3
    <2>9. QED
      BY <2>7, <2>8
  <1>4. IsKeptTo(Len(list))
    <2>1. Nat \subseteq Reach
      <3>. HIDE DEF Reach
      <3>1. QED
        BY <1>2, <1>3, NatSetInduction
    <2>2. QED
      BY <1>0, <2>1
  <1>5. QED
    BY <1>0, <1>1, <1>4

\* A scalar of a section answers as the getter of its kind does.
LEMMA FieldValueMatches ==
    ASSUME NEW v \in Node, NEW kind \in Kinds
    PROVE  Matches(FieldValue(v, kind), v, kind)
  <1>. SUFFICES ASSUME ~IsContainer(v)
                PROVE  FieldValue(v, kind) = Coerce(kind, v) <=> ~KnownDifference(v, kind)
    BY DEF Matches
  <1>1. v \in Scalar
    BY NodeFacts DEF IsContainer
  <1>2. FieldValue(v, kind) = SectionField(v, kind)
    BY DEF FieldValue
  <1>3. QED
    BY <1>1, <1>2, FieldMatchesGetter

\* What a section holds of a field, whatever its type: no element of a list is
\* lost but its nulls.
LEMMA SectionValueMatches ==
    ASSUME NEW v \in Node, NEW t \in [scalar : Kinds] \cup [list : Kinds] \cup [map : Kinds]
    PROVE  ValueMatches(SectionValue(v, t), v, t)
  <1>1. CASE t \in [scalar : Kinds]
    <2>1. DOMAIN t = {"scalar"} /\ t.scalar \in Kinds
      BY <1>1
    <2>2. SectionValue(v, t) = FieldValue(v, t.scalar)
      BY <2>1 DEF SectionValue
    <2>3. Matches(FieldValue(v, t.scalar), v, t.scalar)
      BY <2>1, FieldValueMatches
    <2>4. QED
      BY <2>1, <2>2, <2>3 DEF ValueMatches
  <1>2. CASE t \in [list : Kinds]
    <2>1. DOMAIN t = {"list"} /\ t.list \in Kinds
      BY <1>2
    <2>. SUFFICES ASSUME IsListNode(v)
                  PROVE  ValueMatches(SectionValue(v, t), v, t)
      BY <2>1 DEF ValueMatches
    <2>. DEFINE values == SectionValue(v, t)
                list == v.list
                kept == WithoutNulls(list)
    <2>2. values = [j \in DOMAIN kept |-> FieldValue(kept[j], t.list)]
      BY <2>1 DEF SectionValue
    <2>3. list \in Seq(Branches(v)) /\ \A i \in DOMAIN list : list[i] \in Node
      BY NodeFacts
    <2>4. /\ DOMAIN kept = 1 .. Place(list, Len(list))
          /\ \A i \in DOMAIN list :
                list[i] # Null => Place(list, i) \in DOMAIN kept /\ kept[Place(list, i)] = list[i]
      BY <2>3, WithoutNullsFacts
    <2>. HIDE DEF kept
    <2>5. DOMAIN values = 1 .. Place(list, Len(list))
      BY <2>2, <2>4
    <2>6. ASSUME NEW i \in DOMAIN list, list[i] # Null
          PROVE  Matches(values[Place(list, i)], list[i], t.list)
      <3>1. values[Place(list, i)] = FieldValue(list[i], t.list)
        BY <2>2, <2>4, <2>6
      <3>2. Matches(FieldValue(list[i], t.list), list[i], t.list)
        BY <2>1, <2>3, FieldValueMatches
      <3>. HIDE DEF values
      <3>3. QED
        BY <3>1, <3>2
    <2>. HIDE DEF values
    <2>7. QED
      BY <2>1, <2>5, <2>6 DEF ValueMatches, values
  <1>3. CASE t \in [map : Kinds]
    <2>1. DOMAIN t = {"map"} /\ t.map \in Kinds
      BY <1>3
    <2>. SUFFICES ASSUME IsMapNode(v)
                  PROVE  ValueMatches(SectionValue(v, t), v, t)
      BY <2>1 DEF ValueMatches
    <2>. DEFINE values == SectionValue(v, t)
    <2>2. values = [k \in DOMAIN v.map |-> FieldValue(v.map[k], t.map)]
      BY <2>1 DEF SectionValue
    <2>3. ASSUME NEW k \in DOMAIN v.map
          PROVE  Matches(values[k], v.map[k], t.map)
      <3>1. v.map[k] \in Node
        BY NodeFacts
      <3>2. Matches(FieldValue(v.map[k], t.map), v.map[k], t.map)
        BY <2>1, <3>1, FieldValueMatches
      <3>3. values[k] = FieldValue(v.map[k], t.map)
        BY <2>2
      <3>. HIDE DEF values
      <3>4. QED
        BY <3>2, <3>3
    <2>. HIDE DEF values
    <2>4. QED
      BY <2>1, <2>3 DEF ValueMatches, values
  <1>4. QED
    BY <1>1, <1>2, <1>3

\* A successful GetSection returns the values of its fields.
AnswerIsSection ==
    SectionCalled /\ IsFound(answer) =>
        LET section == Navigate(tree, call.path).found IN
        \A k \in DOMAIN call.kind \cap DOMAIN section.map :
            answer.found[k] = SectionValue(section.map[k], call.kind[k])

LEMMA AnswerIsSectionHolds == Spec => []AnswerIsSection
  <1>1. Init => AnswerIsSection
    BY DEF Init, AnswerIsSection, SectionCalled
  <1>2. Held /\ AnswerIsSection /\ [Next]_vars => AnswerIsSection'
    <2>. SUFFICES ASSUME Held, AnswerIsSection, [Next]_vars PROVE AnswerIsSection'
      OBVIOUS
    <2>1. CASE LoadTree
      <3>1. call' = None
        BY <2>1 DEF LoadTree, Held
      <3>2. QED
        BY <3>1 DEF AnswerIsSection, SectionCalled
    <2>2. CASE Call
      <3>1. PICK path \in Seq(Token) :
                \/ Get(path)
                \/ GetList(path)
                \/ \E kind \in Kinds : GetTyped(kind, path) \/ GetDefault(kind, path)
                \/ \E target : IsTarget(target) /\ GetSection(target, path)
        BY <2>2, CallFacts
      <3>2. tree' = tree
        BY <2>2, CallFacts
      <3>3. ASSUME NEW target, GetSection(target, path)
            PROVE  AnswerIsSection'
        <4>. DEFINE result == Navigate(tree, path)
                    section == result.found
                    fields == FieldsOf(section, target, path)
                    keys == DOMAIN target \cap DOMAIN section.map
        <4>0. call' = Called("section", target, path)
          BY <3>3, CallNames, Zenon
        <4>1. call'.path = path /\ call'.kind = target
          BY <4>0 DEF Called
        <4>. SUFFICES ASSUME IsFound(result), IsMapNode(section), IsFound(answer')
                      PROVE  \A k \in keys :
                                answer'.found[k] = SectionValue(section.map[k], target[k])
          BY <3>2, <4>1 DEF AnswerIsSection, SectionCalled
        <4>2. \/ \E f \in ReversedFields(fields, path) :
                    answer' = Stopped("type_mismatch", f.at)
              \/ answer' = Stopped("validation_failed", path)
              \/ answer' = Found([k \in keys |-> SectionValue(section.map[k], target[k])])
          BY <3>3 DEF GetSection, Return
        <4>3. answer' = Found([k \in keys |-> SectionValue(section.map[k], target[k])])
          <5>. HIDE DEF fields, keys, section
          <5>1. \A reason, at : ~IsFound(Stopped(reason, at))
            BY DEF Stopped, IsFound
          <5>2. QED
            BY <4>2, <5>1
        <4>4. QED
          BY <4>3 DEF Found
      <3>4. CASE \A target : ~GetSection(target, path)
        <4>1. \/ Get(path) \/ GetList(path)
              \/ \E kind : GetTyped(kind, path) \/ GetDefault(kind, path)
          BY <3>1, <3>4
        <4>2. \E op \in {"get", "list", "typed", "default"} : \E kind : call' = Called(op, kind, path)
          BY <4>1, CallNames
        <4>3. call'.op # "section"
          BY <4>2 DEF Called
        <4>4. QED
          BY <4>3 DEF AnswerIsSection, SectionCalled
      <3>5. QED
        BY <3>3, <3>4
    <2>3. CASE Done \/ UNCHANGED vars
      BY <2>3 DEF Done, AnswerIsSection, SectionCalled, vars
    <2>4. QED
      BY <2>1, <2>2, <2>3 DEF Next
  <1>3. QED
    BY <1>1, <1>2, AlwaysHeld, PTL DEF Spec

\* A field of a section and the getter at its path make the same of a value, but
\* for the differences listed and the nulls a list goes without, for every tree
\* and target (config.go:633-671, 739-819, section_coerce.go:72-89, 154-215).
THEOREM SectionMatchesGetterHolds == Spec => []SectionMatchesGetter
  <1>1. Held /\ AnswerIsSection => SectionMatchesGetter
    <2>. DEFINE section == Navigate(tree, call.path).found
    <2>. SUFFICES ASSUME Held, AnswerIsSection, SectionCalled,
                         NEW k \in DOMAIN call.kind \cap DOMAIN section.map,
                         call.kind[k] \in [scalar : Kinds] \cup [list : Kinds] \cup [map : Kinds]
                  PROVE  /\ ValueMatches(SectionValue(section.map[k], call.kind[k]),
                                         section.map[k], call.kind[k])
                         /\ IsFound(answer) =>
                              answer.found[k] = SectionValue(section.map[k], call.kind[k])
      BY DEF SectionMatchesGetter
    <2>1. /\ tree \in Node /\ call.path \in Seq(Token)
          /\ IsFound(Navigate(tree, call.path)) /\ IsMapNode(section)
      BY DEF Held, SectionCalled
    <2>2. section \in Node
      BY <2>1, NavigateInNode
    <2>3. IsFound(answer) => answer.found[k] = SectionValue(section.map[k], call.kind[k])
      BY DEF AnswerIsSection
    <2>. HIDE DEF section
    <2>4. section.map[k] \in Node
      BY <2>1, <2>2, NodeFacts
    <2>5. QED
      BY <2>3, <2>4, SectionValueMatches
  <1>2. QED
    BY <1>1, AlwaysHeld, AnswerIsSectionHolds, PTL

\* A path built from plain keys and indices leads back to where it was built.
LEMMA ReachedReadsBack ==
    ASSUME NEW root \in Node, NEW path \in Seq(Token), NEW section \in Node,
           Navigate(root, path) = Found(section), IsMapNode(section),
           NEW k \in DOMAIN section.map, IsPlainKey(k), HasPlainKeys(section.map[k]),
           NEW t \in FieldTypes, NEW f \in Reached(section.map[k], t, Child(path, k))
    PROVE  Navigate(root, f.at) = Found(f.value)
  <1>. DEFINE v == section.map[k]
              p == Child(path, k)
  <1>1. k \in PlainKey /\ v \in Node
    BY NodeFacts DEF PlainKey
  <1>2. p \in Seq(Token) /\ Navigate(root, p) = Found(v)
    BY <1>1, NavigateKey DEF Child
  <1>. HIDE DEF v, p
  <1>3. f \in Reached(v, t, p) /\ HasPlainKeys(v)
    BY DEF v, p
  <1>4. CASE f = [at |-> p, value |-> v, kind |-> t.scalar]
    BY <1>2, <1>4
  <1>5. ASSUME IsListNode(v), NEW i \in DOMAIN v.list,
               f = [at |-> Element(p, i), value |-> v.list[i], kind |-> t.list]
        PROVE  Navigate(root, f.at) = Found(f.value)
    <2>. DEFINE n == i - 1
    <2>1. n \in Nat /\ n < Len(v.list) /\ n + 1 = i /\ n <= MaxIndex
      BY <1>1, <1>5, NodeFacts, MaxIndexAssumption
    <2>2. Element(p, i) = p \o Bracketed(n)
      BY <1>2, <2>1, BracketedAfter DEF Element
    <2>. HIDE DEF n
    <2>3. Navigate(root, p \o Bracketed(n)) = Found(v.list[n + 1])
      BY <1>2, <1>5, <2>1, NavigateIndex
    <2>4. QED
      BY <1>5, <2>1, <2>2, <2>3
  <1>6. ASSUME IsMapNode(v), NEW j \in DOMAIN v.map,
               f = [at |-> Child(p, j), value |-> v.map[j], kind |-> t.map]
        PROVE  Navigate(root, f.at) = Found(f.value)
    <2>1. j \in PlainKey
      BY <1>1, <1>3, <1>6, NodeFacts DEF PlainKey, HasPlainKeys
    <2>2. Navigate(root, Child(p, j)) = Found(v.map[j])
      BY <1>2, <1>6, <2>1, NavigateKey DEF Child
    <2>3. QED
      BY <1>6, <2>2
  <1>7. QED
    BY <1>1, <1>3, <1>4, <1>5, <1>6, ReachedFacts

\* A section's type_mismatch names the value that is to blame, and its path leads
\* back there over plain keys; a validation_failed names the section alone, in which
\* a field cannot be decoded and none is reversed (config.go:644-670,
\* section_coerce.go:196-210, 217-222).
THEOREM SectionErrorReadsBackHolds == Spec => []SectionErrorReadsBack
  <1>1. Init => SectionErrorReadsBack
    BY DEF Init, SectionErrorReadsBack, SectionCalled
  <1>2. Held /\ SectionErrorReadsBack /\ [Next]_vars => SectionErrorReadsBack'
    <2>. SUFFICES ASSUME Held, SectionErrorReadsBack, [Next]_vars PROVE SectionErrorReadsBack'
      OBVIOUS
    <2>1. CASE LoadTree
      <3>1. call' = None
        BY <2>1 DEF LoadTree, Held
      <3>2. QED
        BY <3>1 DEF SectionErrorReadsBack, SectionCalled
    <2>2. CASE Call
      <3>1. PICK path \in Seq(Token) :
                \/ Get(path)
                \/ GetList(path)
                \/ \E kind \in Kinds : GetTyped(kind, path) \/ GetDefault(kind, path)
                \/ \E target : IsTarget(target) /\ GetSection(target, path)
        BY <2>2, CallFacts
      <3>2. tree \in Node /\ tree' = tree
        BY <2>2, CallFacts
      <3>3. ASSUME NEW target, IsTarget(target), GetSection(target, path)
            PROVE  SectionErrorReadsBack'
        <4>. DEFINE result == Navigate(tree, path)
                    section == result.found
                    fields == FieldsOf(section, target, path)
        <4>0. call' = Called("section", target, path)
          BY <3>3, CallNames, Zenon
        <4>1. call'.path = path /\ call'.kind = target
          BY <4>0 DEF Called
        <4>. DEFINE keys == DOMAIN target \cap DOMAIN section.map
                    ReachedIn(k) == Reached(section.map[k], target[k], Child(path, k))
        <4>. SUFFICES ASSUME IsFound(result), IsMapNode(section), ~IsFound(answer')
                      PROVE
                        \/ /\ answer'.reason = "type_mismatch"
                           /\ \E k \in keys : \E f \in ReachedIn(k) :
                                 /\ f.at = answer'.path
                                 /\ ~IsContainer(f.value) /\ IsReversed(f.value, f.kind)
                                 /\ IsPlainKey(k) /\ HasPlainKeys(section.map[k]) =>
                                       Navigate(tree, f.at) = Found(f.value)
                        \/ /\ answer' = Stopped("validation_failed", path)
                           /\ \E k \in keys :
                                 \/ IsMisfit(section.map[k], target[k])
                                 \/ \E f \in ReachedIn(k) : FieldValue(f.value, f.kind) = {}
                           /\ \A k \in keys : \A f \in ReachedIn(k) :
                                 ~IsContainer(f.value) => ~IsReversed(f.value, f.kind)
          BY <3>2, <4>1 DEF SectionErrorReadsBack, SectionCalled
        <4>2. \A f : f \in fields <=> \E k \in keys : f \in ReachedIn(k)
          BY DEF FieldsOf
        <4>3. \/ \E f \in ReversedFields(fields, path) :
                    answer' = Stopped("type_mismatch", f.at)
              \/ /\ answer' = Stopped("validation_failed", path)
                 /\ ReversedFields(fields, path) = {}
                 /\ Undecodable(fields) \/ HasMisfit(section, target)
          <5>1. \A found : IsFound(Found(found))
            BY DEF Found, IsFound
          <5>2. \/ \E f \in ReversedFields(fields, path) :
                      answer' = Stopped("type_mismatch", f.at)
                \/ /\ ReversedFields(fields, path) = {}
                   /\ IF Undecodable(fields) \/ HasMisfit(section, target)
                      THEN answer' = Stopped("validation_failed", path)
                      ELSE \E found : answer' = Found(found)
            BY <3>3 DEF GetSection, Return
          <5>. HIDE DEF fields, section, keys, ReachedIn
          <5>3. QED
            BY <5>1, <5>2
        <4>4. CASE \E f \in ReversedFields(fields, path) : answer' = Stopped("type_mismatch", f.at)
          <5>1. PICK f \in ReversedFields(fields, path) : answer' = Stopped("type_mismatch", f.at)
            BY <4>4
          <5>2. f \in fields /\ ~IsContainer(f.value) /\ IsReversed(f.value, f.kind)
            BY DEF ReversedFields
          <5>3. PICK k \in keys : f \in ReachedIn(k)
            BY <4>2, <5>2
          <5>4. f.at = answer'.path /\ answer'.reason = "type_mismatch"
            BY <5>1 DEF Stopped
          <5>5. result = Found(section) /\ section \in Node
            BY <3>2, NavigateInNode
          <5>6. target[k] \in FieldTypes
            BY <3>3, <5>3 DEF IsTarget
          <5>. HIDE DEF section
          <5>7. IsPlainKey(k) /\ HasPlainKeys(section.map[k]) => Navigate(tree, f.at) = Found(f.value)
            BY <3>2, <5>3, <5>5, <5>6, ReachedReadsBack
          <5>8. QED
            BY <5>2, <5>3, <5>4, <5>7
        <4>5. CASE /\ answer' = Stopped("validation_failed", path)
                   /\ ReversedFields(fields, path) = {}
                   /\ Undecodable(fields) \/ HasMisfit(section, target)
          <5>1. \E k \in keys : \/ IsMisfit(section.map[k], target[k])
                               \/ \E f \in ReachedIn(k) : FieldValue(f.value, f.kind) = {}
            <6>1. CASE Undecodable(fields)
              <7>1. PICK f \in fields : FieldValue(f.value, f.kind) = {}
                BY <6>1 DEF Undecodable
              <7>2. PICK k \in keys : f \in ReachedIn(k)
                BY <4>2
              <7>. HIDE DEF fields, section, keys, ReachedIn
              <7>3. QED
                BY <7>1, <7>2
            <6>2. CASE HasMisfit(section, target)
              BY <6>2 DEF HasMisfit
            <6>3. QED
              BY <4>5, <6>1, <6>2
          <5>2. ASSUME NEW k \in keys, NEW f \in ReachedIn(k), ~IsContainer(f.value)
                PROVE  ~IsReversed(f.value, f.kind)
            <6>1. f \in fields
              BY <4>2, <5>2
            <6>. HIDE DEF fields, section, keys, ReachedIn
            <6>2. QED
              BY <4>5, <5>2, <6>1 DEF ReversedFields
          <5>. HIDE DEF fields, section, keys, ReachedIn
          <5>3. QED
            BY <4>5, <5>1, <5>2
        <4>6. QED
          <5>. HIDE DEF fields, section, keys, ReachedIn
          <5>1. QED
            BY <4>3, <4>4, <4>5
      <3>4. CASE \A target : ~(IsTarget(target) /\ GetSection(target, path))
        <4>1. \/ Get(path) \/ GetList(path)
              \/ \E kind : GetTyped(kind, path) \/ GetDefault(kind, path)
          BY <3>1, <3>4
        <4>2. \E op \in {"get", "list", "typed", "default"} : \E kind : call' = Called(op, kind, path)
          BY <4>1, CallNames
        <4>3. call'.op # "section"
          BY <4>2 DEF Called
        <4>4. QED
          BY <4>3 DEF SectionErrorReadsBack, SectionCalled
      <3>5. QED
        BY <3>3, <3>4
    <2>3. CASE Done \/ UNCHANGED vars
      BY <2>3 DEF Done, SectionErrorReadsBack, SectionCalled, vars
    <2>4. QED
      BY <2>1, <2>2, <2>3 DEF Next
  <1>3. QED
    BY <1>1, <1>2, AlwaysHeld, PTL DEF Spec

-----------------------------------------------------------------------------
(* The nodes of a tree and the paths that lead to them.                    *)

IsLevels(root, n, level) ==
    /\ level[0] = {[path |-> <<>>, node |-> root]}
    /\ \A i \in 1 .. n : level[i] = NextLevel(level[i - 1])

LEMMA LevelsDef ==
    ASSUME NEW root, NEW n \in Nat
    PROVE  \E level : IsLevels(root, n, level) /\ NodesAt(root, n) = level[n]
  <1>. DEFINE top == {[path |-> <<>>, node |-> root]}
              Def(N, f) == f = [i \in 0 .. N |-> IF i = 0 THEN top ELSE NextLevel(f[i - 1])]
              S == {N \in Nat : \E f : Def(N, f)}
  <1>. HIDE DEF top
  <1>1. 0 \in S
    <2>1. Def(0, [i \in 0 .. 0 |-> top])
      OBVIOUS
    <2>2. QED
      BY <2>1
  <1>2. ASSUME NEW N \in Nat, N \in S PROVE N + 1 \in S
    <2>1. PICK f : Def(N, f)
      BY <1>2
    <2>. DEFINE g == [i \in 0 .. N + 1 |-> IF i <= N THEN f[i] ELSE NextLevel(f[N])]
    <2>2. ASSUME NEW i \in 0 .. N + 1
          PROVE  g[i] = IF i = 0 THEN top ELSE NextLevel(g[i - 1])
      <3>1. CASE i = 0
        BY <2>1, <3>1
      <3>2. CASE i # 0 /\ i <= N
        <4>1. f[i] = NextLevel(f[i - 1])
          BY <2>1, <3>2
        <4>2. g[i] = f[i] /\ g[i - 1] = f[i - 1]
          BY <3>2
        <4>3. QED
          BY <3>2, <4>1, <4>2
      <3>3. CASE i = N + 1
        <4>1. g[i] = NextLevel(f[N]) /\ g[i - 1] = f[N] /\ i # 0
          BY <3>3
        <4>2. QED
          BY <4>1
      <3>4. QED
        BY <3>1, <3>2, <3>3
    <2>3. Def(N + 1, g)
      BY <2>2
    <2>4. \E h : Def(N + 1, h)
      <3>. HIDE DEF Def
      <3>1. QED
        BY <2>3
    <2>. HIDE DEF Def
    <2>5. QED
      BY <2>4
  <1>3. Nat \subseteq S
    <2>. HIDE DEF S
    <2>1. QED
      BY <1>1, <1>2, NatSetInduction
  <1>4. PICK f : Def(n, f)
    BY <1>3
  <1>. DEFINE level == CHOOSE g : Def(n, g)
  <1>5. Def(n, level)
    <2>. HIDE DEF Def
    <2>1. QED
      BY <1>4
  <1>6. NodesAt(root, n) = level[n]
    BY DEF NodesAt, top
  <1>. HIDE DEF level
  <1>7. \A i \in 0 .. n : level[i] = IF i = 0 THEN top ELSE NextLevel(level[i - 1])
    BY <1>5
  <1>8. IsLevels(root, n, level)
    BY <1>7 DEF IsLevels, top
  <1>9. QED
    BY <1>6, <1>8

\* A segment of a tree: any key, an index a list can have.
TreeSegment == [index : 0 .. MaxIndex] \cup [key : Seq(Token)]

\* What a node of a level is: its path has a segment per level, and leads to it
\* if it is plain.
IsLed(root, i, x) ==
    /\ x.path \in Seq(TreeSegment) /\ Len(x.path) = i
    /\ x.node \in Node
    /\ IsPlainPath(x.path) => x.path \in Seq(Segment) /\ WalkFrom(root, x.path) = Found(x.node)

\* What is right below a node that is led to is led to.
LEMMA BelowIsLed ==
    ASSUME NEW root \in Node, NEW i \in Nat, NEW x, IsLed(root, i, x),
           NEW y \in Below(x.path, x.node)
    PROVE  IsLed(root, i + 1, y)
  <1>. DEFINE p == x.path
              v == x.node
  <1>1. p \in Seq(TreeSegment) /\ Len(p) = i /\ v \in Node
        /\ (IsPlainPath(p) => p \in Seq(Segment) /\ WalkFrom(root, p) = Found(v))
    BY DEF IsLed
  <1>2. y \in Below(p, v)
    OBVIOUS
  <1>. HIDE DEF p, v
  <1>3. Found(v).found = v /\ IsFound(Found(v))
    BY DEF Found, IsFound
  <1>4. ASSUME NEW seg \in TreeSegment, NEW w \in Node,
               IsIndex(seg) \/ IsPlainKey(seg.key) => seg \in Segment,
               y = [path |-> Append(p, seg), node |-> w],
               seg \in Segment => Entered(Found(v), Append(p, seg), i + 1) = Found(w)
        PROVE  IsLed(root, i + 1, y)
    <2>. DEFINE q == Append(p, seg)
    <2>1. q \in Seq(TreeSegment) /\ Len(q) = i + 1 /\ q[i + 1] = seg
          /\ \A j \in 1 .. i : q[j] = p[j]
      BY <1>1
    <2>2. DOMAIN q = 1 .. i + 1 /\ DOMAIN p = 1 .. i /\ i + 1 \in DOMAIN q
      BY <1>1, <2>1
    <2>3. ASSUME IsPlainPath(q)
          PROVE  q \in Seq(Segment) /\ WalkFrom(root, q) = Found(w)
      <3>. HIDE DEF q
      <3>1. IsPlainPath(p)
        BY <2>1, <2>2, <2>3 DEF IsPlainPath
      <3>2. IsIndex(seg) \/ IsPlainKey(seg.key)
        BY <2>1, <2>2, <2>3 DEF IsPlainPath
      <3>3. seg \in Segment /\ p \in Seq(Segment) /\ WalkFrom(root, p) = Found(v)
        BY <1>1, <1>4, <3>1, <3>2
      <3>4. WalkFrom(root, q) = Entered(WalkFrom(root, p), q, Len(p) + 1)
        BY <3>3, WalkAppend DEF q
      <3>5. q \in Seq(Segment)
        BY <3>3 DEF q
      <3>6. Entered(Found(v), q, i + 1) = Found(w)
        BY <1>4, <3>3 DEF q
      <3>7. WalkFrom(root, q) = Found(w)
        BY <1>1, <3>3, <3>4, <3>6, Zenon
      <3>8. QED
        BY <3>5, <3>7
    <2>4. y.path = q /\ y.node = w
      BY <1>4
    <2>. HIDE DEF q
    <2>5. QED
      BY <1>4, <2>1, <2>3, <2>4 DEF IsLed
  <1>5. CASE IsMapNode(v)
    <2>1. PICK k \in DOMAIN v.map : y = [path |-> Append(p, Key(k)), node |-> v.map[k]]
      <3>1. Below(p, v) = {[path |-> Append(p, Key(k)), node |-> v.map[k]] : k \in DOMAIN v.map}
        BY <1>5, Zenon DEF Below, IsMapNode, IsListNode
      <3>2. QED
        BY <1>2, <3>1
    <2>2. k \in Seq(Token) /\ v.map[k] \in Node
      BY <1>1, <1>5, NodeFacts
    <2>3. Key(k) \in TreeSegment /\ Key(k).key = k /\ ~IsIndex(Key(k))
      BY <2>2 DEF Key, TreeSegment, IsIndex
    <2>4. IsPlainKey(k) => Key(k) \in Segment
      BY <2>2 DEF Key, Segment, PlainKey
    <2>5. Append(p, Key(k))[i + 1] = Key(k)
      BY <1>1, <2>3
    <2>6. Entered(Found(v), Append(p, Key(k)), i + 1) = Found(v.map[k])
      BY <1>3, <1>5, <2>1, <2>3, <2>5 DEF Entered
    <2>7. QED
      BY <1>4, <2>1, <2>2, <2>3, <2>4, <2>6
  <1>6. CASE IsListNode(v)
    <2>1. PICK j \in DOMAIN v.list : y = [path |-> Append(p, Index(j - 1)), node |-> v.list[j]]
      <3>1. ~IsMapNode(v)
        BY <1>1, <1>6, NodeFacts
      <3>2. QED
        BY <1>2, <1>6, <3>1 DEF Below
    <2>2. j \in 1 .. Len(v.list) /\ Len(v.list) \in 0 .. MaxIndex /\ v.list[j] \in Node
      BY <1>1, <1>6, NodeFacts
    <2>3. j - 1 \in 0 .. MaxIndex /\ j - 1 < Len(v.list) /\ (j - 1) + 1 = j
      BY <2>2, MaxIndexAssumption
    <2>4. Index(j - 1) \in TreeSegment /\ Index(j - 1) \in Segment
          /\ Index(j - 1).index = j - 1 /\ IsIndex(Index(j - 1))
      BY <2>3 DEF Index, TreeSegment, Segment, IsIndex
    <2>5. Append(p, Index(j - 1))[i + 1] = Index(j - 1)
      BY <1>1, <2>4
    <2>6. Entered(Found(v), Append(p, Index(j - 1)), i + 1) = Found(v.list[j])
      <3>. DEFINE n == j - 1
      <3>1. n < Len(v.list) /\ v.list[n + 1] = v.list[j]
        BY <2>3
      <3>. HIDE DEF n
      <3>2. Append(p, Index(n))[i + 1] = Index(n) /\ Index(n).index = n /\ IsIndex(Index(n))
        BY <2>4, <2>5 DEF n
      <3>3. Entered(Found(v), Append(p, Index(n)), i + 1) = Found(v.list[n + 1])
        BY <1>3, <1>6, <3>1, <3>2 DEF Entered
      <3>4. QED
        BY <3>1, <3>3 DEF n
    <2>7. QED
      BY <1>4, <2>1, <2>2, <2>4, <2>6
  <1>7. CASE ~IsMapNode(v) /\ ~IsListNode(v)
    BY <1>2, <1>7 DEF Below
  <1>8. QED
    BY <1>5, <1>6, <1>7

\* Every node of a level is led to.
LEMMA LevelIsLed ==
    ASSUME NEW root \in Node, NEW n \in Nat, NEW x \in NodesAt(root, n)
    PROVE  IsLed(root, n, x)
  <1>1. PICK level : IsLevels(root, n, level) /\ NodesAt(root, n) = level[n]
    BY LevelsDef
  <1>. DEFINE S == {i \in Nat : i <= n => \A y \in level[i] : IsLed(root, i, y)}
  <1>2. 0 \in S
    <2>1. \A y \in level[0] : y.path = <<>> /\ y.node = root
      BY <1>1 DEF IsLevels
    <2>2. WalkFrom(root, <<>>) = Found(root)
      BY WalkOfNothing
    <2>3. ASSUME NEW y \in level[0] PROVE IsLed(root, 0, y)
      <3>1. y.path = <<>> /\ y.node = root
        BY <2>1
      <3>2. <<>> \in Seq(TreeSegment) /\ <<>> \in Seq(Segment) /\ Len(<<>>) = 0
        OBVIOUS
      <3>3. y.path \in Seq(TreeSegment) /\ y.path \in Seq(Segment) /\ Len(y.path) = 0
        BY <3>1, <3>2, Zenon
      <3>4. WalkFrom(root, y.path) = Found(y.node) /\ y.node \in Node
        BY <2>2, <3>1, Zenon
      <3>5. QED
        BY <3>3, <3>4 DEF IsLed
    <2>4. QED
      BY <2>3
  <1>3. ASSUME NEW i \in Nat, i \in S PROVE i + 1 \in S
    <2>. SUFFICES ASSUME i + 1 <= n, NEW y \in level[i + 1] PROVE IsLed(root, i + 1, y)
      OBVIOUS
    <2>1. level[i + 1] = NextLevel(level[i])
      <3>1. i + 1 \in 1 .. n /\ (i + 1) - 1 = i
        OBVIOUS
      <3>2. QED
        BY <1>1, <3>1 DEF IsLevels
    <2>2. PICK z \in level[i] : y \in Below(z.path, z.node)
      BY <2>1 DEF NextLevel
    <2>3. IsLed(root, i, z)
      BY <1>3
    <2>4. QED
      BY <2>2, <2>3, BelowIsLed
  <1>4. Nat \subseteq S
    <2>. HIDE DEF S
    <2>1. QED
      BY <1>2, <1>3, NatSetInduction
  <1>5. QED
    BY <1>1, <1>4

\* A node that a path without a separator in its keys leads to is found there.
LEMMA PlainNodeFound ==
    ASSUME NEW root \in Node, NEW n \in 1 .. Levels, NEW x \in NodesAt(root, n),
           IsPlainPath(x.path)
    PROVE  Navigate(root, Formatted(x.path)) = Found(x.node)
  <1>1. n \in Nat /\ n >= 1
    OBVIOUS
  <1>2. IsLed(root, n, x)
    BY <1>1, LevelIsLed
  <1>. DEFINE p == x.path
  <1>3. p \in Seq(Segment) /\ WalkFrom(root, p) = Found(x.node) /\ Len(p) = n
    BY <1>2 DEF IsLed
  <1>. HIDE DEF p
  <1>4. p # <<>>
    BY <1>1, <1>3
  <1>5. Navigate(root, Formatted(p)) = WalkFrom(root, p)
    BY <1>3, <1>4, FormattedLeadsThere
  <1>6. QED
    BY <1>3, <1>5 DEF p

\* What a walk finds is the node its segments spell out.
LEMMA FoundInLevel ==
    ASSUME NEW root \in Node, NEW segments \in Seq(Segment), NEW v,
           WalkFrom(root, segments) = Found(v)
    PROVE  [path |-> segments, node |-> v] \in NodesAt(root, Len(segments))
  <1>. DEFINE n == Len(segments)
              First(m) == SubSeq(segments, 1, m)
              W(m) == WalkFrom(root, First(m))
              At(m) == [path |-> First(m), node |-> W(m).found]
  <1>1. n \in Nat /\ First(n) = segments /\ First(0) = <<>>
    OBVIOUS
  <1>2. PICK level : IsLevels(root, n, level) /\ NodesAt(root, n) = level[n]
    BY <1>1, LevelsDef
  <1>. DEFINE S == {m \in Nat : m <= n /\ IsFound(W(m)) => At(m) \in level[m]}
  <1>3. 0 \in S
    <2>1. W(0) = Found(root)
      BY <1>1, WalkOfNothing, Zenon
    <2>. HIDE DEF W, First
    <2>2. At(0) = [path |-> <<>>, node |-> root]
      BY <1>1, <2>1 DEF Found
    <2>. HIDE DEF At
    <2>3. At(0) \in level[0]
      BY <1>2, <2>2 DEF IsLevels
    <2>4. QED
      BY <2>3
  <1>4. ASSUME NEW m \in Nat, m \in S PROVE m + 1 \in S
    <2>. SUFFICES ASSUME m + 1 <= n, IsFound(W(m + 1)) PROVE At(m + 1) \in level[m + 1]
      OBVIOUS
    <2>. DEFINE seg == segments[m + 1]
                w == W(m).found
    <2>1. m + 1 \in 1 .. n /\ (m + 1) - 1 = m /\ m <= n /\ m \in 0 .. n
      OBVIOUS
    <2>2. W(m + 1) = Entered(W(m), segments, m + 1)
      BY <2>1, WalkStep
    <2>3. seg \in Segment
      BY <2>1
    <2>4. First(m + 1) = Append(First(m), seg)
      BY <2>1, OneMore
    <2>5. level[m + 1] = NextLevel(level[m])
      BY <1>2, <2>1 DEF IsLevels
    <2>6. IsFound(W(m)) => w \in Node
      BY <2>1, WalkInNode
    <2>. HIDE DEF W, First, n
    <2>7. IsFound(W(m))
      BY <2>2 DEF Entered
    <2>8. At(m) \in level[m]
      BY <1>4, <2>1, <2>7
    <2>9. w \in Node
      BY <2>6, <2>7
    <2>10. \/ IsIndex(seg) /\ IsListNode(w) /\ seg.index < Len(w.list)
              /\ W(m + 1) = Found(w.list[seg.index + 1])
           \/ ~IsIndex(seg) /\ IsMapNode(w) /\ seg.key \in DOMAIN w.map
              /\ W(m + 1) = Found(w.map[seg.key])
      BY <2>2, <2>7 DEF Entered, IsFound, Stopped, Found
    <2>11. At(m).path = First(m) /\ At(m).node = w
      OBVIOUS
    <2>12. At(m + 1) \in Below(First(m), w)
      <3>1. CASE IsIndex(seg) /\ IsListNode(w) /\ seg.index < Len(w.list)
                 /\ W(m + 1) = Found(w.list[seg.index + 1])
        <4>. DEFINE j == seg.index + 1
        <4>1. seg.index \in Nat /\ seg = Index(seg.index)
          BY <2>3, <3>1, MaxIndexAssumption DEF Segment, IsIndex, Index
        <4>2. j \in DOMAIN w.list /\ seg = Index(j - 1)
          BY <2>9, <3>1, <4>1, NodeFacts
        <4>3. W(m + 1).found = w.list[j]
          BY <3>1 DEF Found
        <4>. HIDE DEF j, w, seg
        <4>4. At(m + 1) = [path |-> Append(First(m), Index(j - 1)), node |-> w.list[j]]
          BY <2>4, <4>2, <4>3
        <4>5. Below(First(m), w)
                = {[path |-> Append(First(m), Index(i - 1)), node |-> w.list[i]] : i \in DOMAIN w.list}
          <5>1. ~IsMapNode(w)
            BY <2>9, <3>1, NodeFacts
          <5>2. QED
            BY <3>1, <5>1, Zenon DEF Below
        <4>6. QED
          BY <4>2, <4>4, <4>5
      <3>2. CASE ~IsIndex(seg) /\ IsMapNode(w) /\ seg.key \in DOMAIN w.map
                 /\ W(m + 1) = Found(w.map[seg.key])
        <4>. DEFINE k == seg.key
        <4>1. seg = Key(k)
          BY <2>3, <3>2 DEF Segment, IsIndex, Key
        <4>2. k \in DOMAIN w.map
          BY <3>2
        <4>3. W(m + 1).found = w.map[k]
          BY <3>2 DEF Found
        <4>. HIDE DEF k, w, seg
        <4>4. At(m + 1) = [path |-> Append(First(m), Key(k)), node |-> w.map[k]]
          BY <2>4, <4>1, <4>3
        <4>5. Below(First(m), w)
                = {[path |-> Append(First(m), Key(i)), node |-> w.map[i]] : i \in DOMAIN w.map}
          BY <3>2, Zenon DEF Below, IsMapNode, IsListNode
        <4>6. QED
          BY <4>2, <4>4, <4>5
      <3>3. QED
        BY <2>10, <3>1, <3>2
    <2>. HIDE DEF At, w
    <2>13. QED
      BY <2>5, <2>8, <2>11, <2>12 DEF NextLevel
  <1>5. Nat \subseteq S
    <2>. HIDE DEF S
    <2>1. QED
      BY <1>3, <1>4, NatSetInduction
  <1>6. W(n) = Found(v)
    BY <1>1, Zenon
  <1>. HIDE DEF W, First, n
  <1>7. IsFound(W(n)) /\ At(n) = [path |-> segments, node |-> v]
    BY <1>1, <1>6 DEF Found, IsFound
  <1>8. At(n) \in level[n]
    BY <1>1, <1>5, <1>7
  <1>9. QED
    BY <1>2, <1>7, <1>8 DEF n

\* Get finds a node at the path that spells it out.
LEMMA GetFindsNode ==
    ASSUME NEW root \in Node, NEW path \in Seq(Token), IsFound(Navigate(root, path))
    PROVE  \E segments \in ParsePath(path) : \E x \in NodesAt(root, Len(segments)) :
              x.path = segments /\ IsPlainPath(segments) /\ Navigate(root, path) = Found(x.node)
  <1>. DEFINE v == Navigate(root, path).found
  <1>1. Navigate(root, path) = Found(v)
    BY NavigateInNode
  <1>. HIDE DEF v
  <1>2. PICK segments \in ParsePath(path) :
           segments \in Seq(Segment) /\ WalkFrom(root, segments) = Found(v)
    BY <1>1, FoundIsParsed
  <1>. DEFINE x == [path |-> segments, node |-> v]
  <1>3. x \in NodesAt(root, Len(segments))
    BY <1>2, FoundInLevel
  <1>4. IsPlainPath(segments)
    <2>1. \A i \in DOMAIN segments : segments[i] \in Segment
      BY <1>2
    <2>2. QED
      BY <2>1 DEF IsPlainPath, Segment, PlainKey, IsIndex
  <1>5. x.path = segments /\ x.node = v
    OBVIOUS
  <1>. HIDE DEF x
  <1>6. QED
    BY <1>1, <1>3, <1>4, <1>5

\* Get reaches every node over plain keys and nothing else (paths.go:32-198), for
\* every tree, depth and path.
THEOREM EveryNodeReachableHolds == Spec => []EveryNodeReachable
  <1>. DEFINE Finds == call # None /\ call.op = "get" /\ IsFound(answer) =>
                          \E segments \in ParsePath(call.path) :
                          \E x \in NodesAt(tree, Len(segments)) :
                             x.path = segments /\ IsPlainPath(segments) /\ answer = Found(x.node)
  <1>1. Init => Finds
    BY DEF Init
  <1>2. Held /\ Finds /\ [Next]_vars => Finds'
    <2>. SUFFICES ASSUME Held, Finds, [Next]_vars PROVE Finds'
      OBVIOUS
    <2>1. CASE LoadTree
      BY <2>1 DEF LoadTree, Held
    <2>2. CASE Call
      <3>1. PICK path \in Seq(Token) :
                \/ Get(path)
                \/ GetList(path)
                \/ \E kind \in Kinds : GetTyped(kind, path) \/ GetDefault(kind, path)
                \/ \E target : IsTarget(target) /\ GetSection(target, path)
        BY <2>2, CallFacts
      <3>2. CASE Get(path)
        <4>1. tree' = tree /\ answer' = Navigate(tree, path) /\ call'.path = path /\ tree \in Node
          BY <2>2, <3>2, CallFacts DEF Get, Return, Called
        <4>2. IsFound(answer') =>
                 \E segments \in ParsePath(path) : \E x \in NodesAt(tree', Len(segments)) :
                    x.path = segments /\ IsPlainPath(segments) /\ answer' = Found(x.node)
          BY <4>1, GetFindsNode
        <4>3. QED
          BY <4>1, <4>2
      <3>3. CASE ~Get(path)
        <4>1. call'.op # "get"
          BY <3>1, <3>3, CallNames DEF Called
        <4>2. QED
          BY <4>1
      <3>4. QED
        BY <3>2, <3>3
    <2>3. CASE Done \/ UNCHANGED vars
      BY <2>3 DEF Done, vars
    <2>4. QED
      BY <2>1, <2>2, <2>3 DEF Next
  <1>3. Held /\ Finds => EveryNodeReachable
    BY PlainNodeFound DEF Held, EveryNodeReachable
  <1>. HIDE DEF Finds
  <1>4. QED
    BY <1>1, <1>2, <1>3, AlwaysHeld, PTL DEF Spec
=============================================================================
