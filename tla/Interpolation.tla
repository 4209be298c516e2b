--------------------------- MODULE Interpolation ---------------------------
(***************************************************************************)
(* interpolateString (src/interpolation.go): ${NAME} and ${NAME:-default}  *)
(* are replaced by variables, $$ by $.                                     *)
(***************************************************************************)
EXTENDS Tokens

CONSTANTS
    Name,     \* the tokens that match [A-Z_][A-Z0-9_]*, each a whole name
    Mask,     \* the sentinel that stands for $$ during the substitution
    Unset     \* no text has this token; it stands for "is not set"

\* interpolationRegex at position i: ${NAME}, or ${NAME:- up to the next }.
MatchesAt(s, i) ==
    /\ HasAt(s, i, <<"$", "{">>)
    /\ i + 3 <= Len(s)
    /\ s[i + 2] \in Name
    /\ \/ s[i + 3] = "}"
       \/ HasAt(s, i + 3, <<":", "-">>) /\ IndexFrom(s, i + 5, "}") # 0

MatchEnd(s, i) == IndexFrom(s, i + 3, "}")
HasDefault(s, i) == s[i + 3] = ":"
DefaultAt(s, i) == SubSeq(s, i + 5, MatchEnd(s, i) - 1)

IsSet(env, name) == name \in DOMAIN env

Replacement(s, i, env) ==
    LET name == s[i + 2] IN
    CASE IsSet(env, name) /\ env[name] # <<>> -> env[name]
      [] (IsSet(env, name) => env[name] = <<>>) /\ HasDefault(s, i) -> DefaultAt(s, i)
      [] IsSet(env, name) /\ env[name] = <<>> /\ ~HasDefault(s, i) -> <<>>
      [] OTHER -> <<Unset>>

\* FindAll over the masked text: matches from the left, none inside another.
Substituted(s, env) ==
    LET from[i \in 1 .. Len(s) + 1] ==
          IF i > Len(s) THEN <<>>
          ELSE IF MatchesAt(s, i) THEN Replacement(s, i, env) \o from[MatchEnd(s, i) + 1]
          ELSE <<s[i]>> \o from[i + 1]
    IN from[1]

\* Mutant: the escape is undone before the references are searched for.
InterpolateUnmasked(s, env) == Substituted(ReplaceEach(s, <<"$", "$">>, <<"$">>), env)

InterpolateString(s, env) ==
    ReplaceEach(Substituted(ReplaceEach(s, <<"$", "$">>, <<Mask>>), env), <<Mask>>, <<"$">>)

Interpolable(s, env) == ~Contains(InterpolateString(s, env), Unset)

-----------------------------------------------------------------------------
(* The reference: one reading from the left, as ADR-0001 describes it.     *)

\* What is read where a reference stands.
ReadValue(s, i, env) ==
    LET name == s[i + 2]
        value == IF IsSet(env, name) THEN env[name] ELSE <<Unset>>
    IN IF HasDefault(s, i) /\ value \in {<<>>, <<Unset>>}
       THEN ReplaceEach(DefaultAt(s, i), <<"$", "$">>, <<"$">>) ELSE value

ReadOnce(s, env) ==
    LET from[i \in 1 .. Len(s) + 2] ==
          IF i > Len(s) THEN <<>>
          ELSE IF HasAt(s, i, <<"$", "$">>) THEN <<"$">> \o from[i + 2]
          ELSE IF MatchesAt(s, i) THEN ReadValue(s, i, env) \o from[MatchEnd(s, i) + 1]
          ELSE <<s[i]>> \o from[i + 1]
    IN from[1]
=============================================================================
