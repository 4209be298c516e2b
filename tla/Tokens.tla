------------------------------- MODULE Tokens -------------------------------
(***************************************************************************)
(* Texts as sequences of tokens, and what the parsers of config-go ask of  *)
(* Go's package strings.  A token is a character that means something to a *)
(* parser, or a run of characters that means nothing to any of them.       *)
(***************************************************************************)
EXTENDS Integers, Sequences, SequencesExt

CONSTANT None     \* an optional part that is not there

HasAt(s, i, pattern) ==
    /\ i + Len(pattern) - 1 <= Len(s)
    /\ SubSeq(s, i, i + Len(pattern) - 1) = pattern

\* strings.IndexByte from position i on, 0 when there is none.
IndexFrom(s, i, token) == SelectInSubSeq(s, i, Len(s), LAMBDA t : t = token)

\* The two sides of a separator of n tokens at position i.
Cut(s, i, n) == [head |-> SubSeq(s, 1, i - 1), tail |-> SubSeq(s, i + n, Len(s))]
Whole(s) == [head |-> s, tail |-> None]

\* The text before the first such token, and the text after it if there is one.
CutAtFirst(s, token) ==
    IF Contains(s, token) THEN Cut(s, IndexFrom(s, 1, token), 1) ELSE Whole(s)

\* strings.ReplaceAll: occurrences from the left, none inside another.
ReplaceEach(s, pattern, new) ==
    LET from[i \in 1 .. Len(s) + Len(pattern)] ==
          IF i > Len(s) THEN <<>>
          ELSE IF HasAt(s, i, pattern) THEN new \o from[i + Len(pattern)]
          ELSE <<s[i]>> \o from[i + 1]
    IN from[1]

\* The parts strings.Split returns, as a set.
Parts(s, token) ==
    LET starts == {1} \cup {i + 1 : i \in {j \in DOMAIN s : s[j] = token}}
        End(i) == IF IndexFrom(s, i, token) = 0 THEN Len(s)
                  ELSE IndexFrom(s, i, token) - 1
    IN {SubSeq(s, i, End(i)) : i \in starts}
=============================================================================
