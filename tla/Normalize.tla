----------------------------- MODULE Normalize -----------------------------
(***************************************************************************)
(* The five normalisation passes of rust_pii_transformer (src/normalize)   *)
(* over an alphabet in which each of them meets what it rewrites:          *)
(*   lead vowel trail   the conjoining jamo of the syllable i1             *)
(*   i2 i1 hundred      the numerals 2 and 1 and the unit 100 in Hangul    *)
(*   yo                 a word ending, after i2; syllable: any other one   *)
(*   digit star X       what a run of digits is made of                    *)
(*   wide_digit wide_hyphen   full-width forms                             *)
(*   hyphen space       separators                                         *)
(*   O M                capitals, as X is; O looks like a digit            *)
(*   at dom             an at sign; "b.com", a domain, as one unit         *)
(*   open0 open1 close  the marks "[[PII:", "[[PII0:" and "]]"             *)
(* Digits are not told apart.                                              *)
(***************************************************************************)
EXTENDS SpanMap, FiniteSets

CONSTANTS
    MinWithContext,     \* min_digits_with_context
    MinWithoutContext,  \* min_digits_without_context
    ContextWindow       \* context_window

ASSUME NumeralAssumption ==
    MinWithContext \in Nat /\ MinWithoutContext \in Nat /\ ContextWindow \in Nat

Wide == {"lead", "vowel", "trail", "i2", "i1", "hundred", "yo", "syllable",
         "wide_digit", "wide_hyphen"}
Narrow == {"digit", "star", "hyphen", "space", "O", "M", "X", "at"}
Marks == {"dom", "open0", "open1", "close"}
Alphabet == Wide \cup Narrow \cup Marks

ASSUME AlphabetAssumption == Alphabet \subseteq DOMAIN Width

(* External: the UTF-8 encoding.                                           *)
CharWidth ==
    [c \in Alphabet |->
        CASE c \in Wide -> 3
          [] c \in Narrow -> 1
          [] c = "dom" -> 5
          [] c = "open0" -> 6
          [] c = "open1" -> 7
          [] c = "close" -> 2]

In(text, i, S) == i \in DOMAIN text /\ text[i] \in S

(* The first position from i on that does not hold a character of S.       *)
EndOf(text, i, S) ==
    CHOOSE e \in i..Len(text) + 1 : ~In(text, e, S) /\ \A k \in i..e - 1 : In(text, k, S)

(* What a pass finds at a position: how far it goes on, and its calls of   *)
(* the builder (none: the characters are kept).                            *)
Nothing(n) == [len |-> n, calls |-> <<>>]
Found(n, calls) == [len |-> n, calls |-> calls]
Piece(text, i, n) == SubSeq(text, i, i + n - 1)

-----------------------------------------------------------------------------
(* nfc.rs, compose_at: jamo become syllables.                              *)
WithTrail(c) == IF c = "i2" THEN "i1" ELSE "syllable"

NfcAt(text, i) ==
    CASE In(text, i, {"lead"}) /\ In(text, i + 1, {"vowel"}) /\ In(text, i + 2, {"trail"}) ->
            Found(3, <<Replace(Piece(text, i, 3), <<"i1">>, "nfc")>>)
      [] In(text, i, {"lead"}) /\ In(text, i + 1, {"vowel"}) /\ ~In(text, i + 2, {"trail"}) ->
            Found(2, <<Replace(Piece(text, i, 2), <<"i2">>, "nfc")>>)
      [] In(text, i, {"i2", "yo"}) /\ In(text, i + 1, {"trail"}) ->
            Found(2, <<Replace(Piece(text, i, 2), <<WithTrail(text[i])>>, "nfc")>>)
      [] OTHER -> Nothing(1)

(* fold.rs, fold_char: full-width forms become ASCII.                      *)
FoldAt(text, i) ==
    CASE text[i] = "wide_digit" -> Found(1, <<Replace(<<text[i]>>, <<"digit">>, "fold")>>)
      [] text[i] = "wide_hyphen" -> Found(1, <<Replace(<<text[i]>>, <<"hyphen">>, "fold")>>)
      [] OTHER -> Nothing(1)

-----------------------------------------------------------------------------
(* hangul.rs *)
NumeralDigits == {"i1", "i2"}
Numerals == NumeralDigits \cup {"hundred"}

(* trim_sentence_ending: an i2 before yo belongs to the ending of a word.  *)
RunEnd(text, i) ==
    LET e == EndOf(text, i, Numerals) IN
    IF e - i > 1 /\ text[e - 1] = "i2" /\ In(text, e, {"yo"}) THEN e - 1 ELSE e

(* convert: the length of the number, 0 if the run is none.  With a unit   *)
(* it is read as a value (at least 100, and less than 1000 for the texts   *)
(* below ten characters), which fails for two digits in a row; without one *)
(* digit by digit.                                                         *)
Digits(run) ==
    LET units == {k \in DOMAIN run : run[k] = "hundred"} IN
    CASE units = {} -> Len(run)
      [] units = DOMAIN run -> 0
      [] \E k \in 1..Len(run) - 1 : run[k] \in NumeralDigits /\ run[k + 1] \in NumeralDigits -> 0
      [] OTHER -> 3

(* has_numeric_context: the next character, past a few blanks, is numeric. *)
IsNumeric(text, i) == In(text, i, {"digit", "hyphen", "i1"})
HasContext(text, i, e) ==
    \E n \in 0..ContextWindow :
        \/ IsNumeric(text, e + n) /\ \A k \in e..(e + n - 1) : text[k] = "space"
        \/ IsNumeric(text, i - 1 - n) /\ \A k \in (i - n)..(i - 1) : text[k] = "space"

HangulAt(text, i) ==
    LET e == RunEnd(text, i)
        run == Piece(text, i, e - i)
        n == Digits(run)
    IN  IF e = i THEN Nothing(1)
        ELSE IF n > 0 /\ (n >= MinWithoutContext \/ (n >= MinWithContext /\ HasContext(text, i, e)))
        THEN Found(e - i, <<Numeral(run, [k \in 1..n |-> "digit"], "hangul")>>)
        ELSE Nothing(e - i)

-----------------------------------------------------------------------------
DigitLike == {"digit", "star", "X"}
Separators == {"hyphen", "space"}

(* lookalike.rs, side_is_digit: past separators there is a digit.          *)
DigitAfter(text, i) == In(text, EndOf(text, i + 1, Separators), DigitLike)
DigitBefore(text, i) ==
    \E k \in 1..i - 1 : text[k] \in DigitLike /\ \A m \in k + 1..i - 1 : text[m] \in Separators

LookalikeAt(text, i) ==
    IF text[i] = "O" /\ DigitBefore(text, i) /\ DigitAfter(text, i)
    THEN Found(1, <<Replace(<<"O">>, <<"digit">>, "lookalike")>>)
    ELSE Nothing(1)

(* separator.rs, absorb_run: one call for each stretch of one separator.   *)
AbsorbRun(text, i, e) ==
    LET absorb(r) ==
            IF r.at >= e THEN r
            ELSE LET g == EndOf(text, r.at, {text[r.at]}) IN
                 [at |-> g, calls |-> Append(r.calls, Absorb(Piece(text, r.at, g - r.at), text[r.at]))]
    IN  Repeat(absorb, [at |-> i, calls |-> <<>>], e - i).calls

(* Separators between digits are absorbed.                                 *)
SeparatorAt(text, i) ==
    LET e == EndOf(text, i, Separators) IN
    IF e = i \/ ~In(text, i - 1, DigitLike) THEN Nothing(1)
    ELSE IF In(text, e, DigitLike) THEN Found(e - i, AbsorbRun(text, i, e))
    ELSE Nothing(e - i)

-----------------------------------------------------------------------------
Passes == <<"nfc", "fold", "hangul", "lookalike", "separator">>

At(pass, text, i) ==
    CASE pass = "nfc" -> NfcAt(text, i)
      [] pass = "fold" -> FoldAt(text, i)
      [] pass = "hangul" -> HangulAt(text, i)
      [] pass = "lookalike" -> LookalikeAt(text, i)
      [] pass = "separator" -> SeparatorAt(text, i)

(* Mutant of Apply: what is kept before a find is not handed over when a   *)
(* find follows another one.                                               *)
ApplyLossy(pass, text, l) ==
    IF l.at > Len(text) THEN l
    ELSE LET f == At(pass, text, l.at) IN
         IF f.calls = <<>> THEN [at |-> l.at + f.len, flushed |-> l.flushed, calls |-> l.calls]
         ELSE [at |-> l.at + f.len, flushed |-> l.at + f.len,
               calls |-> l.calls \o (IF l.flushed = 1 THEN <<Keep(SubSeq(text, l.flushed, l.at - 1))>>
                                     ELSE <<>>) \o f.calls]

(* A turn of the loop of apply, the same in all passes: at is the cursor,  *)
(* and what lies between flushed and a find is kept.                       *)
Apply(pass, text, l) ==
    IF l.at > Len(text) THEN l
    ELSE LET f == At(pass, text, l.at) IN
         IF f.calls = <<>> THEN [at |-> l.at + f.len, flushed |-> l.flushed, calls |-> l.calls]
         ELSE [at |-> l.at + f.len, flushed |-> l.at + f.len,
               calls |-> l.calls \o <<Keep(SubSeq(text, l.flushed, l.at - 1))>> \o f.calls]

PassCalls(pass, text) ==
    LET apply(l) == Apply(pass, text, l)
        end == Repeat(apply, [at |-> 1, flushed |-> 1, calls |-> <<>>], Len(text))
    IN  Append(end.calls, Keep(SubSeq(text, end.flushed, Len(text))))
=============================================================================
