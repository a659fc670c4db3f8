------------------------------ MODULE Restore ------------------------------
(***************************************************************************)
(* The restore map of rust_pii_transformer (src/mask/restore.rs): how a    *)
(* token is spelled and how a masked text is taken back.                   *)
(***************************************************************************)
EXTENDS Naturals, Sequences, SequencesExt

(* The opening mark of a token with the prefix PII, PII0, PII1, ...        *)
Open(k) == CASE k = 0 -> "open0" [] k = 1 -> "open1" [] k = 2 -> "open2"

(* Mutant of ForText: the prefix is always PII.                            *)
ForTextFixed(text) == 0

(* RestoreMap::for_text: the first prefix whose mark is not in the text.   *)
ForText(text) ==
    CHOOSE k \in 0..2 :
        /\ ~Contains(text, Open(k))
        /\ \A m \in 0..(k - 1) : Contains(text, Open(m))

(* RestoreMap::push: the token with the number n.  Numbers of tokens are   *)
(* units of their own; a digit of the text, which would be read as one     *)
(* too, stands for 1.                                                      *)
Number(n) == CASE n = 1 -> "n1" [] n = 2 -> "n2" [] n = 3 -> "n3" [] n = 4 -> "n4"
Spelled(prefix, n) == <<Open(prefix), Number(n), "close">>

(* The text of the pieces.                                                 *)
Rendered(pieces, text, prefix) ==
    FlattenSeq([k \in DOMAIN pieces |->
        CASE pieces[k].kind = "copy" -> SubSeq(text, pieces[k].from + 1, pieces[k].to)
          [] pieces[k].kind = "label" -> <<"label">>
          [] pieces[k].kind = "token" -> Spelled(prefix, pieces[k].entry)])

(* unmask: every token is replaced by its original, and what replaced it   *)
(* is not searched again.  A mark that is not closed, does not hold a      *)
(* number or a number without an entry is an error.                        *)
ReadNumber(piece) ==
    CASE piece = <<"digit">> -> 1
      [] \E n \in 1..4 : piece = <<Number(n)>> -> CHOOSE n \in 1..4 : piece = <<Number(n)>>
      [] OTHER -> 0

RECURSIVE Unmask(_, _, _, _)
Unmask(rest, prefix, originals, done) ==
    LET open == SelectInSeq(rest, LAMBDA c : c = Open(prefix))
        after == SubSeq(rest, open + 1, Len(rest))
        close == SelectInSeq(after, LAMBDA c : c = "close")
        n == ReadNumber(SubSeq(after, 1, close - 1))
    IN  IF open = 0 THEN [ok |-> TRUE, text |-> done \o rest]
        ELSE IF close = 0 \/ n \notin DOMAIN originals THEN [ok |-> FALSE, text |-> <<>>]
        ELSE Unmask(SubSeq(after, close + 1, Len(after)), prefix, originals,
                    done \o SubSeq(rest, 1, open - 1) \o originals[n])
=============================================================================
