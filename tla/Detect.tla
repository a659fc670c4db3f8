------------------------------- MODULE Detect -------------------------------
(***************************************************************************)
(* The scanners of rust_pii_transformer (src/detect/scanner.rs) over the   *)
(* alphabet of Normalize.  A range <<a, b>> holds the characters a + 1 to  *)
(* b of the normalised text.                                               *)
(***************************************************************************)
EXTENDS Normalize

CONSTANT PassportMin    \* the fewest digits of a passport number (7)

ASSUME PassportAssumption == PassportMin \in Nat

Ranges(text) == {r \in (0..Len(text)) \X (0..Len(text)) : r[1] < r[2]}
All(text, r, S) == \A k \in (r[1] + 1)..r[2] : In(text, k, S)
Maximal(text, r, S) ==
    All(text, r, S) /\ ~In(text, r[1], S) /\ ~In(text, r[2] + 1, S)

(* digit_runs: maximal runs of digits and masked digits, two of them known.*)
DigitRuns(text) ==
    {r \in Ranges(text) :
        /\ Maximal(text, r, DigitLike)
        /\ Cardinality({k \in (r[1] + 1)..r[2] : text[k] = "digit"}) >= 2}

(* passports: one or two capitals and digits, not part of a longer word.   *)
Capitals == {"O", "M", "X"}
Alphanumeric == Capitals \cup {"digit", "dom"}

Passports(text) ==
    {r \in Ranges(text) :
        \E m \in {r[1] + 1, r[1] + 2} :
            /\ All(text, <<r[1], m>>, Capitals) /\ All(text, <<m, r[2]>>, {"digit"})
            /\ ~In(text, r[1], Alphanumeric) /\ ~In(text, r[2] + 1, Alphanumeric)
            /\ r[2] - m \in {PassportMin, PassportMin + 1}
            /\ r[2] - r[1] \in {PassportMin + 1, PassportMin + 2}}

(* emails: from an at sign to the left over what a local part may hold,    *)
(* to the right over what a domain may hold but not a hyphen at its end;   *)
(* the last label of the domain has letters only.                          *)
MailPart == Alphanumeric \cup {"hyphen"}

Emails(text) ==
    {r \in Ranges(text) :
        \E i \in (r[1] + 2)..(r[2] - 1) :
            LET right == EndOf(text, i + 1, MailPart) - 1 IN
            /\ text[i] = "at"
            /\ All(text, <<r[1], i - 1>>, MailPart) /\ ~In(text, r[1], MailPart)
            /\ r[2] <= right /\ text[r[2]] # "hyphen" /\ All(text, <<r[2], right>>, {"hyphen"})
            /\ \E d \in (i + 1)..r[2] : text[d] = "dom" /\ All(text, <<d, r[2]>>, Capitals)}

(* detect: in this order; an address is always reported, of the rest what  *)
(* the evaluation (checksum, context, score) lets pass.                    *)
Ranked == <<"email", "passport", "number">>

Candidates(text) ==
    {[entity |-> "email", range |-> r] : r \in Emails(text)}
        \cup {[entity |-> "passport", range |-> r] : r \in Passports(text)}
        \cup {[entity |-> "number", range |-> r] : r \in DigitRuns(text)}

Sure(c) == c.entity = "email"

(* The place of c in the list of candidates.                               *)
ListedAt(text, c) ==
    LET rank(d) == CHOOSE n \in DOMAIN Ranked : Ranked[n] = d.entity IN
    Cardinality({d \in Candidates(text) :
        \/ rank(d) < rank(c)
        \/ rank(d) = rank(c) /\ d.range[1] < c.range[1]})
=============================================================================
