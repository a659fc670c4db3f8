--------------------------- MODULE MCPiiPipeline ---------------------------
(* All short texts, and longer ones over the characters of one theme:      *)
(* jamo, numerals and word endings; full-width forms, look-alikes and      *)
(* separators; addresses, passport numbers and masked digits; marks that   *)
(* look like tokens.                                                       *)
EXTENDS PiiPipeline

MaxLen == 5

(* A theme and the length of its texts.                                    *)
Themes ==
    {<<{"lead", "vowel", "trail", "hundred", "digit"}, 4>>,
     <<{"i2", "hundred", "yo", "hyphen"}, 4>>,
     <<{"i1", "hundred", "hyphen"}, 5>>,
     <<{"digit", "wide_digit", "wide_hyphen", "space", "O"}, 4>>,
     <<{"digit", "X", "M"}, 4>>,
     <<{"digit", "star", "at", "dom"}, 5>>,
     <<{"digit", "open0", "open1", "close"}, 5>>}

Short == BoundedSeq(Alphabet, 2)
Long == UNION {UNION {[1..n -> t[1]] : n \in 3..t[2]} : t \in Themes}

SampleInputs ==
    [text : Short \cup Long, config : {ToSet(Passes)}]
        \cup [text : Short, config : {{"nfc", "fold"}}]
SamplePolicies == {{}, {"number"}, {"email", "passport", "number"}}
TextLengths == 0..MaxLen
EntityKinds == {"email", "passport", "number"}
SampleFindings == [entity : EntityKinds, from : TextLengths, to : TextLengths, at : 0..4]
=============================================================================
