--------------------------- MODULE Normalization ---------------------------
(***************************************************************************)
(* normalize of rust_pii_transformer (src/normalize/mod.rs): the passes    *)
(* that are switched on, one after the other, each with its table composed *)
(* with the table so far.                                                  *)
(***************************************************************************)
EXTENDS Normalize, SequencesExt

CONSTANT
    Inputs      \* source texts, each with the passes that NormalizeConfig switches on

ASSUME InputsAssumption ==
    \A in \in Inputs : in.text \in Seq(Alphabet) /\ in.config \subseteq ToSet(Passes)

VARIABLES
    source,     \* the text that mask is called with
    config,     \* the passes that are switched on
    pass,       \* the number of the next pass
    text,       \* the text normalised so far
    map,        \* its span table
    failed,     \* whether compose has failed
    tables,     \* history: the tables of the passes
    origin      \* history: origin[i]: the characters of source that text[i] comes from

nvars == <<source, config, pass, text, map, failed, tables, origin>>

NormInit ==
    /\ \E in \in Inputs : source = in.text /\ config = in.config
    /\ pass = 1 /\ text = source /\ map = IdentityMap(source) /\ failed = FALSE
    /\ tables = <<>>
    /\ origin = [i \in DOMAIN source |-> {i}]

-----------------------------------------------------------------------------
(* What the characters that the calls write come from.                     *)
Before(calls, n) == FoldLeft(LAMBDA k, c : k + Len(c.src), 0, SubSeq(calls, 1, n - 1))

Origins(calls) ==
    FlattenSeq([n \in DOMAIN calls |->
        LET at == Before(calls, n) IN
        [i \in DOMAIN calls[n].dst |->
            IF calls[n].op = "keep" THEN origin[at + i]
            ELSE UNION {origin[at + k] : k \in DOMAIN calls[n].src}]])

(* One step of normalize.                                                  *)
RunPass ==
    /\ pass <= Len(Passes) /\ ~failed
    /\ pass' = pass + 1
    /\ \/ /\ Passes[pass] \notin config
          /\ UNCHANGED <<text, map, failed, tables, origin>>
       \/ /\ Passes[pass] \in config
          /\ LET calls == PassCalls(Passes[pass], text)
                 composed == Compose(map, BuildMap(calls)) IN
             /\ text' = BuildText(calls)
             /\ map' = composed.map
             /\ failed' = ~composed.ok
             /\ tables' = Append(tables, BuildMap(calls))
             /\ origin' = Origins(calls)
    /\ UNCHANGED <<source, config>>

NormSpec == NormInit /\ [][RunPass]_nvars

-----------------------------------------------------------------------------
(* normalize/mod.rs:108-109: compose does not fail "for any user input",   *)
(* and the table that results is valid and reaches from the whole source   *)
(* to the whole normalised text.                                           *)
MapIsValid ==
    /\ ~failed
    /\ Valid(map)
    /\ SrcEnd(map) = Size(source) /\ DstEnd(map) = Size(text)
=============================================================================
