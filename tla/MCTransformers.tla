--------------------------- MODULE MCTransformers ---------------------------
(* The two document transformers are programs of their own that share no   *)
(* state.  A behaviour runs one of them; the other rests where it begins   *)
(* on an empty input, so that the states are those of the one and those of *)
(* the other, never pairs of them.                                         *)
EXTENDS MCPiiPipeline, MCChunker

VARIABLE program

PiiRests == source = <<>> /\ config = ToSet(Passes) /\ PiiInit
ChunkerRests == doc = <<>> /\ chunker = (CHOOSE c \in SampleChunkers : TRUE) /\ Init

OneInit ==
    \/ program = "pii" /\ ChunkerRests /\ PiiInit
    \/ program = "chunker" /\ PiiRests /\ Init

OneNext ==
    \/ program = "pii" /\ PiiNext /\ UNCHANGED <<program, vars>>
    \/ program = "chunker" /\ Next /\ UNCHANGED <<program, pvars>>

OneSpec == OneInit /\ [][OneNext]_<<program, pvars, vars>>
=============================================================================
