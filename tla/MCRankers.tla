----------------------------- MODULE MCRankers -----------------------------
(* The two rankers are programs of their own that share no state.  A       *)
(* behaviour runs one of them; the other rests where it begins, without    *)
(* documents or candidates, so that the states are those of the one and    *)
(* those of the other, never pairs of them.                                *)
EXTENDS MCRankFusion, MCRankingEngine

VARIABLE program

FusionRests ==
    /\ query = (CHOOSE x \in SomeQueries : TRUE)
    /\ answer = [s \in Sources |-> <<>>]
    /\ FusionInit
RankingRests == eng = (CHOOSE e \in SomeEngines : TRUE) /\ item = <<>> /\ Init

OneInit ==
    \/ program = "fusion" /\ RankingRests /\ FusionInit
    \/ program = "ranking" /\ FusionRests /\ Init

OneNext ==
    \/ program = "fusion" /\ FusionNext /\ UNCHANGED <<program, vars>>
    \/ program = "ranking" /\ Next /\ UNCHANGED <<program, fusionVars>>

OneSpec == OneInit /\ [][OneNext]_<<program, fusionVars, vars>>
=============================================================================
