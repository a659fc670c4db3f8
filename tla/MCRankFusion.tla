---------------------------- MODULE MCRankFusion ----------------------------
(* An instance of RankFusion: three sources with up to two documents each, *)
(* some found by two sources under one URL (u3 under two titles that are   *)
(* not alike), some near duplicates under different identifiers.  Titles   *)
(* A, B and C are a chain: A is like B, B like C, A not like C; a summary  *)
(* makes B unlike the others.                                              *)
EXTENDS RankFusion, SequencesExt

Doc(s, arxiv, url, title, summary, age) ==
    [ident |-> <<Missing, arxiv, url, title>>, text |-> title, sources |-> {s}, summary |-> summary,
     age |-> age]

DocsOf == [s \in Sources |->
    CASE s = "arxiv" -> {Doc(s, "x1", "u1", "A", Missing, 2),
                         Doc(s, "x2", "u2", "B", Missing, Missing)}
      [] s = "news" -> {Doc(s, Missing, "u1", "A", Missing, Missing),
                        Doc(s, Missing, "u3", "C", Missing, 40)}
      [] s = "web" -> {Doc(s, Missing, "u3", "B", "s", Missing), Doc(s, Missing, Missing, "B", "s", 5)}]

UpToTwo == [s \in Sources |-> BoundedSeq(DocsOf[s], MaxRank)]

TwoByTwo == [t \in {"A", "B", "C"}, s \in {Missing, "s"} |->
    CASE t = "B" /\ s = "s" -> <<<<7, 7>>, <<8, 8>>>>
      [] t = "A" -> <<<<1, 2>>, <<3, 4>>>>
      [] t = "B" -> <<<<1, 2>>, <<3, 5>>>>
      [] t = "C" -> <<<<1, 9>>, <<3, 5>>>>]

SomeQueries ==
    {[limit |-> 3, recency |-> Missing, from |-> Missing, to |-> Missing],
     [limit |-> 1, recency |-> 7, from |-> Missing, to |-> Missing],
     [limit |-> 2, recency |-> Missing, from |-> 30, to |-> 3]}
=============================================================================
