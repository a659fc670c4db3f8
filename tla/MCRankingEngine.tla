-------------------------- MODULE MCRankingEngine --------------------------
(* Instances of RankingEngine: every way to give four of six kinds of      *)
(* candidates the identifiers 1 to 4, and no candidate at all, under       *)
(* configurations with every budget, fusion, missing policy, retention     *)
(* policy, constraint and objective.                                       *)
EXTENDS RankingEngine

NegativeInfinity == -1000

Kind(first, second, allowed, group, cost, topics, meets) ==
    [score |-> <<first, second>>, allowed |-> allowed, group |-> group, cost |-> cost,
     topics |-> topics, meets |-> meets]

Kinds == {Kind(3, 2, TRUE, "g", 2, {"x"}, {"p"}),
          Kind(1, 2, TRUE, "h", 1, {"y"}, {"q"}),
          Kind(1, 1, TRUE, "g", 0, {"x", "y"}, {}),
          Kind(None, 2, TRUE, "h", 1, {"z"}, {"p", "q"}),
          Kind(4, NaN, TRUE, "h", 3, {"x", "z"}, {"q"}),
          Kind(3, 3, FALSE, "g", 1, {}, {"p"})}

Item(x, n) ==
    [id |-> n, score |-> x.score, allowed |-> x.allowed, group |-> x.group, cost |-> x.cost,
     topics |-> x.topics, meets |-> x.meets]

SomeFeeds ==
    {<<>>} \cup {[c \in Candidates |-> Item(f[c], c)] :
                 f \in {g \in [Candidates -> Kinds] : \A a, b \in Candidates : a # b => g[a] # g[b]}}

Plain == [fusion |-> "sum", weight |-> <<1, 1>>, unit |-> TRUE, wellFormed |-> TRUE, cheap |-> {1},
          admission |-> None, missing |-> "skip", impute |-> 0, budget |-> "topk", max |-> 2,
          multiplier |-> 1, sample |-> None, threshold |-> None, limits |-> <<>>,
          objective |-> "none", requirements |-> <<>>]

Group(n) == [kind |-> "group", max |-> n]
TotalOf(n) == [kind |-> "total", max |-> n]
Cost(n) == [kind |-> "cost", max |-> n]
AtLeast(p, n) == [id |-> p, needed |-> n]

SomeEngines ==
    {[Plain EXCEPT !.missing = "reject", !.sample = 1],
     [Plain EXCEPT !.fusion = "rrf", !.unit = FALSE, !.multiplier = 2, !.limits = <<Group(1)>>],
     [Plain EXCEPT !.fusion = "max", !.cheap = {1, 2}, !.missing = "impute", !.impute = 1,
                   !.multiplier = 2, !.sample = 0, !.threshold = Scale + 1],
     [Plain EXCEPT !.multiplier = 2, !.limits = <<Group(1), TotalOf(2)>>],
     [Plain EXCEPT !.weight = <<0, 1>>, !.admission = 1, !.multiplier = 2, !.objective = "coverage"],
     [Plain EXCEPT !.multiplier = 2, !.objective = "coverage", !.limits = <<Group(1)>>],
     [Plain EXCEPT !.budget = "tail", !.max = 0, !.multiplier = 3, !.objective = "undeclared"],
     [Plain EXCEPT !.budget = "tokens", !.max = 3, !.multiplier = 2],
     [Plain EXCEPT !.budget = "tokens", !.max = 4, !.objective = "coverage", !.sample = 2],
     [Plain EXCEPT !.budget = "tokens", !.max = 4, !.limits = <<Group(1)>>,
                   !.requirements = <<AtLeast("p", 2)>>],
     [Plain EXCEPT !.multiplier = 2, !.limits = <<Cost(3)>>,
                   !.requirements = <<AtLeast("p", 1), AtLeast("q", 1)>>],
     [Plain EXCEPT !.multiplier = 2, !.requirements = <<AtLeast("q", 2), AtLeast("p", 1)>>],
     [Plain EXCEPT !.admission = 2],
     [Plain EXCEPT !.wellFormed = FALSE]}
=============================================================================
