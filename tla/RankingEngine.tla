--------------------------- MODULE RankingEngine ---------------------------
(***************************************************************************)
(* Engine::run of rust_multi_ranking_engine (engine.rs, select.rs): after  *)
(* CandidatePool has cut the input down to a pool, the expensive scorers   *)
(* run on the pool, the scores are fused, and a subset is chosen greedily  *)
(* under a budget (a number of candidates, or tokens), upper bounds (set   *)
(* constraints) and lower bounds (requirements), with an optional          *)
(* coverage objective.  The outcome says why every other candidate was     *)
(* rejected, and how far from the optimum the choice can be.               *)
(***************************************************************************)
EXTENDS CandidatePool, SequencesExt

CONSTANTS
    RrfK,           \* the constant of rank fusion
    TopicWeight     \* what covering one more topic is worth

ASSUME SelectionAssumption ==
    /\ None \notin Nat
    /\ \A e \in Engines : e.sample \in Nat \cup {None}
    /\ \A e \in Engines : e.max \in Nat /\ e.budget \in {"topk", "tail", "tokens"}
    /\ \A e \in Engines : \A n \in DOMAIN e.limits :
         e.limits[n].kind \in {"group", "total", "cost"} /\ e.limits[n].max \in Nat
    /\ \A f \in Feeds : \A c \in DOMAIN f : f[c].cost \in Nat /\ IsFiniteSet(f[c].topics)
    /\ TopicWeight \in Nat

VARIABLES
    pool,       \* the candidates that can be chosen, best first
    fused,      \* fused[c]: the fused score of c
    k,          \* how many may be chosen; None with a token budget
    branch,     \* the greedy that runs: "count", "ratio" or "gain"
    selected,   \* the indices chosen, in order
    value,      \* the sum of their gains
    byRatio,    \* what the greedy by ratio chose
    req,        \* the requirement that is repaired
    repaired,   \* whether repair changed the choice
    exhausted,  \* pool_exhausted
    outcome     \* what Engine::run returns, or None

chooseVars == <<k, branch, selected, value, byRatio, exhausted>>
vars == <<eng, item, pc, poolVars, logVars, pool, fused, chooseVars, req, repaired, outcome>>

Init ==
    /\ eng \in Engines /\ item \in Feeds
    /\ pc = "validate"
    /\ unread = DOMAIN item /\ input = 0
    /\ heap = {} /\ slab = <<>> /\ free = <<>>
    /\ rejected = <<>> /\ counts = [r \in Reasons |-> 0]
    /\ pool = <<>> /\ fused = [c \in DOMAIN item |-> 0]
    /\ k = None /\ branch = "count" /\ selected = <<>> /\ value = 0 /\ byRatio = None
    /\ req = 1 /\ repaired = FALSE /\ exhausted = FALSE /\ outcome = None

-----------------------------------------------------------------------------
(* Stage 2: expensive scores, fusion, threshold, order.                    *)

(* The rank of c on axis a among the candidates S that have a value there. *)
RankOn(a, c, S) ==
    LET v(d) == effective(eng, item[d].score[a]) IN
    1 + Cardinality({d \in S : /\ v(d) # None
                               /\ v(d) > v(c) \/ (v(d) = v(c) /\ item[d].id < item[c].id)})

(* fuse_all and recompute for one candidate of the survivors S.            *)
Fuse(c, S) ==
    LET U == Used(eng, item[c], Axes) IN
    CASE eng.fusion = "rrf" -> MapThenSumSet(LAMBDA a : Scale \div (RrfK + RankOn(a, c, S)), U)
      [] eng.fusion = "sum" -> WeightedSum(eng, item[c], Axes)
      [] eng.fusion = "max" -> IF U = {} THEN 0 ELSE Largest(eng, item[c], Axes)

Rejections(slots, reason) == [i \in DOMAIN slots |-> Rejection(Staged(slots[i]), reason)]

(* derive_budget fits a power law; here it may find any K for the pool, or *)
(* fall back to the configured one.                                        *)
Budgets(n) ==
    CASE eng.budget = "topk" -> {eng.max}
      [] eng.budget = "tail" -> {eng.max} \cup 1..n
      [] eng.budget = "tokens" -> {None}

(* sort_by: the elements of S, none before one that should come earlier.   *)
Sorted(S, before(_, _)) ==
    {q \in [1..Cardinality(S) -> S] :
        \A i, j \in 1..Cardinality(S) : i < j => q[i] # q[j] /\ ~before(q[j], q[i])}

(* The slots of the heap are taken in their order; those of the candidates *)
(* without a score and of those below the threshold drop out on the way.   *)
BuildPool ==
    LET survives(s) == Scored(eng, item[Staged(s)], Axes)
        survivors == {Staged(s) : s \in {t \in heap : survives(t)}}
        above(c) == eng.threshold = None \/ fused'[c] >= eng.threshold
        higher(c, d) ==
            fused'[c] > fused'[d] \/ (fused'[c] = fused'[d] /\ item[c].id < item[d].id)
        unscored == {s \in heap : ~survives(s)}
        below == {s \in heap : survives(s) /\ ~above(Staged(s))}
    IN  /\ pc = "read" /\ unread = {}
        /\ fused' = [c \in DOMAIN item |-> IF c \in survivors THEN Fuse(c, survivors) ELSE 0]
        /\ pool' \in Sorted({c \in survivors : above(c)}, higher)
        /\ \E u \in Sorted(unscored, Better), b \in Sorted(below, Better) :
             record(Rejections(u, "not_scored") \o Rejections(b, "below_threshold"))
        /\ k' \in Budgets(Len(pool'))
        /\ branch' = IF eng.budget = "tokens" THEN "ratio" ELSE "count"
        /\ pc' = "choose"
        /\ UNCHANGED <<eng, item, poolVars, selected, value, byRatio, exhausted, req, repaired, outcome>>

(* A batch scorer answers with the wrong number of scores.                 *)
BatchMismatch ==
    /\ pc = "read" /\ unread = {} /\ eng.cheap # Axes
    /\ pc' = "failed"
    /\ UNCHANGED <<eng, item, poolVars, logVars, pool, fused, chooseVars, req, repaired, outcome>>

-----------------------------------------------------------------------------
(* The choice.  S is a set of indices of the pool.                         *)
At(i) == item[pool[i]]
Chosen == Range(selected)
Indices == DOMAIN pool
CostOf(S) == MapThenSumSet(LAMBDA i : At(i).cost, S)

(* SetConstraint::admits of the three constraints of constraint.rs.        *)
Admits(limit, S, i) ==
    CASE limit.kind = "group" -> Cardinality({j \in S : At(j).group = At(i).group}) < limit.max
      [] limit.kind = "total" -> Cardinality(S) < limit.max
      [] limit.kind = "cost" -> CostOf(S) + At(i).cost <= limit.max

admits_all(S, i) == \A n \in DOMAIN eng.limits : Admits(eng.limits[n], S, i)

IsMatroid(limit) == limit.kind # "cost"

(* The fused score, and Coverage::marginal_gain when there is an objective.*)
Covered(S) == UNION {At(j).topics : j \in S}
gain(S, i) ==
    fused[pool[i]] + IF eng.objective = "none" THEN 0
                     ELSE TopicWeight * Cardinality(At(i).topics \ Covered(S))

(* Whether i has the larger key, with S chosen already: the gain, or the   *)
(* gain per cost, which is infinite for what costs nothing.                *)
Higher(perCost, S, i, j) ==
    IF perCost
    THEN IF At(i).cost = 0 THEN At(j).cost # 0
         ELSE At(j).cost # 0 /\ gain(S, i) * At(j).cost > gain(S, j) * At(i).cost
    ELSE gain(S, i) > gain(S, j)

(* The first of the indices C with the largest key.                        *)
IsFirstBest(perCost, S, C, i) ==
    /\ i \in C
    /\ \A j \in C : ~Higher(perCost, S, j, i) /\ (j < i => Higher(perCost, S, i, j))

(* Mutant of Open: the token budget is compared before the cost is added.  *)
OpenOverspends ==
    {i \in Indices \ Chosen :
        admits_all(Chosen, i) /\ (branch # "count" => CostOf(Chosen) < eng.max)}

(* What can be added to the choice.                                        *)
Open ==
    {i \in Indices \ Chosen :
        admits_all(Chosen, i) /\ (branch # "count" => CostOf(Chosen) + At(i).cost <= eng.max)}

(* Mutant of Ended: stops one short of K.                                  *)
EndedEarly == Open = {} \/ (branch = "count" /\ Len(selected) + 1 >= k)

Ended == Open = {} \/ (branch = "count" /\ Len(selected) >= k)

(* One round of cardinality or of greedy_pack.                             *)
Pick ==
    /\ pc = "choose" /\ ~Ended
    /\ \E i \in Open :
         /\ IsFirstBest(branch = "ratio", Chosen, Open, i)
         /\ selected' = Append(selected, i)
         /\ value' = value + gain(Chosen, i)
    /\ UNCHANGED <<eng, item, pc, poolVars, logVars, pool, fused, k, branch, byRatio, exhausted,
                   req, repaired, outcome>>

(* cardinality returns.                                                    *)
EndCount ==
    /\ pc = "choose" /\ branch = "count" /\ Ended
    /\ exhausted' = (Len(selected) < k)
    /\ pc' = "repair"
    /\ UNCHANGED <<eng, item, poolVars, logVars, pool, fused, k, branch, selected, value, byRatio,
                   req, repaired, outcome>>

(* greedy_pack by ratio returns, and the one by gain begins.               *)
EndRatio ==
    /\ pc = "choose" /\ branch = "ratio" /\ Ended
    /\ byRatio' = [selected |-> selected, value |-> value]
    /\ exhausted' = (Len(selected) = Len(pool))
    /\ selected' = <<>> /\ value' = 0 /\ branch' = "gain"
    /\ UNCHANGED <<eng, item, pc, poolVars, logVars, pool, fused, k, req, repaired, outcome>>

(* The single best candidate that fits the budget, if any does.            *)
Single ==
    LET C == {i \in Indices : At(i).cost <= eng.max /\ admits_all({}, i)} IN
    {i \in C : IsFirstBest(FALSE, {}, C, i)}

(* knapsack takes the best of the three.                                   *)
EndGain ==
    LET packed == IF value > byRatio.value
                  THEN [selected |-> selected, value |-> value, branch |-> "gain"]
                  ELSE [selected |-> byRatio.selected, value |-> byRatio.value, branch |-> "ratio"]
        single == {i \in Single : gain({}, i) > packed.value}
    IN  /\ pc = "choose" /\ branch = "gain" /\ Ended
        /\ selected' = IF single = {} THEN packed.selected ELSE <<CHOOSE i \in single : TRUE>>
        /\ branch' = IF single = {} THEN packed.branch ELSE "single"
        /\ pc' = "repair"
        /\ UNCHANGED <<eng, item, poolVars, logVars, pool, fused, k, value, byRatio, exhausted,
                       req, repaired, outcome>>

-----------------------------------------------------------------------------
(* repair_requirements: while a lower bound is not met, a candidate that   *)
(* meets it comes in, best first, for nobody if there is room or for a     *)
(* candidate that does not, worst first.                                   *)
Meeting(n, S) == {i \in S : eng.requirements[n].id \in At(i).meets}
Met(n, S) == Cardinality(Meeting(n, S)) >= eng.requirements[n].needed

set_is_feasible(S) ==
    /\ k # None => Cardinality(S) <= k
    /\ k = None => CostOf(S) <= eng.max
    /\ \A i \in S : admits_all(S \ {i}, i)

(* requirements_met: the bounds repaired before stay met.                  *)
KeepsMet(S) == \A n \in 1..(req - 1) : Met(n, S)

(* The changes that may be made: a donor, and a victim or 0.               *)
Swapped(s) == (Chosen \ {s[2]}) \cup {s[1]}

Swaps ==
    {s \in (Meeting(req, Indices) \ Chosen) \X ({0} \cup (Chosen \ Meeting(req, Chosen))) :
        /\ s[2] = 0 => k # None /\ Len(selected) < k
        /\ set_is_feasible(Swapped(s)) /\ KeepsMet(Swapped(s))}

(* Donors in the order of the pool; for each, room before victims, and     *)
(* victims from the end of the pool.                                       *)
IsFirstSwap(s) ==
    /\ s \in Swaps
    /\ \A t \in Swaps : \/ s[1] < t[1]
                        \/ s[1] = t[1] /\ (s[2] = 0 \/ (t[2] # 0 /\ s[2] >= t[2]))

(* The choice without the victim.                                          *)
Freed(v) ==
    IF v = 0 THEN selected ELSE RemoveAt(selected, CHOOSE n \in DOMAIN selected : selected[n] = v)

Repair ==
    /\ pc = "repair" /\ req <= Len(eng.requirements)
    /\ ~Met(req, Chosen)
    /\ IF Swaps = {}
       THEN pc' = "failed" /\ UNCHANGED <<selected, repaired>>
       ELSE /\ \E s \in Swaps : IsFirstSwap(s) /\ selected' = Append(Freed(s[2]), s[1])
            /\ repaired' = TRUE
            /\ pc' = pc
    /\ UNCHANGED <<eng, item, poolVars, logVars, pool, fused, k, branch, value, byRatio, exhausted,
                   req, outcome>>

NextRequirement ==
    /\ pc = "repair" /\ req <= Len(eng.requirements)
    /\ Met(req, Chosen)
    /\ req' = req + 1
    /\ UNCHANGED <<eng, item, pc, poolVars, logVars, pool, fused, chooseVars, repaired, outcome>>

-----------------------------------------------------------------------------
(* The outcome.                                                            *)

(* blocking_reasons: a candidate that a constraint refuses, asked of the   *)
(* final choice, was rejected for it; the others were outranked.           *)
Reason(i) == IF admits_all(Chosen, i) THEN "outranked" ELSE "set_constraint"

(* Mutant of cut_margin: measured by fused score.                          *)
MarginByScore ==
    LET S == Chosen \ {Last(selected)}
        C == {i \in Indices \ Chosen : admits_all(S, i)}
    IN  IF selected = <<>> \/ C = {} THEN "none"
        ELSE IF \E i \in C : fused[pool[i]] > fused[pool[Last(selected)]]
             THEN "negative" ELSE "nonnegative"

(* The sign of the lead of the last candidate chosen over the best that    *)
(* competed for its place; infinities and NaN are filtered out.            *)
cut_margin ==
    LET perCost == k = None
        last == Last(selected)
        S == Chosen \ {last}
        C == {i \in Indices \ Chosen :
                 admits_all(S, i) /\ (perCost => CostOf(S) + At(i).cost <= eng.max)}
    IN  IF \/ selected = <<>> \/ branch = "single" \/ C = {}
           \/ perCost /\ \E i \in C \cup {last} : At(i).cost = 0
        THEN "none"
        ELSE IF \E i \in C : Higher(perCost, S, i, last) THEN "negative" ELSE "nonnegative"

(* 1 - 1/e and half of it, as the code rounds them.                        *)
OneMinusInverseE == <<63212, 100000>>
HalfOfThat == <<31606, 100000>>

Matroids == Cardinality({n \in DOMAIN eng.limits : IsMatroid(eng.limits[n])})

(* Mutant of guarantee_of: repair does not withdraw the promise.           *)
PromiseUnrepaired ==
    LET p == Matroids IN
    CASE eng.objective = "undeclared" \/ p < Len(eng.limits) -> None
      [] eng.objective = "none" /\ k # None -> IF p <= 1 THEN <<1, 1>> ELSE <<1, p>>
      [] eng.objective = "none" /\ k = None -> IF p = 0 THEN <<1, 2>> ELSE None
      [] eng.objective = "coverage" /\ k # None -> IF p = 0 THEN OneMinusInverseE ELSE <<1, p + 1>>
      [] eng.objective = "coverage" /\ k = None -> IF p = 0 THEN HalfOfThat ELSE None

(* The factor of the optimum that is promised: <<1, 1>> is exact.          *)
guarantee_of ==
    LET p == Matroids IN
    CASE repaired \/ eng.objective = "undeclared" \/ p < Len(eng.limits) -> None
      [] ~repaired /\ p = Len(eng.limits) /\ eng.objective = "none" ->
           IF k # None THEN (IF p <= 1 THEN <<1, 1>> ELSE <<1, p>>)
           ELSE (IF p = 0 THEN <<1, 2>> ELSE None)
      [] ~repaired /\ p = Len(eng.limits) /\ eng.objective = "coverage" ->
           IF k # None THEN (IF p = 0 THEN OneMinusInverseE ELSE <<1, p + 1>>)
           ELSE (IF p = 0 THEN HalfOfThat ELSE None)

(* The last check of the requirements, and the assembly of the outcome.    *)
Report ==
    /\ pc = "repair" /\ req > Len(eng.requirements)
    /\ IF \A n \in DOMAIN eng.requirements : Met(n, Chosen)
       THEN /\ \E left \in Sorted(Indices \ Chosen, <) :
                 record([n \in DOMAIN left |-> Rejection(pool[left[n]], Reason(left[n]))])
            /\ outcome' = [ranked |-> [i \in DOMAIN selected |-> pool[selected[i]]],
                           promise |-> guarantee_of,
                           pool_exhausted |-> exhausted,
                           margin |-> cut_margin]
            /\ pc' = "done"
       ELSE pc' = "failed" /\ UNCHANGED <<logVars, outcome>>
    /\ UNCHANGED <<eng, item, poolVars, pool, fused, chooseVars, req, repaired>>

ReadStep ==
    /\ Start \/ \E c \in unread : ReadOne(c)
    /\ UNCHANGED <<pool, fused, chooseVars, req, repaired, outcome>>

Idle == pc \in {"done", "failed"} /\ UNCHANGED vars

Next ==
    \/ ReadStep \/ BuildPool \/ BatchMismatch
    \/ Pick \/ EndCount \/ EndRatio \/ EndGain
    \/ Repair \/ NextRequirement \/ Report
    \/ Idle

Spec == Init /\ [][Next]_vars

-----------------------------------------------------------------------------
(* evidence.rs:3-4 and is_complete: no candidate disappears.  In every     *)
(* state those read are counted as rejected or still there, and those of   *)
(* which the details are kept are other ones, each there once, whatever    *)
(* the retention policy; at the end only the ranked ones are left.         *)
Left ==
    CASE pc \in {"validate", "read"} -> {Staged(s) : s \in heap}
      [] pc \in {"choose", "repair"} -> Range(pool)
      [] pc = "done" -> Range(outcome.ranked)

Total == MapThenSumSet(LAMBDA r : counts[r], Reasons)
Gone == {rejected[i].candidate : i \in DOMAIN rejected}

Complete ==
    pc # "failed" =>
        /\ input = Total + Cardinality(Left)
        /\ Cardinality(Gone) = Len(rejected) /\ Gone \cap Left = {}
        /\ Len(rejected) = IF eng.sample = None \/ eng.sample > Total THEN Total ELSE eng.sample
        /\ pc = "done" => Len(outcome.ranked) = Cardinality(Left)

(* README.md:407: "a successful result satisfies all registered lower      *)
(* bounds and the enforced upper bounds", repaired or not; and the pool    *)
(* never outgrows its capacity.                                            *)
Within(S) ==
    /\ IF k = None THEN CostOf(S) <= eng.max ELSE Cardinality(S) <= k
    /\ \A n \in DOMAIN eng.limits :
         LET limit == eng.limits[n] IN
         CASE limit.kind = "group" ->
                \A i \in S : Cardinality({j \in S : At(j).group = At(i).group}) <= limit.max
           [] limit.kind = "total" -> Cardinality(S) <= limit.max
           [] limit.kind = "cost" -> CostOf(S) <= limit.max

BoundsHold ==
    /\ Cardinality(heap) <= pool_capacity(eng)
    /\ pc = "done" =>
        /\ Within(Chosen)
        /\ \A n \in DOMAIN eng.requirements :
             Cardinality({i \in Chosen : eng.requirements[n].id \in At(i).meets})
                 >= eng.requirements[n].needed

(* README.md:415-430: the factor that is reported holds: against every     *)
(* choice the bounds allow, what was chosen is worth at least that part,   *)
(* and as much when it is called exact.                                    *)
Worth(S) ==
    MapThenSumSet(LAMBDA i : fused[pool[i]], S)
        + IF eng.objective = "none" THEN 0 ELSE TopicWeight * Cardinality(Covered(S))

PromiseHolds ==
    (pc = "done" /\ outcome.promise # None) =>
        \A S \in SUBSET Indices :
            Within(S) => Worth(Chosen) * outcome.promise[2] >= Worth(S) * outcome.promise[1]

(* evidence.rs:143-150: a candidate called outranked lost its place to     *)
(* others: unless repair made room, it cannot be added to the result.      *)
NothingFits ==
    (pc = "done" /\ ~repaired) => \A i \in Indices \ Chosen : ~Within(Chosen \cup {i})

(* select.rs:523-528: the margin is measured by what the selector used, so *)
(* it is not negative, unless the last place was given by repair or by the *)
(* greedy that ignores costs.                                              *)
MarginIsLead ==
    (pc = "done" /\ ~repaired /\ branch # "gain") => outcome.margin # "negative"
=============================================================================
