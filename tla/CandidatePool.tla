--------------------------- MODULE CandidatePool ---------------------------
(***************************************************************************)
(* The first stage of rust_multi_ranking_engine (engine.rs, select.rs):    *)
(* candidates are read one at a time, filtered, scored by the cheap        *)
(* scorers, and the best Capacity of them are kept in a bounded heap.  A   *)
(* slot of the heap holds the position of its candidate in a slab whose    *)
(* freed positions are used again, so that memory does not grow with the   *)
(* input.                                                                  *)
(*                                                                         *)
(* Scores are integers (or None, or NaN); a score v counts as v * Scale,   *)
(* where Scale is a multiple of every number the fusions divide by, so     *)
(* that means and reciprocals are exact.                                   *)
(***************************************************************************)
EXTENDS Integers, Sequences, FiniteSets, FiniteSetsExt

CONSTANTS
    Candidates,     \* the candidates there are
    Feeds,          \* the inputs: functions from some candidates to items
    Engines,        \* configurations of the engine
    Axes,           \* the scorers, by their position: 1..n
    Scale,          \* the score 1.0
    Lowest,         \* stands for f32::NEG_INFINITY
    None, NaN

VARIABLES
    eng,        \* the configuration of this run
    item,       \* item[c]: what the candidate c of this run is like
    pc,         \* where Engine::run is
    unread,     \* the candidates the iterator has not yielded yet
    input,      \* input_count
    heap,       \* the slots of the bounded heap
    slab,       \* slab[i]: a staged candidate, or None
    free,       \* the stack of free positions of the slab
    rejected,   \* the rejections that are kept
    counts      \* the rejections that are counted, by kind

poolVars == <<unread, input, heap, slab, free>>
logVars == <<rejected, counts>>

Reasons == {"unary_constraint", "not_scored", "out_of_pool", "below_threshold",
            "set_constraint", "outranked"}

-----------------------------------------------------------------------------
(* Scores.  x is an item, e a configuration.                               *)
sanitize(v) == IF v = NaN THEN None ELSE v

effective(e, v) == IF sanitize(v) = None /\ e.missing = "impute" THEN e.impute ELSE sanitize(v)

Used(e, x, A) == {a \in A : effective(e, x.score[a]) # None}

WeightOf(e, a) == IF e.fusion = "sum" THEN e.weight[a] ELSE 1

(* The mean of the axes that have a value, with their weights normalised.  *)
WeightedSum(e, x, A) ==
    LET U == Used(e, x, A)
        W == MapThenSumSet(LAMBDA a : WeightOf(e, a), U)
    IN  IF W <= 0 THEN 0
        ELSE (Scale * MapThenSumSet(LAMBDA a : WeightOf(e, a) * effective(e, x.score[a]), U)) \div W

Largest(e, x, A) == Scale * Max({effective(e, x.score[a]) : a \in Used(e, x, A)})

(* The axis stage 1 cuts by: the configured one, or with rank fusion the   *)
(* first cheap one; None: the fusion of the cheap axes.                    *)
resolve_admission(e) ==
    IF e.admission # None THEN e.admission
    ELSE IF e.fusion = "rrf" THEN Min(e.cheap) ELSE None

admission_value(e, x) ==
    LET i == resolve_admission(e)
        A == IF i = None THEN e.cheap ELSE {i}
    IN  IF Used(e, x, A) = {} THEN Lowest
        ELSE IF i # None \/ e.fusion = "max" THEN Largest(e, x, A)
        ELSE WeightedSum(e, x, A)

(* K (for tokens: as if every candidate cost 1) times the multiplier.      *)
pool_capacity(e) ==
    LET n == IF e.budget = "tail" /\ e.max = 0 THEN 1 ELSE e.max IN
    IF n * e.multiplier = 0 THEN 1 ELSE n * e.multiplier

(* The configurations that Engine::validate accepts.  In a well-formed one *)
(* no scorer is registered twice, weights are for scorers there are, and a *)
(* tail mass comes with an epsilon in range, tokens with a cost function.  *)
Valid(e) ==
    /\ Axes # {}
    /\ e.wellFormed
    /\ e.fusion \in {"sum", "max"} => e.unit
    /\ IF e.admission # None THEN e.admission \in e.cheap ELSE e.fusion = "rrf" => e.cheap # {}
    /\ e.multiplier # 0
    /\ e.budget = "topk" => e.max # 0

ASSUME PoolAssumption ==
    /\ None \notin Candidates
    /\ \A e \in Engines : pool_capacity(e) \in Nat \ {0}
    /\ \A f \in Feeds : DOMAIN f \subseteq Candidates
    /\ \A f \in Feeds : \A c \in DOMAIN f : f[c].id \in Int
    /\ \A e \in Engines : Valid(e) =>
         \A f \in Feeds : \A c \in DOMAIN f : admission_value(e, f[c]) \in Int

-----------------------------------------------------------------------------
(* Rejections.                                                             *)
Rejection(c, reason) == [candidate |-> c, reason |-> reason]

(* Mutant of record: only what is kept is counted.                         *)
recordKept(new) ==
    IF eng.sample = None \/ Len(rejected) + Len(new) <= eng.sample
    THEN /\ counts' = [r \in Reasons |->
                          counts[r] + Cardinality({i \in DOMAIN new : new[i].reason = r})]
         /\ rejected' = rejected \o new
    ELSE UNCHANGED <<counts, rejected>>

(* record, once for each of new: everything is counted; what is kept       *)
(* depends on Rejections: Keep (None), Count (0) or Sample(n).             *)
record(new) ==
    /\ counts' = [r \in Reasons |-> counts[r] + Cardinality({i \in DOMAIN new : new[i].reason = r})]
    /\ rejected' = LET all == rejected \o new IN
                   IF eng.sample # None /\ Len(all) > eng.sample
                   THEN SubSeq(all, 1, eng.sample) ELSE all

Start ==
    /\ pc = "validate"
    /\ pc' = IF Valid(eng) THEN "read" ELSE "failed"
    /\ UNCHANGED <<eng, item, poolVars, logVars>>

-----------------------------------------------------------------------------
(* Reading one candidate: an iteration of the loop of Engine::run.         *)
Reads(c) ==
    /\ pc = "read" /\ c \in unread
    /\ unread' = unread \ {c}
    /\ input' = input + 1
    /\ UNCHANGED <<eng, item, pc>>

Allowed(c) == item[c].allowed

Scored(e, x, A) == e.missing = "reject" => \A a \in A : sanitize(x.score[a]) # None

RejectUnary(c) ==
    /\ Reads(c)
    /\ ~Allowed(c)
    /\ record(<<Rejection(c, "unary_constraint")>>)
    /\ UNCHANGED <<heap, slab, free>>

RejectUnscored(c) ==
    /\ Reads(c)
    /\ Allowed(c) /\ ~Scored(eng, item[c], eng.cheap)
    /\ record(<<Rejection(c, "not_scored")>>)
    /\ UNCHANGED <<heap, slab, free>>

(* Where the candidate is staged: the position freed last, or a new one.   *)
Index == IF free = <<>> THEN Len(slab) + 1 ELSE free[Len(free)]
Placed(c) == IF free = <<>> THEN Append(slab, c) ELSE [slab EXCEPT ![Index] = c]
Rest == IF free = <<>> THEN free ELSE SubSeq(free, 1, Len(free) - 1)

Slot(c, i) == [key |-> admission_value(eng, item[c]), id |-> item[c].id, index |-> i]

(* The order of slots: the larger key, then the smaller identifier.        *)
Better(s, t) == s.key > t.key \/ (s.key = t.key /\ s.id < t.id)

Eligible(c) == Allowed(c) /\ Scored(eng, item[c], eng.cheap)

Full == Cardinality(heap) >= pool_capacity(eng)

(* BoundedHeap::push while there is room.                                  *)
Accept(c) ==
    /\ Reads(c) /\ Eligible(c)
    /\ ~Full
    /\ heap' = heap \cup {Slot(c, Index)}
    /\ slab' = Placed(c)
    /\ free' = Rest
    /\ UNCHANGED logVars

(* Mutant of IsWorst: any slot of the heap.                                *)
IsAny(w) == w \in heap

IsWorst(w) == w \in heap /\ \A s \in heap : ~Better(w, s)

(* Mutant of Evict: the evicted candidate's position is not given back.    *)
EvictLeak(c) ==
    /\ Reads(c) /\ Eligible(c)
    /\ Full
    /\ \E w \in heap :
         /\ IsWorst(w) /\ Better(Slot(c, Index), w)
         /\ heap' = (heap \ {w}) \cup {Slot(c, Index)}
         /\ slab' = [Placed(c) EXCEPT ![w.index] = None]
         /\ free' = Rest
         /\ record(<<Rejection(Placed(c)[w.index], "out_of_pool")>>)

(* ... when it is full and the candidate is better than the worst ...      *)
Evict(c) ==
    /\ Reads(c) /\ Eligible(c)
    /\ Full
    /\ \E w \in heap :
         /\ IsWorst(w) /\ Better(Slot(c, Index), w)
         /\ heap' = (heap \ {w}) \cup {Slot(c, Index)}
         /\ slab' = [Placed(c) EXCEPT ![w.index] = None]
         /\ free' = Append(Rest, w.index)
         /\ record(<<Rejection(Placed(c)[w.index], "out_of_pool")>>)

(* ... and when it is not.                                                 *)
Refuse(c) ==
    /\ Reads(c) /\ Eligible(c)
    /\ Full
    /\ \E w \in heap : IsWorst(w) /\ ~Better(Slot(c, Index), w)
    /\ heap' = heap
    /\ slab' = [Placed(c) EXCEPT ![Index] = None]
    /\ free' = Append(Rest, Index)
    /\ record(<<Rejection(c, "out_of_pool")>>)

ReadOne(c) == RejectUnary(c) \/ RejectUnscored(c) \/ Accept(c) \/ Evict(c) \/ Refuse(c)

-----------------------------------------------------------------------------
(* The candidates read so far, and the one a slot stands for.              *)
Read == DOMAIN item \ unread
Staged(s) == slab[s.index]

(* The slots and the slab belong together: every slot leads to the         *)
(* candidate it stands for, two slots never to one, and the positions no   *)
(* slot leads to are empty and free, so that none of the expect() of       *)
(* engine.rs:368-396 fails, and the slab never has more than one position  *)
(* over the capacity, however long the input is.                           *)
SlabSound ==
    /\ \A s \in heap : /\ s.index \in 1..Len(slab)
                       /\ Staged(s) \in Read
                       /\ s = Slot(Staged(s), s.index)
    /\ \A s, t \in heap : s # t => s.index # t.index /\ Staged(s) # Staged(t)
    /\ \A i \in 1..Len(slab) :
         (slab[i] = None) <=> (\E j \in 1..Len(free) : free[j] = i)
    /\ \A i \in 1..Len(slab) : slab[i] # None => \E s \in heap : s.index = i
    /\ Len(slab) <= pool_capacity(eng) + 1

(* tests/invariants.rs:61: the order of arrival does not change the        *)
(* result.  Whatever the order, the heap has the best of the candidates    *)
(* read so far: one that passed the filters and is not in it is no better  *)
(* than any that is, and is left out only because the heap is full.        *)
PoolIsBest ==
    \A c \in Read : Eligible(c) =>
        \/ \E s \in heap : Staged(s) = c
        \/ Full /\ \A s \in heap : ~Better(Slot(c, 0), s)
=============================================================================
