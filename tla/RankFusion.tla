----------------------------- MODULE RankFusion -----------------------------
(***************************************************************************)
(* What Engine::search of rust_scholar_transformer does with the answers   *)
(* of the sources: reciprocal rank fusion with a merge by identity         *)
(* (src/fusion.rs), a merge of near duplicates that MinHash-LSH finds      *)
(* (src/dedup.rs), the date filter and the limit (src/engine.rs).  A step  *)
(* is one iteration of a loop.                                             *)
(*                                                                         *)
(* Two orders are not the program's to choose: the one in which the        *)
(* sources answer and the one in which a HashMap gives its buckets.  A     *)
(* document keeps its four identifiers, its sources, its text (title and   *)
(* URL), one optional field (summary: content, authors and extra are       *)
(* merged alike), its age and its scores.  Scores are exact fractions of   *)
(* Unit; rounding is left out.  So is the authority score, which is set    *)
(* but never compared.                                                     *)
(***************************************************************************)
EXTENDS Integers, Sequences, FiniteSets, FiniteSetsExt

CONSTANTS
    Sources,    \* the sources that were asked
    Answers,    \* Answers[s]: what s may answer, sequences of documents
    Bands,      \* LSH_BANDS
    Rows,       \* MINHASH_N / LSH_BANDS
    Signature,  \* Signature[text, summary]: the MinHash signature, in bands
    Threshold,  \* how many entries of two signatures must agree
    Queries,    \* the date conditions and limits of a query
    K,          \* DEFAULT_RRF_K
    Unit,       \* the scores are counted in 1 / Unit
    MaxRank,    \* bound: the length of an answer
    Missing     \* None, of an optional field

(* Every rank has a share that is a whole number of units.                 *)
ASSUME FusionAssumption ==
    /\ K \in Nat /\ MaxRank \in Nat /\ Unit \in Nat
    /\ \A r \in 1..MaxRank : Unit % (K + r) = 0

(* A document always has a title hash (model.rs:40); the other identifiers *)
(* and the date are optional.                                              *)
ASSUME AnswersAssumption ==
    /\ IsFiniteSet(Sources)
    /\ \A s \in Sources : \A list \in Answers[s] :
        /\ \E n \in 0..MaxRank : DOMAIN list = 1..n
        /\ \A r \in DOMAIN list :
            /\ list[r].ident[4] # Missing
            /\ list[r].age # Missing => list[r].age \in Int

VARIABLES
    query,      \* the query
    answer,     \* answer[s]: the documents of s, in its order
    arrived,    \* the sources in the order in which they answered
    phase,      \* "collect", "fuse", "union", "merge" or "done"
    todo,       \* what the loop of the phase has still to visit, as pairs
    docs,       \* the map of fuse in the order of insertion
    ranked,     \* the documents after fuse
    parent,     \* the union-find forest over the indices of ranked
    buckets,    \* the LSH buckets that are still to be visited
    slots,      \* the documents of near_dedup that were not taken, by index
    merged,     \* the documents after near_dedup
    output      \* the documents of the report

fusionVars == <<query, answer, arrived, phase, todo, docs, ranked, parent, buckets, slots,
                merged, output>>

FusionInit ==
    /\ query \in Queries
    /\ answer \in {a \in [Sources -> UNION {Answers[s] : s \in Sources}] :
                      \A s \in Sources : a[s] \in Answers[s]}
    /\ arrived = <<>> /\ phase = "collect" /\ todo = {}
    /\ docs = <<>> /\ ranked = <<>> /\ parent = <<>> /\ buckets = {}
    /\ slots = <<>> /\ merged = <<>> /\ output = <<>>

-----------------------------------------------------------------------------
(* A loop visits its pairs in lexicographic order.                         *)
IsNext(e) ==
    /\ e \in todo
    /\ \A f \in todo : e[1] < f[1] \/ (e[1] = f[1] /\ e[2] <= f[2])

(* The elements of S as a sequence, where R is the strict order of pairs:  *)
(* an element stands behind those that come before it.                     *)
Place(S, R, x) == Cardinality({y \in S : <<y, x>> \in R})
InOrder(S, R) == [n \in 1..Cardinality(S) |-> CHOOSE x \in S : Place(S, R, x) = n - 1]
Ascending(S) == {e \in S \X S : e[1] < e[2]}

(* identity_key: the first identifier that is there, of DOI, arXiv id,     *)
(* canonical URL and title hash, with its kind.                            *)
IdentityKey(d) ==
    LET i == CHOOSE i \in 1..4 : d.ident[i] # Missing /\ \A j \in 1..(i - 1) : d.ident[j] = Missing
    IN  <<i, d.ident[i]>>

Fill(a, b) == IF a = Missing THEN b ELSE a

(* merge_docs: empty fields are filled, the sources accumulate; text, key  *)
(* and scores stay.                                                        *)
MergeDocs(base, other) ==
    [ident |-> [i \in 1..4 |-> IF i < 4 THEN Fill(base.ident[i], other.ident[i]) ELSE base.ident[i]],
     summary |-> Fill(base.summary, other.summary), age |-> Fill(base.age, other.age),
     sources |-> base.sources \cup other.sources,
     text |-> base.text, key |-> base.key, fused |-> base.fused, fresh |-> base.fresh]

(* The share of the document at a rank, counted from 0: 1 / (k + rank + 1).*)
Contrib(rank) == Unit \div (K + rank + 1)

(* A document that is new to the map, under its key.                       *)
Enter(doc, rank) ==
    [ident |-> doc.ident, summary |-> doc.summary, age |-> doc.age, sources |-> doc.sources,
     text |-> doc.text, key |-> IdentityKey(doc), fused |-> Contrib(rank), fresh |-> 0]

WithScores(d, fused, fresh) ==
    [ident |-> d.ident, summary |-> d.summary, age |-> d.age, sources |-> d.sources,
     text |-> d.text, key |-> d.key, fused |-> fused, fresh |-> fresh]

AddShare(d, rank) == WithScores(d, d.fused + Contrib(rank), d.fresh)

(* Mutants of FuseDoc: only the last document is compared; the share of    *)
(* the document that is merged is lost.                                    *)
FuseAdjacent(doc, rank) ==
    IF docs # <<>> /\ docs[Len(docs)].key = IdentityKey(doc)
    THEN [docs EXCEPT ![Len(docs)] = MergeDocs(AddShare(@, rank), doc)]
    ELSE Append(docs, Enter(doc, rank))
FuseFirstOnly(doc, rank) ==
    LET same == {i \in DOMAIN docs : docs[i].key = IdentityKey(doc)} IN
    IF same # {}
    THEN [i \in DOMAIN docs |-> IF i \in same THEN MergeDocs(docs[i], doc) ELSE docs[i]]
    ELSE Append(docs, Enter(doc, rank))

(* The loop body of fuse: a key stands for one document of the map.        *)
FuseDoc(doc, rank) ==
    LET same == {i \in DOMAIN docs : docs[i].key = IdentityKey(doc)} IN
    IF same # {}
    THEN [i \in DOMAIN docs |->
            IF i \in same THEN MergeDocs(AddShare(docs[i], rank), doc) ELSE docs[i]]
    ELSE Append(docs, Enter(doc, rank))

(* freshness_score, in tenths.                                             *)
FreshnessScore(age) ==
    CASE age = Missing -> 0
      [] age # Missing /\ age <= 0 -> 10
      [] age # Missing /\ age \in 1..3 -> 8
      [] age # Missing /\ age \in 4..7 -> 6
      [] age # Missing /\ age \in 8..30 -> 3
      [] OTHER -> 1

WithSignals(d) == WithScores(d, d.fused, FreshnessScore(d.age))

(* The order of sort_by: fused, freshness, then the date, latest first; a  *)
(* date that is missing comes last.                                        *)
Later(a, b) == a # Missing /\ (b = Missing \/ a < b)

Before(d, e) ==
    \/ d.fused > e.fused
    \/ d.fused = e.fused /\ d.fresh > e.fresh
    \/ d.fused = e.fused /\ d.fresh = e.fresh /\ Later(d.age, e.age)

(* sort_by is stable.                                                      *)
SortOrder(list) ==
    {e \in (DOMAIN list) \X (DOMAIN list) :
        \/ Before(list[e[1]], list[e[2]])
        \/ ~Before(list[e[2]], list[e[1]]) /\ e[1] < e[2]}

StableSort(list) ==
    LET perm == InOrder(DOMAIN list, SortOrder(list)) IN [n \in DOMAIN list |-> list[perm[n]]]

-----------------------------------------------------------------------------
(* minhash_sig of a document: bands of rows; and sig_similarity.           *)
Sig(d) == Signature[d.text, d.summary]

Agree(a, b) == {e \in (1..Bands) \X (1..Rows) : a[e[1]][e[2]] = b[e[1]][e[2]]}

Similar(d, e) == Cardinality(Agree(Sig(d), Sig(e))) >= Threshold

(* The LSH buckets: the indices whose signatures agree in a band.  A       *)
(* bucket of one index has no pair to compare and is left out.             *)
Bucket(list, n, i) == {j \in DOMAIN list : Sig(list[j])[n] = Sig(list[i])[n]}

Buckets(list) ==
    {e \in {<<n, Bucket(list, n, i)>> : n \in 1..Bands, i \in DOMAIN list} :
        \E i, j \in e[2] : i # j}

(* UnionFind: the path from x to the root of its tree is the least set     *)
(* that has x and the parent of each member; find compresses it; union.    *)
PathUp(p, x) ==
    {y \in DOMAIN p :
        \A C \in SUBSET DOMAIN p : x \in C /\ (\A z \in C : p[z] \in C) => y \in C}

Root(p, x) == CHOOSE r \in PathUp(p, x) : p[r] = r

Compress(p, x) == [y \in DOMAIN p |-> IF y \in PathUp(p, x) THEN Root(p, x) ELSE p[y]]

Union(p, x, y) == [p EXCEPT ![Root(p, x)] = Root(p, y)]

UnionPair(p, x, y) ==
    LET q == Compress(Compress(p, x), y) IN
    IF Root(q, x) # Root(q, y) /\ Similar(ranked[x], ranked[y])
    THEN Union(q, x, y)
    ELSE q

(* Mutant of BaseOf: the root of the group.                                *)
BaseIsRoot(p, i) == Root(p, i)

(* base_of: the first index of the group.                                  *)
BaseOf(p, i) == Min({j \in DOMAIN p : Root(p, j) = Root(p, i)})

(* passes_date_filter; a document without a date passes.                   *)
PassesDateFilter(d) ==
    d.age # Missing =>
        /\ query.recency # Missing => d.age <= query.recency
        /\ query.from # Missing => d.age <= query.from
        /\ query.to # Missing => d.age >= query.to

Truncate(list) == SubSeq(list, 1, Min({query.limit, Len(list)}))

-----------------------------------------------------------------------------
(* buffer_unordered yields the outcomes as they come; a source that failed *)
(* counts as one without documents.                                        *)
Collect(s) ==
    /\ phase = "collect" /\ \A i \in DOMAIN arrived : arrived[i] # s
    /\ arrived' = Append(arrived, s)
    /\ UNCHANGED <<query, answer, phase, todo, docs, ranked, parent, buckets, slots, merged, output>>

(* fuse visits list after list and rank after rank.                        *)
StartFuse ==
    /\ phase = "collect" /\ Len(arrived) = Cardinality(Sources)
    /\ todo' = {e \in (DOMAIN arrived) \X (1..MaxRank) : e[2] \in DOMAIN answer[arrived[e[1]]]}
    /\ phase' = "fuse"
    /\ UNCHANGED <<query, answer, arrived, docs, ranked, parent, buckets, slots, merged, output>>

FuseNext(e) ==
    /\ phase = "fuse" /\ IsNext(e)
    /\ docs' = FuseDoc(answer[arrived[e[1]]][e[2]], e[2] - 1)
    /\ todo' = todo \ {e}
    /\ UNCHANGED <<query, answer, arrived, phase, ranked, parent, buckets, slots, merged, output>>

(* The end of fuse, and the signatures and buckets of near_dedup.          *)
Rank ==
    /\ phase = "fuse" /\ todo = {}
    /\ ranked' = StableSort([i \in DOMAIN docs |-> WithSignals(docs[i])])
    /\ parent' = [i \in DOMAIN ranked' |-> i]
    /\ buckets' = Buckets(ranked')
    /\ phase' = "union"
    /\ UNCHANGED <<query, answer, arrived, todo, docs, slots, merged, output>>

(* One bucket of buckets.values(), in any order, and its pairs.            *)
Visit(b) ==
    /\ phase = "union" /\ todo = {} /\ b \in buckets
    /\ todo' = Ascending(b[2])
    /\ buckets' = buckets \ {b}
    /\ UNCHANGED <<query, answer, arrived, phase, docs, ranked, parent, slots, merged, output>>

Compare(e) ==
    /\ phase = "union" /\ IsNext(e)
    /\ parent' = UnionPair(parent, e[1], e[2])
    /\ todo' = todo \ {e}
    /\ UNCHANGED <<query, answer, arrived, phase, docs, ranked, buckets, slots, merged, output>>

(* The documents that are not the base of their group, with their base.    *)
StartMerge ==
    /\ phase = "union" /\ todo = {} /\ buckets = {}
    /\ slots' = ranked
    /\ todo' = {e \in (DOMAIN ranked) \X (DOMAIN ranked) : e[2] = BaseOf(parent, e[1]) /\ e[1] # e[2]}
    /\ phase' = "merge"
    /\ UNCHANGED <<query, answer, arrived, docs, ranked, parent, buckets, merged, output>>

MergeNext(e) ==
    /\ phase = "merge" /\ IsNext(e)
    /\ slots' = [i \in DOMAIN slots \ {e[1]} |->
                    IF i = e[2] THEN MergeDocs(slots[i], slots[e[1]]) ELSE slots[i]]
    /\ todo' = todo \ {e}
    /\ UNCHANGED <<query, answer, arrived, phase, docs, ranked, parent, buckets, merged, output>>

(* What is left of the slots, then retain and truncate.                    *)
Deliver ==
    /\ phase = "merge" /\ todo = {}
    /\ merged' = LET kept == InOrder(DOMAIN slots, Ascending(DOMAIN slots))
                 IN  [n \in DOMAIN kept |-> slots[kept[n]]]
    /\ output' = Truncate(SelectSeq(merged', PassesDateFilter))
    /\ phase' = "done"
    /\ UNCHANGED <<query, answer, arrived, todo, docs, ranked, parent, buckets, slots>>

Finished == phase = "done" /\ UNCHANGED fusionVars

FusionNext ==
    \/ \E s \in Sources : Collect(s)
    \/ StartFuse
    \/ \E e \in todo : FuseNext(e)
    \/ Rank
    \/ \E b \in buckets : Visit(b)
    \/ \E e \in todo : Compare(e)
    \/ StartMerge
    \/ \E e \in todo : MergeNext(e)
    \/ Deliver
    \/ Finished

FusionSpec == FusionInit /\ [][FusionNext]_fusionVars

-----------------------------------------------------------------------------
(* What the answers a hold: the finds, by source and rank, and those of a  *)
(* key.                                                                    *)
Found(a) == {f \in Sources \X (1..MaxRank) : f[2] \in DOMAIN a[f[1]]}
DocOf(a, f) == a[f[1]][f[2]]
FoundAs(a, key) == {f \in Found(a) : IdentityKey(DocOf(a, f)) = key}

ReciprocalRanks(finds) == MapThenSumSet(LAMBDA f : Contrib(f[2] - 1), finds)

(* README.md:324: "when the same document appears in multiple sources, its *)
(* rank contributions add up": every identity that was found is ranked     *)
(* once, with the sum of 1 / (k + rank) over all its finds, in whatever    *)
(* order the sources answered and whatever was merged into it.             *)
FusedIsRRF ==
    phase \in {"union", "merge", "done"} =>
        /\ {IdentityKey(ranked[i]) : i \in DOMAIN ranked}
             = {IdentityKey(DocOf(answer, f)) : f \in Found(answer)}
        /\ \A i, j \in DOMAIN ranked : IdentityKey(ranked[i]) = IdentityKey(ranked[j]) => i = j
        /\ \A i \in DOMAIN ranked :
            ranked[i].fused = ReciprocalRanks(FoundAs(answer, IdentityKey(ranked[i])))

(* The graph of near_dedup: similar documents that share a band.  The      *)
(* component of i is the least set that has i and all that is linked to it.*)
Linked(list, i, j) ==
    /\ Similar(list[i], list[j])
    /\ \E n \in 1..Bands : Sig(list[i])[n] = Sig(list[j])[n]

Component(list, i) ==
    {j \in DOMAIN list :
        \A C \in SUBSET DOMAIN list :
            i \in C /\ (\A k \in C : \A l \in DOMAIN list : Linked(list, k, l) => l \in C) => j \in C}

(* dedup.rs:76: near_dedup keeps the document "of the higher rank (the     *)
(* smaller index) as the base": the groups are the connected components of *)
(* the similarity graph, whatever the order of the buckets, each stands at *)
(* the place of its first document with that one's score, and its sources  *)
(* are all the sources that found any document of the group.               *)
GroupsAreComponents ==
    phase = "done" =>
        LET firsts == {i \in DOMAIN ranked : i = Min(Component(ranked, i))}
        IN  /\ Len(merged) = Cardinality(firsts)
            /\ \A i \in firsts :
                LET d == merged[Cardinality({j \in firsts : j <= i})]
                    keys == {IdentityKey(ranked[j]) : j \in Component(ranked, i)}
                    finds == {f \in Found(answer) : IdentityKey(DocOf(answer, f)) \in keys}
                IN  /\ d.fused = ranked[i].fused
                    /\ d.sources = UNION {DocOf(answer, f).sources : f \in finds}

(* README.md:315: documents are merged by their identity: no two documents *)
(* of a report have the same one, also after near duplicates with other    *)
(* identifiers were merged into them.                                      *)
UniqueIdentity ==
    \A i, j \in DOMAIN merged : IdentityKey(merged[i]) = IdentityKey(merged[j]) => i = j
=============================================================================
