-------------------------- MODULE RankFusionProofs --------------------------
(***************************************************************************)
(* Proofs about RankFusion, for any sources, answers, signatures and       *)
(* constants, any order of the answers and any order of the buckets: the   *)
(* scores are reciprocal rank fusion, the groups of near duplicates are    *)
(* the connected components of the similarity graph, and no two documents  *)
(* of a report have the same identity.                                     *)
(***************************************************************************)
EXTENDS RankFusion, DataInduction, FunctionTheorems, TLAPS

(* The finds that fuse has visited: those that are not left to be visited. *)
Seen(a, arr, left) ==
    {f \in Found(a) : \A l \in DOMAIN arr : arr[l] = f[1] => <<l, f[2]>> \notin left}

Share == [f \in Sources \X (1..MaxRank) |-> Contrib(f[2] - 1)]

(* A document d stands for the finds of S that have its identity.          *)
OfKey(a, key, S) == {f \in S : IdentityKey(DocOf(a, f)) = key}

Dated(d) == d.age # Missing => d.age \in Int

Stands(a, d, S) ==
    /\ d.ident[4] # Missing /\ Dated(d)
    /\ d.fused = SumOf(Share, OfKey(a, IdentityKey(d), S))
    /\ d.sources = UNION {DocOf(a, f).sources : f \in OfKey(a, IdentityKey(d), S)}

(* A list has one document for every identity of the finds S.              *)
Collects(a, list, S) ==
    /\ list \in Seq({list[i] : i \in DOMAIN list})
    /\ \A i, j \in DOMAIN list : IdentityKey(list[i]) = IdentityKey(list[j]) => i = j
    /\ {IdentityKey(list[i]) : i \in DOMAIN list} = {IdentityKey(DocOf(a, f)) : f \in S}
    /\ \A i \in DOMAIN list : Stands(a, list[i], S)

AnswerInv == \A s \in Sources : answer[s] \in Answers[s]

ArrivedInv ==
    /\ arrived \in Seq(Sources)
    /\ \A k, l \in DOMAIN arrived : arrived[k] = arrived[l] => k = l

FuseInv ==
    /\ \A s \in Sources : \E l \in DOMAIN arrived : arrived[l] = s
    /\ todo \subseteq {e \in (DOMAIN arrived) \X (1..MaxRank) : e[2] \in DOMAIN answer[arrived[e[1]]]}
    /\ Collects(answer, docs, Seen(answer, arrived, todo))
    /\ \A i \in DOMAIN docs : docs[i].key = IdentityKey(docs[i])

(* Every path of a forest ends in a root.                                  *)
Forest(p, D) ==
    /\ p \in [D -> D]
    /\ \A S \in SUBSET D : S # {} => \E x \in S : p[x] = x \/ p[x] \notin S

ShareBand(list, i, j) == \E n \in 1..Bands : Sig(list[i])[n] = Sig(list[j])[n]

(* Trees lie within components, and the documents that are linked are in   *)
(* one tree or are still to be compared.                                   *)
UnionInv ==
    /\ Forest(parent, DOMAIN ranked)
    /\ todo \subseteq Ascending(DOMAIN ranked)
    /\ \A e \in todo : ShareBand(ranked, e[1], e[2])
    /\ \A b \in buckets : b[2] \subseteq DOMAIN ranked /\ \A i, j \in b[2] : ShareBand(ranked, i, j)
    /\ \A i, j \in DOMAIN ranked : Root(parent, i) = Root(parent, j) => j \in Component(ranked, i)
    /\ \A i, j \in DOMAIN ranked : Linked(ranked, i, j) /\ i < j =>
          \/ Root(parent, i) = Root(parent, j)
          \/ <<i, j>> \in todo
          \/ \E b \in buckets : i \in b[2] /\ j \in b[2]

(* The trees are the components.                                           *)
Partition ==
    \A i, j \in DOMAIN ranked : Root(parent, i) = Root(parent, j) <=> j \in Component(ranked, i)

(* What a base has absorbed.                                               *)
Absorbed(p, left, b) == {j \in DOMAIN p : BaseOf(p, j) = b /\ <<j, b>> \notin left}

Merges(list, d, b, A) ==
    /\ d.ident[4] # Missing
    /\ d.fused = list[b].fused
    /\ d.sources = UNION {list[j].sources : j \in A}
    /\ \E j \in A : IdentityKey(d) = IdentityKey(list[j])

MergeInv ==
    /\ DOMAIN parent = DOMAIN ranked
    /\ todo \subseteq {e \in (DOMAIN ranked) \X (DOMAIN ranked) : e[2] = BaseOf(parent, e[1]) /\ e[1] # e[2]}
    /\ DOMAIN slots = {i \in DOMAIN ranked : BaseOf(parent, i) = i \/ <<i, BaseOf(parent, i)>> \in todo}
    /\ \A i \in DOMAIN slots : BaseOf(parent, i) # i => slots[i] = ranked[i]
    /\ \A b \in DOMAIN slots : BaseOf(parent, b) = b => Merges(ranked, slots[b], b, Absorbed(parent, todo, b))

DoneInv ==
    /\ todo = {}
    /\ merged = [n \in 1..Cardinality(DOMAIN slots) |-> slots[InOrder(DOMAIN slots, Ascending(DOMAIN slots))[n]]]

Inv ==
    /\ AnswerInv /\ ArrivedInv
    /\ phase \in {"collect", "fuse", "union", "merge", "done"}
    /\ phase = "collect" => todo = {} /\ docs = <<>>
    /\ phase = "fuse" => FuseInv
    /\ phase \in {"union", "merge", "done"} => Collects(answer, ranked, Found(answer))
    /\ phase = "union" => UnionInv
    /\ phase \in {"merge", "done"} => Partition /\ MergeInv
    /\ phase = "done" => DoneInv
    /\ phase # "done" => merged = <<>>

-----------------------------------------------------------------------------
(* A strict total order gives every element of a finite set its own place, *)
(* and every place an element: InOrder lists the set.                      *)
Orders(R, S) ==
    /\ \A x \in S : <<x, x>> \notin R
    /\ \A x, y, z \in S : <<x, y>> \in R /\ <<y, z>> \in R => <<x, z>> \in R
    /\ \A x, y \in S : x # y => <<x, y>> \in R \/ <<y, x>> \in R

LEMMA Places ==
    ASSUME NEW S, IsFiniteSet(S), NEW R, Orders(R, S)
    PROVE  /\ Cardinality(S) \in Nat
           /\ \A x \in S : Place(S, R, x) \in 0..(Cardinality(S) - 1)
           /\ \A x, y \in S : Place(S, R, x) = Place(S, R, y) => x = y
<1> DEFINE B(x) == {y \in S : <<y, x>> \in R}
<1>1. \A x \in S : B(x) \in SUBSET S /\ x \notin B(x)
    BY DEF Orders
<1>2. Cardinality(S) \in Nat
    BY FS_CardinalityType
<1>3. ASSUME NEW x \in S
      PROVE  IsFiniteSet(B(x)) /\ Cardinality(B(x)) \in Nat /\ Cardinality(B(x)) < Cardinality(S)
    <2>1. B(x) \in SUBSET S /\ B(x) # S
        BY <1>1
    <2> HIDE DEF B
    <2>2. IsFiniteSet(B(x)) /\ Cardinality(B(x)) <= Cardinality(S) /\ Cardinality(B(x)) # Cardinality(S)
        BY <2>1, FS_Subset
    <2>3. Cardinality(B(x)) \in Nat
        BY <2>2, FS_CardinalityType
    <2> QED BY <1>2, <2>2, <2>3
<1>4. ASSUME NEW x \in S, NEW y \in S, <<x, y>> \in R
      PROVE  Cardinality(B(x)) # Cardinality(B(y))
    <2>1. B(x) \in SUBSET B(y) /\ x \in B(y) /\ x \notin B(x)
        BY <1>4 DEF Orders
    <2> HIDE DEF B
    <2> QED BY <1>3, <2>1, FS_Subset
<1>5. \A x \in S : Place(S, R, x) = Cardinality(B(x))
    BY DEF Place
<1>6. \A x, y \in S : Cardinality(B(x)) = Cardinality(B(y)) => x = y
    <2> HIDE DEF B
    <2> QED BY <1>4 DEF Orders
<1> HIDE DEF B
<1> QED BY <1>2, <1>3, <1>5, <1>6

LEMMA Listing ==
    ASSUME NEW S, IsFiniteSet(S), NEW R, Orders(R, S)
    PROVE  /\ DOMAIN InOrder(S, R) = 1..Cardinality(S)
           /\ \A n \in 1..Cardinality(S) : InOrder(S, R)[n] \in S /\ Place(S, R, InOrder(S, R)[n]) = n - 1
           /\ \A x \in S : /\ Place(S, R, x) + 1 \in 1..Cardinality(S)
                           /\ InOrder(S, R)[Place(S, R, x) + 1] = x
<1> DEFINE c == Cardinality(S)
           f == [x \in S |-> Place(S, R, x) + 1]
<1>1. /\ c \in Nat /\ \A x \in S : Place(S, R, x) \in 0..(c - 1)
      /\ \A x, y \in S : Place(S, R, x) = Place(S, R, y) => x = y
    BY Places
<1>2. IsFiniteSet(1..c) /\ Cardinality(1..c) = c
    BY <1>1, FS_Interval
<1>3. f \in Injection(S, 1..c)
    <2>1. f \in [S -> 1..c]
        <3> HIDE DEF c
        <3> QED BY <1>1
    <2>2. \A x, y \in S : f[x] = f[y] => x = y
        <3> HIDE DEF c
        <3> QED BY <1>1
    <2> HIDE DEF f, c
    <2> QED BY <2>1, <2>2, Fun_IsInj
<1>4. f \in Surjection(S, 1..c)
    <2> HIDE DEF f
    <2> QED BY <1>2, <1>3, FS_Injection
<1>5. \A n \in 1..c : \E x \in S : f[x] = n
    <2> HIDE DEF f, c
    <2> QED BY <1>4 DEF Surjection
<1>6. \A n \in 1..c : \E x \in S : Place(S, R, x) = n - 1
    <2> HIDE DEF c
    <2> TAKE n \in 1..c
    <2>1. PICK x \in S : f[x] = n
        BY <1>5
    <2>2. Place(S, R, x) \in Int /\ n \in Int /\ Place(S, R, x) + 1 = n
        BY <1>1, <2>1
    <2> QED BY <2>2
<1>7. InOrder(S, R) = [n \in 1..c |-> CHOOSE x \in S : Place(S, R, x) = n - 1]
    BY DEF InOrder
<1>8. ASSUME NEW n \in 1..c
      PROVE  InOrder(S, R)[n] \in S /\ Place(S, R, InOrder(S, R)[n]) = n - 1
    <2> HIDE DEF c
    <2> QED BY <1>6, <1>7
<1>9. ASSUME NEW x \in S PROVE Place(S, R, x) + 1 \in 1..c /\ InOrder(S, R)[Place(S, R, x) + 1] = x
    <2> HIDE DEF c
    <2>1. Place(S, R, x) + 1 \in 1..c
        BY <1>1
    <2>2. Place(S, R, InOrder(S, R)[Place(S, R, x) + 1]) = Place(S, R, x)
        BY <1>1, <1>8, <2>1
    <2> QED BY <1>1, <1>8, <2>1, <2>2
<1> HIDE DEF c
<1>10. DOMAIN InOrder(S, R) = 1..c
    BY <1>7
<1> QED BY <1>8, <1>9, <1>10 DEF c

(* The ascending order of naturals; the place of i counts those below it.  *)
LEMMA AscendingOrders == ASSUME NEW S \in SUBSET Nat PROVE Orders(Ascending(S), S)
BY DEF Orders, Ascending

-----------------------------------------------------------------------------
(* identity_key finds the first identifier that is there; the key of a     *)
(* merged document is the key of one of the two.                           *)
Kind(d, i) == i \in 1..4 /\ d.ident[i] # Missing /\ \A j \in 1..(i - 1) : d.ident[j] = Missing

LEMMA KeyIs ==
    ASSUME NEW d, d.ident[4] # Missing
    PROVE  \E i \in 1..4 : Kind(d, i) /\ IdentityKey(d) = <<i, d.ident[i]>>
<1>1. \E i \in 1..4 : d.ident[i] # Missing /\ \A j \in 1..(i - 1) : d.ident[j] = Missing
    <2>1. CASE d.ident[1] # Missing
        BY <2>1
    <2>2. CASE d.ident[1] = Missing /\ d.ident[2] # Missing
        BY <2>2
    <2>3. CASE d.ident[1] = Missing /\ d.ident[2] = Missing /\ d.ident[3] # Missing
        BY <2>3
    <2>4. CASE d.ident[1] = Missing /\ d.ident[2] = Missing /\ d.ident[3] = Missing
        BY <2>4
    <2> QED BY <2>1, <2>2, <2>3, <2>4
<1> DEFINE c == CHOOSE i \in 1..4 : d.ident[i] # Missing /\ \A j \in 1..(i - 1) : d.ident[j] = Missing
<1>2. c \in 1..4 /\ d.ident[c] # Missing /\ \A j \in 1..(c - 1) : d.ident[j] = Missing
    BY <1>1
<1>3. IdentityKey(d) = <<c, d.ident[c]>>
    BY DEF IdentityKey
<1> HIDE DEF c
<1> QED BY <1>2, <1>3 DEF Kind

LEMMA KindIsOne ==
    ASSUME NEW d, NEW i, NEW j, Kind(d, i), Kind(d, j)
    PROVE  i = j
BY DEF Kind

LEMMA SameKey ==
    ASSUME NEW d, NEW i, Kind(d, i), d.ident[4] # Missing
    PROVE  IdentityKey(d) = <<i, d.ident[i]>>
BY KeyIs, KindIsOne

LEMMA MergedKey ==
    ASSUME NEW a, NEW b, a.ident[4] # Missing, b.ident[4] # Missing
    PROVE  /\ MergeDocs(a, b).ident[4] # Missing
           /\ IdentityKey(MergeDocs(a, b)) \in {IdentityKey(a), IdentityKey(b)}
<1> DEFINE m == MergeDocs(a, b)
<1>1. \A i \in 1..3 : m.ident[i] = IF a.ident[i] = Missing THEN b.ident[i] ELSE a.ident[i]
    BY DEF MergeDocs, Fill
<1>2. m.ident[4] = a.ident[4]
    BY DEF MergeDocs
<1>3. PICK i \in 1..4 : Kind(a, i) /\ IdentityKey(a) = <<i, a.ident[i]>>
    BY KeyIs
<1>4. PICK j \in 1..4 : Kind(b, j) /\ IdentityKey(b) = <<j, b.ident[j]>>
    BY KeyIs
<1> HIDE DEF m
<1>5. CASE i <= j
    <2>1. m.ident[i] = a.ident[i]
        BY <1>1, <1>2, <1>3 DEF Kind
    <2>2. \A k \in 1..(i - 1) : m.ident[k] = Missing
        BY <1>1, <1>3, <1>4, <1>5 DEF Kind
    <2>3. Kind(m, i)
        BY <1>3, <2>1, <2>2 DEF Kind
    <2>4. IdentityKey(m) = IdentityKey(a)
        BY <1>2, <1>3, <2>1, <2>3, SameKey
    <2> QED BY <1>2, <2>4 DEF m
<1>6. CASE j < i
    <2>1. j \in 1..3 /\ a.ident[j] = Missing
        BY <1>3, <1>6 DEF Kind
    <2>2. m.ident[j] = b.ident[j]
        BY <1>1, <2>1
    <2>3. \A k \in 1..(j - 1) : m.ident[k] = Missing
        BY <1>1, <1>3, <1>4, <1>6 DEF Kind
    <2>4. Kind(m, j)
        BY <1>4, <2>2, <2>3 DEF Kind
    <2>5. IdentityKey(m) = IdentityKey(b)
        BY <1>2, <1>4, <2>2, <2>4, SameKey
    <2> QED BY <1>2, <2>5 DEF m
<1> QED BY <1>3, <1>4, <1>5, <1>6

-----------------------------------------------------------------------------
(* The path from x is a set with x that has the parent of each member, and *)
(* lies within every such set.                                             *)
LEMMA PathIs ==
    ASSUME NEW D, NEW p \in [D -> D], NEW x \in D
    PROVE  /\ PathUp(p, x) \in SUBSET D /\ x \in PathUp(p, x)
           /\ \A z \in PathUp(p, x) : p[z] \in PathUp(p, x)
           /\ \A C \in SUBSET D : x \in C /\ (\A z \in C : p[z] \in C) => PathUp(p, x) \subseteq C
<1>1. DOMAIN p = D
    OBVIOUS
<1>2. PathUp(p, x) = {y \in D : \A C \in SUBSET D : x \in C /\ (\A z \in C : p[z] \in C) => y \in C}
    BY <1>1 DEF PathUp
<1>3. \A z \in PathUp(p, x) : p[z] \in PathUp(p, x)
    <2> TAKE z \in PathUp(p, x)
    <2>1. p[z] \in D
        BY <1>2
    <2>2. ASSUME NEW C \in SUBSET D, x \in C, \A y \in C : p[y] \in C PROVE p[z] \in C
        BY <1>2, <2>2
    <2> QED BY <1>2, <2>1, <2>2
<1> QED BY <1>2, <1>3

(* A labelling that is constant along the paths and gives a root itself    *)
(* gives the root of every element of a forest.                            *)
Labels(p, D, R) ==
    /\ \A z \in D : R[p[z]] = R[z]
    /\ \A z \in D : p[z] = z => R[z] = z

LEMMA RootIs ==
    ASSUME NEW D, NEW p, Forest(p, D), NEW x \in D
    PROVE  /\ Root(p, x) \in PathUp(p, x) /\ Root(p, x) \in D /\ p[Root(p, x)] = Root(p, x)
           /\ \A R : Labels(p, D, R) => /\ Root(p, x) = R[x]
                                        /\ \A y \in PathUp(p, x) : R[y] = R[x]
<1>1. p \in [D -> D]
    BY DEF Forest
<1>2. /\ PathUp(p, x) \in SUBSET D /\ x \in PathUp(p, x)
      /\ \A z \in PathUp(p, x) : p[z] \in PathUp(p, x)
      /\ \A C \in SUBSET D : x \in C /\ (\A z \in C : p[z] \in C) => PathUp(p, x) \subseteq C
    BY <1>1, PathIs
<1>3. \E r \in PathUp(p, x) : p[r] = r
    BY <1>2 DEF Forest
<1>4. Root(p, x) \in PathUp(p, x) /\ p[Root(p, x)] = Root(p, x)
    BY <1>3 DEF Root
<1>5. ASSUME NEW R, Labels(p, D, R)
      PROVE  Root(p, x) = R[x] /\ \A y \in PathUp(p, x) : R[y] = R[x]
    <2> DEFINE C == {z \in D : R[z] = R[x]}
    <2>1. C \in SUBSET D /\ x \in C /\ \A z \in C : p[z] \in C
        BY <1>1, <1>5 DEF Labels
    <2>2. PathUp(p, x) \subseteq C
        <3> HIDE DEF C
        <3> QED BY <1>2, <2>1
    <2> QED BY <1>2, <1>4, <1>5, <2>2 DEF Labels
<1> QED BY <1>2, <1>4, <1>5

(* The roots are such a labelling.                                         *)
Roots(p, D) == [z \in D |-> Root(p, z)]

LEMMA RootsLabel ==
    ASSUME NEW D, NEW p, Forest(p, D)
    PROVE  Labels(p, D, Roots(p, D))
<1>1. p \in [D -> D]
    BY DEF Forest
<1>2. ASSUME NEW z \in D, p[z] = z PROVE Root(p, z) = z
    <2>1. {z} \in SUBSET D /\ z \in {z} /\ \A y \in {z} : p[y] \in {z}
        BY <1>2
    <2>2. PathUp(p, z) \subseteq {z}
        BY <1>1, <2>1, PathIs
    <2> QED BY <2>2, RootIs
<1>3. ASSUME NEW z \in D PROVE Root(p, p[z]) = Root(p, z)
    <2> DEFINE u == p[z]
               C == {y \in D : y = z \/ y \in PathUp(p, u)}
    <2>1. u \in D
        BY <1>1
    <2> HIDE DEF u
    <2>2. /\ PathUp(p, u) \in SUBSET D /\ u \in PathUp(p, u)
          /\ \A y \in PathUp(p, u) : p[y] \in PathUp(p, u)
        BY <1>1, <2>1, PathIs
    <2>3. PathUp(p, z) \subseteq C
        <3>1. C \in SUBSET D /\ z \in C /\ \A y \in C : p[y] \in C
            BY <1>1, <2>2 DEF u
        <3> HIDE DEF C
        <3> QED BY <1>1, <3>1, PathIs
    <2>4. Root(p, z) \in PathUp(p, z) /\ p[Root(p, z)] = Root(p, z)
        BY RootIs
    <2>5. CASE Root(p, z) = z
        BY <2>4, <2>5 DEF u
    <2>6. CASE Root(p, z) # z
        <3> DEFINE s == Root(p, z)
                   E == {y \in D : s \in PathUp(p, y)}
        <3>1. s \in PathUp(p, u) /\ s \in D
            BY <2>2, <2>3, <2>4, <2>6
        <3>2. s \in PathUp(p, s)
            BY <1>1, <3>1, PathIs
        <3> HIDE DEF s
        <3>3. ASSUME NEW y \in E PROVE p[y] \in E
            <4>1. y \in D /\ p[y] \in D /\ s \in PathUp(p, y)
                BY <1>1, <3>3
            <4>2. CASE y = s
                BY <3>1, <3>2, <4>2, <2>4 DEF s
            <4>3. CASE y # s
                <5> DEFINE G == {v \in D : v = y \/ v \in PathUp(p, p[y])}
                <5>1. /\ PathUp(p, p[y]) \in SUBSET D /\ p[y] \in PathUp(p, p[y])
                      /\ \A v \in PathUp(p, p[y]) : p[v] \in PathUp(p, p[y])
                    BY <1>1, <4>1, PathIs
                <5>2. G \in SUBSET D /\ y \in G /\ \A v \in G : p[v] \in G
                    BY <1>1, <4>1, <5>1
                <5>3. PathUp(p, y) \subseteq G
                    <6> HIDE DEF G
                    <6> QED BY <1>1, <4>1, <5>2, PathIs
                <5> QED BY <4>1, <4>3, <5>3
            <4> QED BY <4>2, <4>3
        <3>4. E \in SUBSET D /\ u \in E
            BY <2>1, <3>1
        <3>5. PathUp(p, u) \subseteq E
            <4> HIDE DEF E
            <4> QED BY <1>1, <2>1, <3>3, <3>4, PathIs
        <3>6. Root(p, u) \in PathUp(p, u) /\ Root(p, u) \in D /\ p[Root(p, u)] = Root(p, u)
            BY <2>1, RootIs
        <3>7. s \in PathUp(p, Root(p, u))
            BY <3>5, <3>6
        <3>8. PathUp(p, Root(p, u)) \subseteq {Root(p, u)}
            <4> DEFINE w == Root(p, u)
            <4>1. w \in D /\ {w} \in SUBSET D /\ w \in {w} /\ \A y \in {w} : p[y] \in {w}
                BY <3>6
            <4> HIDE DEF w
            <4>2. PathUp(p, w) \subseteq {w}
                BY <1>1, <4>1, PathIs
            <4> QED BY <4>2 DEF w
        <3> QED BY <3>7, <3>8 DEF s, u
    <2> QED BY <2>5, <2>6
<1>4. \A z \in D : p[z] \in D
    BY <1>1
<1> QED BY <1>2, <1>3, <1>4 DEF Labels, Roots

(* find keeps the forest and its roots.                                    *)
LEMMA CompressKeeps ==
    ASSUME NEW D, NEW p, Forest(p, D), NEW x \in D
    PROVE  /\ Forest(Compress(p, x), D)
           /\ \A z \in D : Root(Compress(p, x), z) = Root(p, z)
<1> DEFINE q == Compress(p, x)
           r == Root(p, x)
           R == Roots(p, D)
<1>1. p \in [D -> D] /\ PathUp(p, x) \in SUBSET D
    BY PathIs DEF Forest
<1>2. r \in PathUp(p, x) /\ r \in D /\ p[r] = r
    BY RootIs
<1>3. Labels(p, D, R) /\ \A z \in D : R[z] = Root(p, z)
    BY RootsLabel DEF Roots
<1>4. \A y \in PathUp(p, x) : R[y] = r
    <2> HIDE DEF R, r
    <2> QED BY <1>3, RootIs DEF r
<1>5. q = [y \in D |-> IF y \in PathUp(p, x) THEN r ELSE p[y]]
    BY <1>1 DEF Compress
<1> HIDE DEF q, r, R
<1>6. q \in [D -> D] /\ q[r] = r
    BY <1>1, <1>2, <1>5
<1>7. ASSUME NEW S \in SUBSET D, S # {} PROVE \E y \in S : q[y] = y \/ q[y] \notin S
    <2>1. CASE r \in S
        BY <1>6, <2>1
    <2>2. CASE r \notin S /\ \E y \in S : y \in PathUp(p, x)
        BY <1>5, <2>2
    <2>3. CASE \A y \in S : y \notin PathUp(p, x)
        <3>1. PICK y \in S : p[y] = y \/ p[y] \notin S
            BY <1>7 DEF Forest
        <3> QED BY <1>5, <2>3, <3>1
    <2> QED BY <2>1, <2>2, <2>3
<1>8. Forest(q, D)
    BY <1>6, <1>7 DEF Forest
<1>9. Labels(q, D, R)
    <2>1. ASSUME NEW z \in D PROVE R[q[z]] = R[z]
        BY <1>1, <1>2, <1>3, <1>4, <1>5 DEF Labels
    <2>2. ASSUME NEW z \in D, q[z] = z PROVE R[z] = z
        BY <1>1, <1>2, <1>3, <1>4, <1>5, <2>2 DEF Labels
    <2> QED BY <2>1, <2>2 DEF Labels
<1>10. \A z \in D : Root(q, z) = R[z]
    BY <1>8, <1>9, RootIs
<1> QED BY <1>3, <1>8, <1>10 DEF q

(* union hangs the tree of x below the root of y.                          *)
LEMMA UnionKeeps ==
    ASSUME NEW D, NEW p, Forest(p, D), NEW x \in D, NEW y \in D, Root(p, x) # Root(p, y)
    PROVE  /\ Forest(Union(p, x, y), D)
           /\ \A z \in D : Root(Union(p, x, y), z) = IF Root(p, z) = Root(p, x) THEN Root(p, y) ELSE Root(p, z)
<1> DEFINE q == Union(p, x, y)
           a == Root(p, x)
           b == Root(p, y)
           R == Roots(p, D)
           L == [z \in D |-> IF R[z] = a THEN b ELSE R[z]]
<1>1. p \in [D -> D]
    BY DEF Forest
<1>2. a \in D /\ p[a] = a /\ b \in D /\ p[b] = b /\ a # b
    BY RootIs
<1>3. Labels(p, D, R) /\ \A z \in D : R[z] = Root(p, z)
    BY RootsLabel DEF Roots
<1>4. q = [p EXCEPT ![a] = b]
    BY DEF Union
<1> HIDE DEF q, a, b, R
<1>5. q \in [D -> D] /\ q[a] = b /\ \A z \in D : z # a => q[z] = p[z]
    BY <1>1, <1>2, <1>4
<1>6. Forest(q, D)
    <2>1. ASSUME NEW S \in SUBSET D, S # {} PROVE \E z \in S : q[z] = z \/ q[z] \notin S
        <3>1. PICK z \in S : p[z] = z \/ p[z] \notin S
            BY <2>1 DEF Forest
        <3>2. CASE z # a
            BY <1>5, <3>1, <3>2
        <3>3. CASE z = a /\ b \in S
            BY <1>2, <1>5, <3>3
        <3>4. CASE z = a /\ b \notin S
            BY <1>5, <3>4
        <3> QED BY <3>2, <3>3, <3>4
    <2> QED BY <1>5, <2>1 DEF Forest
<1>7. Labels(q, D, L)
    <2>1. R[a] = a /\ R[b] = b
        BY <1>2, <1>3 DEF Labels
    <2>2. ASSUME NEW z \in D PROVE L[q[z]] = L[z]
        <3>1. CASE z = a
            BY <1>2, <1>5, <2>1, <3>1
        <3>2. CASE z # a
            <4>1. q[z] = p[z] /\ p[z] \in D /\ R[p[z]] = R[z]
                BY <1>1, <1>3, <1>5, <3>2 DEF Labels
            <4> QED BY <4>1
        <3> QED BY <3>1, <3>2
    <2>3. ASSUME NEW z \in D, q[z] = z PROVE L[z] = z
        <3>1. z # a /\ p[z] = z
            BY <1>2, <1>5, <2>3
        <3>2. R[z] = z
            BY <1>3, <3>1 DEF Labels
        <3> QED BY <3>1, <3>2
    <2> HIDE DEF L
    <2> QED BY <2>2, <2>3 DEF Labels
<1>8. \A z \in D : Root(q, z) = L[z]
    <2> HIDE DEF L
    <2> QED BY <1>6, <1>7, RootIs
<1> QED BY <1>3, <1>6, <1>8 DEF q, a, b

(* One pair of near_dedup: the roots stay, or two similar documents are    *)
(* put into one tree.                                                      *)
Joined(p, D, x, y, q) ==
    \A z \in D : Root(q, z) = IF Root(p, z) = Root(p, x) THEN Root(p, y) ELSE Root(p, z)

LEMMA PairKeeps ==
    ASSUME NEW D, NEW p, Forest(p, D), NEW x \in D, NEW y \in D
    PROVE  /\ Forest(UnionPair(p, x, y), D)
           /\ \/ /\ Similar(ranked[x], ranked[y])
                 /\ Joined(p, D, x, y, UnionPair(p, x, y))
              \/ /\ Similar(ranked[x], ranked[y]) => Root(p, x) = Root(p, y)
                 /\ \A z \in D : Root(UnionPair(p, x, y), z) = Root(p, z)
<1> DEFINE q == Compress(Compress(p, x), y)
           S == Similar(ranked[x], ranked[y])
<1>1. Forest(q, D) /\ \A z \in D : Root(q, z) = Root(p, z)
    <2>1. Forest(Compress(p, x), D) /\ \A z \in D : Root(Compress(p, x), z) = Root(p, z)
        BY CompressKeeps
    <2> QED BY <2>1, CompressKeeps
<1>2. UnionPair(p, x, y) = IF Root(q, x) # Root(q, y) /\ S THEN Union(q, x, y) ELSE q
    BY DEF UnionPair
<1> HIDE DEF q, S
<1>3. CASE Root(q, x) # Root(q, y) /\ S
    <2>1. UnionPair(p, x, y) = Union(q, x, y)
        BY <1>2, <1>3
    <2>2. /\ Forest(Union(q, x, y), D)
          /\ \A z \in D : Root(Union(q, x, y), z) = IF Root(q, z) = Root(q, x) THEN Root(q, y) ELSE Root(q, z)
        BY <1>1, <1>3, UnionKeeps
    <2> QED BY <1>1, <1>3, <2>1, <2>2 DEF Joined, S
<1>4. CASE ~(Root(q, x) # Root(q, y) /\ S)
    <2>1. UnionPair(p, x, y) = q
        BY <1>2, <1>4
    <2> QED BY <1>1, <1>4, <2>1 DEF S
<1> QED BY <1>3, <1>4

-----------------------------------------------------------------------------
(* Similar documents that share a band are linked in both directions, so   *)
(* the components are the classes of an equivalence.                       *)
LEMMA LinkedBothWays ==
    ASSUME NEW list, NEW i, NEW j, Linked(list, i, j)
    PROVE  Linked(list, j, i)
<1>1. \A a, b : Agree(a, b) = Agree(b, a)
    BY DEF Agree
<1> QED BY <1>1 DEF Linked, Similar

LEMMA ComponentIs ==
    ASSUME NEW list, NEW i \in DOMAIN list
    PROVE  /\ Component(list, i) \in SUBSET DOMAIN list /\ i \in Component(list, i)
           /\ \A k \in Component(list, i) : \A l \in DOMAIN list :
                 Linked(list, k, l) => l \in Component(list, i)
           /\ \A C \in SUBSET DOMAIN list :
                 i \in C /\ (\A k \in C : \A l \in DOMAIN list : Linked(list, k, l) => l \in C)
                    => Component(list, i) \subseteq C
<1> DEFINE D == DOMAIN list
           Closed(C) == \A k \in C : \A l \in D : Linked(list, k, l) => l \in C
<1>1. Component(list, i) = {j \in D : \A C \in SUBSET D : i \in C /\ Closed(C) => j \in C}
    BY DEF Component
<1>2. ASSUME NEW k \in Component(list, i), NEW l \in D, Linked(list, k, l) PROVE l \in Component(list, i)
    <2>1. ASSUME NEW C \in SUBSET D, i \in C, Closed(C) PROVE l \in C
        BY <1>1, <1>2, <2>1
    <2> HIDE DEF D, Closed
    <2> QED BY <1>1, <2>1
<1> QED BY <1>1, <1>2

LEMMA ComponentStep ==
    ASSUME NEW list, NEW i \in DOMAIN list, NEW j \in Component(list, i)
    PROVE  j \in DOMAIN list /\ Component(list, j) \subseteq Component(list, i) /\ i \in Component(list, j)
<1> DEFINE D == DOMAIN list
<1>1. ASSUME NEW u \in D, NEW v \in Component(list, u)
      PROVE  v \in D /\ Component(list, v) \subseteq Component(list, u)
    <2>1. Component(list, u) \in SUBSET D /\ v \in D
        BY <1>1, ComponentIs
    <2>2. \A k \in Component(list, u) : \A l \in D : Linked(list, k, l) => l \in Component(list, u)
        BY <1>1, ComponentIs
    <2> QED BY <1>1, <2>1, <2>2, ComponentIs
<1> DEFINE C == {u \in D : i \in Component(list, u)}
<1>2. C \in SUBSET D /\ i \in C
    BY ComponentIs
<1>3. ASSUME NEW k \in C, NEW l \in D, Linked(list, k, l) PROVE l \in C
    <2>1. Linked(list, l, k)
        BY <1>3, LinkedBothWays
    <2>2. l \in Component(list, l) /\ k \in Component(list, l)
        BY <1>3, <2>1, ComponentIs
    <2>3. Component(list, k) \subseteq Component(list, l)
        BY <1>1, <2>2
    <2> QED BY <1>3, <2>3
<1>4. Component(list, i) \subseteq C
    <2> HIDE DEF C
    <2> QED BY <1>2, <1>3, ComponentIs
<1> QED BY <1>1, <1>4

(* Documents that share a band share a bucket, and only those.             *)
LEMMA BucketsAre ==
    ASSUME NEW list, NEW i \in DOMAIN list, NEW j \in DOMAIN list, i # j, ShareBand(list, i, j)
    PROVE  \E b \in Buckets(list) : i \in b[2] /\ j \in b[2]
<1>1. PICK n \in 1..Bands : Sig(list[i])[n] = Sig(list[j])[n]
    BY DEF ShareBand
<1> DEFINE b == <<n, Bucket(list, n, i)>>
<1>2. i \in b[2] /\ j \in b[2]
    BY <1>1 DEF Bucket
<1>3. b \in {<<m, Bucket(list, m, k)>> : m \in 1..Bands, k \in DOMAIN list}
    OBVIOUS
<1>4. b \in Buckets(list)
    <2> HIDE DEF b
    <2> QED BY <1>2, <1>3 DEF Buckets
<1> QED BY <1>2, <1>4

LEMMA BucketsShare ==
    ASSUME NEW list, NEW b \in Buckets(list)
    PROVE  b[2] \subseteq DOMAIN list /\ \A i, j \in b[2] : ShareBand(list, i, j)
<1>1. PICK n \in 1..Bands, k \in DOMAIN list : b = <<n, Bucket(list, n, k)>>
    BY DEF Buckets
<1>2. b[2] = Bucket(list, n, k)
    BY <1>1
<1> QED BY <1>2 DEF Bucket, ShareBand

-----------------------------------------------------------------------------
(* The finds are finitely many and have shares that are natural numbers.   *)
AllFinds == Sources \X (1..MaxRank)

LEMMA Shares ==
    ASSUME NEW S \in SUBSET AllFinds
    PROVE  /\ IsFiniteSet(S)
           /\ \A f \in AllFinds : Share[f] = Contrib(f[2] - 1) /\ Share[f] \in Nat
<1>1. IsFiniteSet(AllFinds)
    <2>1. IsFiniteSet(Sources) /\ MaxRank \in Int /\ 1 \in Int
        BY AnswersAssumption, FusionAssumption
    <2>2. IsFiniteSet(1..MaxRank)
        BY <2>1, FS_Interval
    <2> QED BY <2>1, <2>2, FS_Product DEF AllFinds
<1>2. ASSUME NEW f \in AllFinds PROVE Contrib(f[2] - 1) \in Nat
    <2>1. PICK n \in 1..MaxRank : f[2] = n
        BY DEF AllFinds
    <2>2. n \in Nat \ {0} /\ K + (n - 1) + 1 \in Nat \ {0} /\ Unit \in Nat
        BY FusionAssumption
    <2>3. \A d \in Nat \ {0} : Unit \div d \in Nat
        BY <2>2
    <2> QED BY <2>1, <2>2, <2>3 DEF Contrib
<1> QED BY <1>1, <1>2, FS_Subset DEF Share, AllFinds

LEMMA RanksAreSum ==
    ASSUME NEW S \in SUBSET AllFinds
    PROVE  ReciprocalRanks(S) = SumOf(Share, S)
<1> DEFINE C(f) == Contrib(f[2] - 1)
           N(T, F) == C(CHOOSE x \in T : TRUE) + F[T \ {CHOOSE x \in T : TRUE}]
           E(F) == [T \in SUBSET S |-> IF T = {} THEN 0 ELSE N(T, F)]
           W(F) == [T \in SUBSET S |->
                      IF T = {} THEN 0 ELSE Share[Taken(T)] + F[T \ {Taken(T)}]]
           I == CHOOSE F : F = E(F)
<1>1. IsFiniteSet(S)
    BY Shares
<1>2. ASSUME NEW F PROVE E(F) = W(F)
    <2>1. ASSUME NEW T \in SUBSET S, T # {}
          PROVE  N(T, F) = Share[Taken(T)] + F[T \ {Taken(T)}]
        <3>1. Taken(T) \in AllFinds
            BY <2>1, TakenIsIn
        <3>2. Share[Taken(T)] = C(Taken(T))
            BY <3>1, Shares
        <3>3. N(T, F) = C(Taken(T)) + F[T \ {Taken(T)}]
            BY Zenon DEF Taken
        <3> HIDE DEF N, C
        <3> QED BY <3>2, <3>3
    <2> HIDE DEF N
    <2> QED BY <2>1
<1>3. \E F : F = E(F)
    <2>1. PICK F : Sums(F, Share, S)
        BY <1>1, SumsExist
    <2>2. F = W(F)
        BY <2>1, Zenon DEF Sums
    <2>3. F = E(F)
        <3> HIDE DEF E, W
        <3> QED BY <1>2, <2>2
    <2> QED BY <2>3, Zenon
<1>4. I = E(I)
    <2> HIDE DEF E
    <2> QED BY <1>3, Zenon
<1>5. Sums(I, Share, S)
    <2>1. I = W(I)
        <3> HIDE DEF E, W, I
        <3> QED BY <1>2, <1>4
    <2> HIDE DEF I
    <2> QED BY <2>1, Zenon DEF Sums
<1>6. ReciprocalRanks(S) = I[S]
    BY Zenon DEF ReciprocalRanks, MapThenSumSet, MapThenFoldSet
<1>7. I[S] = SumOf(Share, S)
    <2>1. PICK T \in SUBSET S : T = S
        OBVIOUS
    <2>2. ASSUME NEW F, Sums(F, Share, S) PROVE F[T] = SumOf(Share, T)
        BY <1>1, <2>2, SumIs
    <2> HIDE DEF I
    <2> QED BY <1>5, <2>1, <2>2
<1> QED BY <1>6, <1>7

LEMMA ShareSums ==
    ASSUME NEW S \in SUBSET AllFinds
    PROVE  /\ SumOf(Share, {}) = 0 /\ SumOf(Share, S) \in Nat
           /\ \A f \in AllFinds \ S : SumOf(Share, S \cup {f}) = SumOf(Share, S) + Contrib(f[2] - 1)
<1>1. ASSUME NEW T \in SUBSET AllFinds
      PROVE  /\ SumOf(Share, {}) = 0 /\ SumOf(Share, T) \in Nat
             /\ \A f \in T : SumOf(Share, T) = Share[f] + SumOf(Share, T \ {f})
    <2>1. IsFiniteSet(T) /\ \A x \in T : Share[x] \in Nat
        BY Shares
    <2>2. \A x \in T : Share[x] \in Int
        BY <2>1
    <2>3. SumOf(Share, {}) = 0 /\ \A f \in T : SumOf(Share, T) = Share[f] + SumOf(Share, T \ {f})
        BY <2>1, <2>2, SumRules, ZenonT(30)
    <2>4. SumOf(Share, T) \in Nat
        BY <2>1, SumGrows, ZenonT(30)
    <2> QED BY <2>3, <2>4
<1>2. ASSUME NEW f \in AllFinds \ S
      PROVE  SumOf(Share, S \cup {f}) = SumOf(Share, S) + Contrib(f[2] - 1)
    <2>1. S \cup {f} \in SUBSET AllFinds /\ (S \cup {f}) \ {f} = S /\ f \in S \cup {f}
        OBVIOUS
    <2>2. Share[f] = Contrib(f[2] - 1) /\ Share[f] \in Nat
        BY Shares
    <2>3. SumOf(Share, S) \in Nat /\ SumOf(Share, S \cup {f}) = Share[f] + SumOf(Share, S)
        BY <1>1, <2>1
    <2> QED BY <2>2, <2>3
<1> QED BY <1>1, <1>2

(* What was found.                                                         *)
LEMMA Finds ==
    ASSUME AnswerInv
    PROVE  /\ Found(answer) \in SUBSET AllFinds
           /\ \A f \in Found(answer) : DocOf(answer, f).ident[4] # Missing /\ Dated(DocOf(answer, f))
<1>1. Found(answer) \in SUBSET AllFinds
    BY DEF Found, AllFinds
<1>2. ASSUME NEW f \in Found(answer)
      PROVE  DocOf(answer, f).ident[4] # Missing /\ Dated(DocOf(answer, f))
    <2>1. f[1] \in Sources /\ f[2] \in DOMAIN answer[f[1]]
        BY DEF Found
    <2>2. answer[f[1]] \in Answers[f[1]]
        BY <2>1 DEF AnswerInv
    <2> QED BY <2>1, <2>2, AnswersAssumption DEF DocOf, Dated
<1> QED BY <1>1, <1>2

LEMMA SameIdent ==
    ASSUME NEW d, NEW e, d.ident = e.ident
    PROVE  IdentityKey(d) = IdentityKey(e)
BY DEF IdentityKey

LEMMA SeqOfItself ==
    ASSUME NEW N \in Nat, NEW s, s = [i \in 1..N |-> s[i]]
    PROVE  s \in Seq({s[i] : i \in DOMAIN s})
<1> DEFINE V == {s[i] : i \in DOMAIN s}
<1>1. DOMAIN s = 1..N
    OBVIOUS
<1>2. s \in [1..N -> V]
    BY <1>1
<1> HIDE DEF V
<1>3. s \in Seq(V)
    BY <1>2
<1> QED BY <1>3 DEF V

-----------------------------------------------------------------------------
(* Fusing the document of a find adds that find to what the map collects:  *)
(* the key of a document in the map never changes, because what is merged  *)
(* into it has the same one.                                               *)
LEMMA FuseAdds ==
    ASSUME AnswerInv, NEW S \in SUBSET Found(answer), NEW f \in Found(answer), f \notin S,
           Collects(answer, docs, S), \A i \in DOMAIN docs : docs[i].key = IdentityKey(docs[i])
    PROVE  LET new == FuseDoc(DocOf(answer, f), f[2] - 1)
           IN  /\ Collects(answer, new, S \cup {f})
               /\ \A i \in DOMAIN new : new[i].key = IdentityKey(new[i])
<1> DEFINE doc == DocOf(answer, f)
           c == Contrib(f[2] - 1)
           new == FuseDoc(doc, f[2] - 1)
           same == {i \in DOMAIN docs : docs[i].key = IdentityKey(doc)}
           P(key, T) == OfKey(answer, key, T)
           Q(key, T) == UNION {DocOf(answer, g).sources : g \in P(key, T)}
           T == S \cup {f}
<1>1. /\ f \in AllFinds /\ S \in SUBSET AllFinds
      /\ doc.ident[4] # Missing /\ Dated(doc)
      /\ \A g \in T : DocOf(answer, g).ident[4] # Missing
    BY Finds
<1>2. /\ docs \in Seq({docs[i] : i \in DOMAIN docs})
      /\ \A i, j \in DOMAIN docs : IdentityKey(docs[i]) = IdentityKey(docs[j]) => i = j
      /\ {IdentityKey(docs[i]) : i \in DOMAIN docs} = {IdentityKey(DocOf(answer, g)) : g \in S}
      /\ \A i \in DOMAIN docs : Stands(answer, docs[i], S)
    BY DEF Collects
<1>3. \A key : P(key, S) \in SUBSET AllFinds /\ f \notin P(key, S)
    BY <1>1 DEF OfKey
<1>4. ASSUME NEW key, key = IdentityKey(doc)
      PROVE  /\ P(key, T) = P(key, S) \cup {f}
             /\ SumOf(Share, P(key, T)) = SumOf(Share, P(key, S)) + c
             /\ Q(key, T) = Q(key, S) \cup doc.sources
    <2>1. P(key, T) = P(key, S) \cup {f}
        BY <1>4 DEF OfKey
    <2>2. f \in AllFinds \ P(key, S) /\ P(key, S) \in SUBSET AllFinds
        BY <1>1, <1>3
    <2> DEFINE U == P(key, S)
    <2>3. U \in SUBSET AllFinds /\ f \in AllFinds \ U /\ P(key, T) = U \cup {f}
        BY <2>1, <2>2
    <2> HIDE DEF P
    <2>4. Q(key, T) = Q(key, S) \cup doc.sources
        BY <2>1
    <2> HIDE DEF U
    <2>5. SumOf(Share, U \cup {f}) = SumOf(Share, U) + c
        BY <2>3, ShareSums
    <2> QED BY <2>1, <2>3, <2>4, <2>5 DEF U
<1>5. ASSUME NEW key, key # IdentityKey(doc) PROVE P(key, T) = P(key, S)
    BY <1>5 DEF OfKey
<1>6. same = {i \in DOMAIN docs : IdentityKey(docs[i]) = IdentityKey(doc)}
    OBVIOUS
<1>7. ASSUME NEW i \in DOMAIN docs, i \notin same
      PROVE  Stands(answer, docs[i], T)
    <2>1. IdentityKey(docs[i]) # IdentityKey(doc)
        BY <1>6, <1>7
    <2>2. OfKey(answer, IdentityKey(docs[i]), T) = OfKey(answer, IdentityKey(docs[i]), S)
        BY <1>5, <2>1
    <2>3. Stands(answer, docs[i], S)
        BY <1>2
    <2> HIDE DEF T
    <2> QED BY <2>2, <2>3 DEF Stands
<1>8. CASE same # {}
    <2>1. new = [i \in DOMAIN docs |->
                   IF i \in same THEN MergeDocs(AddShare(docs[i], f[2] - 1), doc) ELSE docs[i]]
        BY <1>8 DEF FuseDoc
    <2>2. ASSUME NEW i \in same
          PROVE  /\ IdentityKey(new[i]) = IdentityKey(docs[i]) /\ new[i].key = docs[i].key
                 /\ Stands(answer, new[i], T)
        <3> DEFINE s == AddShare(docs[i], f[2] - 1)
                   m == MergeDocs(s, doc)
                   k == IdentityKey(docs[i])
        <3>1. i \in DOMAIN docs /\ k = IdentityKey(doc) /\ new[i] = m
            BY <1>6, <2>1
        <3>2. Stands(answer, docs[i], S)
            BY <1>2, <3>1
        <3>3. /\ s.ident = docs[i].ident /\ s.age = docs[i].age /\ s.sources = docs[i].sources
              /\ s.fused = docs[i].fused + c /\ s.key = docs[i].key
            BY DEF AddShare, WithScores
        <3>4. IdentityKey(s) = k /\ s.ident[4] # Missing
            BY <3>2, <3>3, SameIdent DEF Stands
        <3> HIDE DEF s
        <3>5. IdentityKey(m) = k /\ m.ident[4] # Missing
            BY <1>1, <3>1, <3>4, MergedKey
        <3>6. /\ m.fused = s.fused /\ m.sources = s.sources \cup doc.sources /\ m.key = s.key
              /\ m.age = IF s.age = Missing THEN doc.age ELSE s.age
            BY DEF MergeDocs, Fill
        <3>7. Dated(m)
            BY <1>1, <3>2, <3>3, <3>6 DEF Dated, Stands
        <3> HIDE DEF m, c, doc
        <3>8. m.fused = SumOf(Share, P(k, T)) /\ m.sources = Q(k, T)
            <4>1. docs[i].fused = SumOf(Share, P(k, S)) /\ docs[i].sources = Q(k, S)
                BY <3>2 DEF Stands
            <4> HIDE DEF P, Q, k, T
            <4>2. SumOf(Share, P(k, T)) = SumOf(Share, P(k, S)) + c /\ Q(k, T) = Q(k, S) \cup doc.sources
                BY <1>4, <3>1
            <4> QED BY <3>3, <3>6, <4>1, <4>2
        <3>9. Stands(answer, m, T)
            BY <3>5, <3>7, <3>8 DEF Stands
        <3> QED BY <3>1, <3>3, <3>5, <3>6, <3>9
    <2>3. DOMAIN new = DOMAIN docs /\ \A i \in DOMAIN docs : i \notin same => new[i] = docs[i]
        BY <2>1
    <2>4. \A i \in DOMAIN docs : /\ IdentityKey(new[i]) = IdentityKey(docs[i])
                                 /\ new[i].key = IdentityKey(new[i])
                                 /\ Stands(answer, new[i], T)
        <3> HIDE DEF new, same
        <3> QED BY <1>7, <2>2, <2>3
    <2>5. new \in Seq({new[i] : i \in DOMAIN new})
        <3>1. new = [i \in DOMAIN docs |-> new[i]] /\ DOMAIN docs = 1..Len(docs) /\ Len(docs) \in Nat
            BY <1>2, <2>1
        <3> HIDE DEF new
        <3> QED BY <2>3, <3>1
    <2>6. {IdentityKey(new[i]) : i \in DOMAIN new} = {IdentityKey(DocOf(answer, g)) : g \in T}
        <3>1. {IdentityKey(new[i]) : i \in DOMAIN new} = {IdentityKey(docs[i]) : i \in DOMAIN docs}
            <4> HIDE DEF new, same
            <4> QED BY <2>3, <2>4
        <3>2. IdentityKey(doc) \in {IdentityKey(docs[i]) : i \in DOMAIN docs}
            BY <1>6, <1>8
        <3>3. IdentityKey(doc) \in {IdentityKey(DocOf(answer, g)) : g \in S}
            BY <1>2, <3>2
        <3>4. {IdentityKey(DocOf(answer, g)) : g \in T}
                 = {IdentityKey(DocOf(answer, g)) : g \in S} \cup {IdentityKey(doc)}
            OBVIOUS
        <3> QED BY <1>2, <3>1, <3>3, <3>4
    <2>7. \A i, j \in DOMAIN new : IdentityKey(new[i]) = IdentityKey(new[j]) => i = j
        <3> HIDE DEF new
        <3> QED BY <1>2, <2>3, <2>4
    <2>8. Collects(answer, new, T)
        <3> HIDE DEF new, T
        <3> QED BY <2>3, <2>4, <2>5, <2>6, <2>7 DEF Collects
    <2> QED BY <2>3, <2>4, <2>8
<1>9. CASE same = {}
    <2> DEFINE e == Enter(doc, f[2] - 1)
               n == Len(docs)
               k == IdentityKey(doc)
    <2>1. new = Append(docs, e)
        BY <1>9 DEF FuseDoc
    <2>2. /\ e.ident = doc.ident /\ e.age = doc.age /\ e.sources = doc.sources /\ e.fused = c
          /\ e.key = k
        BY DEF Enter
    <2>3. IdentityKey(e) = k
        BY <2>2, SameIdent
    <2> HIDE DEF e
    <2>4. /\ n \in Nat /\ DOMAIN docs = 1..n /\ DOMAIN new = 1..(n + 1)
          /\ \A i \in 1..n : new[i] = docs[i]
          /\ new[n + 1] = e
          /\ new \in Seq({docs[i] : i \in DOMAIN docs} \cup {e})
        BY <1>2, <2>1
    <2>5. \A i \in DOMAIN docs : IdentityKey(docs[i]) # k
        BY <1>6, <1>9
    <2>6. P(k, S) = {}
        <3>1. k \notin {IdentityKey(DocOf(answer, g)) : g \in S}
            BY <1>2, <2>5
        <3> QED BY <3>1 DEF OfKey
    <2>7. Stands(answer, e, T)
        <3>1. P(k, T) = {f}
            BY <1>4, <2>6
        <3>2. SumOf(Share, P(k, T)) = c
            <4>1. SumOf(Share, {}) = 0 /\ c \in Nat
                BY <1>1, ShareSums, Shares
            <4>2. SumOf(Share, P(k, T)) = SumOf(Share, P(k, S)) + c
                <5> HIDE DEF P, c, k, T
                <5> QED BY <1>4 DEF k
            <4>3. SumOf(Share, P(k, T)) = 0 + c
                BY <2>6, <4>1, <4>2
            <4> HIDE DEF c, P, T
            <4> QED BY <4>1, <4>3
        <3>3. Q(k, T) = doc.sources
            <4> HIDE DEF P
            <4> QED BY <3>1
        <3> HIDE DEF T, c
        <3> QED BY <1>1, <2>2, <2>3, <3>2, <3>3 DEF Stands, Dated
    <2>8. \A i \in 1..n : Stands(answer, new[i], T) /\ new[i].key = IdentityKey(new[i])
        <3> HIDE DEF new, T
        <3> QED BY <1>7, <1>9, <2>4
    <2>9. new \in Seq({new[i] : i \in DOMAIN new})
        <3> HIDE DEF new, n
        <3>1. new = [i \in 1..(n + 1) |-> new[i]] /\ n + 1 \in Nat
            BY <2>4
        <3> QED BY <3>1, SeqOfItself
    <2>10. \A i, j \in DOMAIN new : IdentityKey(new[i]) = IdentityKey(new[j]) => i = j
        <3> HIDE DEF new, n, k
        <3>1. ASSUME NEW i \in DOMAIN new, NEW j \in DOMAIN new, IdentityKey(new[i]) = IdentityKey(new[j])
              PROVE  i = j
            <4>1. i \in 1..n \/ i = n + 1
                BY <2>4
            <4>2. j \in 1..n \/ j = n + 1
                BY <2>4
            <4> QED BY <1>2, <2>3, <2>4, <2>5, <3>1, <4>1, <4>2
        <3> QED BY <3>1
    <2>11. {IdentityKey(new[i]) : i \in DOMAIN new} = {IdentityKey(DocOf(answer, g)) : g \in T}
        <3>1. {IdentityKey(new[i]) : i \in DOMAIN new} = {IdentityKey(docs[i]) : i \in DOMAIN docs} \cup {k}
            <4> HIDE DEF new, n, k
            <4>1. ASSUME NEW i \in DOMAIN new
                  PROVE  IdentityKey(new[i]) \in {IdentityKey(docs[j]) : j \in DOMAIN docs} \cup {k}
                <5>1. i \in 1..n \/ i = n + 1
                    BY <2>4
                <5> QED BY <2>3, <2>4, <5>1
            <4>2. \A i \in DOMAIN docs : i \in DOMAIN new /\ new[i] = docs[i]
                BY <2>4
            <4>3. n + 1 \in DOMAIN new /\ IdentityKey(new[n + 1]) = k
                BY <2>3, <2>4
            <4> QED BY <4>1, <4>2, <4>3
        <3>2. {IdentityKey(DocOf(answer, g)) : g \in T}
                 = {IdentityKey(DocOf(answer, g)) : g \in S} \cup {k}
            OBVIOUS
        <3> QED BY <1>2, <3>1, <3>2
    <2>12. \A i \in DOMAIN new : Stands(answer, new[i], T) /\ new[i].key = IdentityKey(new[i])
        <3> HIDE DEF new, n, k, T
        <3>1. ASSUME NEW i \in DOMAIN new PROVE i \in 1..n \/ i = n + 1
            BY <2>4
        <3> QED BY <2>2, <2>3, <2>4, <2>7, <2>8, <3>1
    <2>13. Collects(answer, new, T)
        <3> HIDE DEF new, T
        <3> QED BY <2>9, <2>10, <2>11, <2>12 DEF Collects
    <2> QED BY <2>12, <2>13
<1> QED BY <1>8, <1>9

-----------------------------------------------------------------------------
(* The sort is by a strict total order, so it lists every document once.   *)
LEMMA SortOrders ==
    ASSUME NEW list, NEW n \in Nat, DOMAIN list = 1..n,
           \A i \in 1..n : list[i].fused \in Int /\ list[i].fresh \in Int /\ Dated(list[i])
    PROVE  Orders(SortOrder(list), DOMAIN list)
<1> DEFINE D == DOMAIN list
           R == SortOrder(list)
           T(d) == d.fused \in Int /\ d.fresh \in Int /\ Dated(d)
<1>1. ASSUME NEW d, NEW e, T(d), T(e)
      PROVE  /\ ~Before(d, d)
             /\ Before(d, e) => ~Before(e, d)
    BY <1>1 DEF Before, Later, Dated
<1>2. ASSUME NEW d, NEW e, NEW g, T(d), T(e), T(g)
      PROVE  /\ Before(d, e) /\ Before(e, g) => Before(d, g)
             /\ Before(d, g) => Before(d, e) \/ Before(e, g)
    <2>1. /\ Later(d.age, e.age) /\ Later(e.age, g.age) => Later(d.age, g.age)
          /\ Later(d.age, g.age) => Later(d.age, e.age) \/ Later(e.age, g.age)
        BY <1>2 DEF Later, Dated
    <2>2. Before(d, e) /\ Before(e, g) => Before(d, g)
        BY <1>2, <2>1 DEF Before
    <2>3. Before(d, g) => Before(d, e) \/ Before(e, g)
        BY <1>2, <2>1 DEF Before
    <2> QED BY <2>2, <2>3
<1>3. \A i \in D : T(list[i]) /\ i \in Nat
    OBVIOUS
<1>4. \A i, j \in D : <<i, j>> \in R <=> \/ Before(list[i], list[j])
                                         \/ ~Before(list[j], list[i]) /\ i < j
    BY DEF SortOrder
<1> HIDE DEF D, R, T
<1>5. \A i \in D : <<i, i>> \notin R
    BY <1>1, <1>3, <1>4
<1>6. ASSUME NEW i \in D, NEW j \in D, NEW k \in D, <<i, j>> \in R, <<j, k>> \in R
      PROVE  <<i, k>> \in R
    <2>1. T(list[i]) /\ T(list[j]) /\ T(list[k]) /\ i \in Nat /\ j \in Nat /\ k \in Nat
        BY <1>3
    <2>2. ~Before(list[j], list[i]) /\ ~Before(list[k], list[j])
        BY <1>1, <1>4, <1>6, <2>1
    <2>3. ~Before(list[k], list[i])
        BY <1>2, <2>1, <2>2
    <2>4. CASE Before(list[i], list[j])
        BY <1>2, <1>4, <2>1, <2>2, <2>4
    <2>5. CASE Before(list[j], list[k])
        BY <1>2, <1>4, <2>1, <2>2, <2>5
    <2>6. CASE i < j /\ j < k
        BY <1>4, <2>1, <2>3, <2>6
    <2> QED BY <1>4, <1>6, <2>4, <2>5, <2>6
<1>7. ASSUME NEW i \in D, NEW j \in D, i # j PROVE <<i, j>> \in R \/ <<j, i>> \in R
    BY <1>3, <1>4, <1>7
<1> QED BY <1>5, <1>6, <1>7 DEF Orders, D, R

(* A list that is put into another order collects the same finds.          *)
LEMMA Reordered ==
    ASSUME NEW a, NEW S, NEW list, Collects(a, list, S), Orders(SortOrder(list), DOMAIN list)
    PROVE  Collects(a, StableSort(list), S) /\ DOMAIN StableSort(list) = DOMAIN list
<1> DEFINE D == DOMAIN list
           R == SortOrder(list)
           perm == InOrder(D, R)
           new == StableSort(list)
<1>1. Len(list) \in Nat /\ D = 1..Len(list)
    BY DEF Collects
<1>2. IsFiniteSet(D) /\ Cardinality(D) = Len(list)
    <2> DEFINE n == Len(list)
    <2> HIDE DEF D, n
    <2>1. n \in Int /\ 1 \in Int /\ n \in Nat /\ D = 1..n
        BY <1>1 DEF n
    <2>2. IsFiniteSet(1..n) /\ Cardinality(1..n) = n
        BY <2>1, FS_Interval
    <2> QED BY <2>1, <2>2 DEF n
<1>3. /\ \A n \in D : perm[n] \in D /\ Place(D, R, perm[n]) = n - 1
      /\ \A i \in D : Place(D, R, i) + 1 \in D /\ perm[Place(D, R, i) + 1] = i
    <2> HIDE DEF D, R
    <2>1. 1..Cardinality(D) = D
        BY <1>1, <1>2
    <2>2. Orders(R, D)
        BY DEF D, R
    <2> QED BY <1>2, <2>1, <2>2, Listing
<1>4. new = [n \in D |-> list[perm[n]]]
    BY DEF StableSort
<1> HIDE DEF D, R, perm, new
<1>5. DOMAIN new = D /\ \A n \in D : new[n] = list[perm[n]]
    BY <1>4
<1>6. \A m, n \in D : perm[m] = perm[n] => m = n
    <2>1. \A n \in D : n \in Int
        BY <1>1
    <2>2. ASSUME NEW m \in D, NEW n \in D, perm[m] = perm[n] PROVE m = n
        <3>1. m - 1 = n - 1
            BY <1>3, <2>2
        <3> QED BY <2>1, <3>1
    <2> QED BY <2>2
<1>7. new \in Seq({new[n] : n \in DOMAIN new})
    <2>1. new = [n \in 1..Len(list) |-> new[n]]
        BY <1>1, <1>4
    <2> QED BY <1>1, <2>1, SeqOfItself
<1>8. {IdentityKey(new[n]) : n \in DOMAIN new} = {IdentityKey(list[i]) : i \in D}
    <2>1. ASSUME NEW i \in D PROVE \E n \in D : new[n] = list[i]
        BY <1>3, <1>5
    <2>2. ASSUME NEW n \in D PROVE \E i \in D : new[n] = list[i]
        BY <1>3, <1>5
    <2> QED BY <1>5, <2>1, <2>2
<1>9. \A m, n \in DOMAIN new : IdentityKey(new[m]) = IdentityKey(new[n]) => m = n
    <2>1. \A i, j \in D : IdentityKey(list[i]) = IdentityKey(list[j]) => i = j
        BY DEF Collects, D
    <2> QED BY <1>3, <1>5, <1>6, <2>1
<1>10. \A n \in DOMAIN new : Stands(a, new[n], S)
    BY <1>3, <1>5 DEF Collects, D
<1>11. {IdentityKey(new[n]) : n \in DOMAIN new} = {IdentityKey(DocOf(a, f)) : f \in S}
    BY <1>8 DEF Collects, D
<1>12. Collects(a, new, S)
    BY <1>7, <1>9, <1>10, <1>11 DEF Collects
<1> QED BY <1>5, <1>12 DEF new, D

(* The signals leave what a document stands for.                           *)
LEMMA Signalled ==
    ASSUME AnswerInv, NEW S \in SUBSET Found(answer), NEW list, Collects(answer, list, S)
    PROVE  LET new == [i \in DOMAIN list |-> WithSignals(list[i])]
           IN  Collects(answer, new, S) /\ Orders(SortOrder(new), DOMAIN new)
<1> DEFINE new == [i \in DOMAIN list |-> WithSignals(list[i])]
<1>1. Len(list) \in Nat /\ DOMAIN list = 1..Len(list) /\ DOMAIN new = DOMAIN list
    BY DEF Collects
<1>2. ASSUME NEW i \in DOMAIN list
      PROVE  /\ IdentityKey(new[i]) = IdentityKey(list[i]) /\ Stands(answer, new[i], S)
             /\ new[i].fused \in Int /\ new[i].fresh \in Int /\ Dated(new[i])
    <2> DEFINE w == WithSignals(list[i])
    <2>1. /\ w.ident = list[i].ident /\ w.age = list[i].age /\ w.sources = list[i].sources
          /\ w.fused = list[i].fused /\ w.fresh = FreshnessScore(list[i].age)
        BY DEF WithSignals, WithScores
    <2>2. FreshnessScore(list[i].age) \in Int
        BY DEF FreshnessScore
    <2>3. Stands(answer, list[i], S)
        BY DEF Collects
    <2> HIDE DEF w
    <2>4. IdentityKey(w) = IdentityKey(list[i])
        BY <2>1, SameIdent
    <2>5. Stands(answer, w, S) /\ Dated(w)
        BY <2>1, <2>3, <2>4 DEF Stands, Dated
    <2>6. w.fused \in Int
        <3>1. OfKey(answer, IdentityKey(w), S) \in SUBSET AllFinds
            BY Finds DEF OfKey
        <3>2. SumOf(Share, OfKey(answer, IdentityKey(w), S)) \in Nat
            BY <3>1, ShareSums
        <3> QED BY <2>5, <3>2 DEF Stands
    <2> QED BY <2>1, <2>2, <2>4, <2>5, <2>6 DEF w
<1>3. new \in Seq({new[i] : i \in DOMAIN new})
    <2>1. new = [i \in 1..Len(list) |-> new[i]]
        BY <1>1
    <2> HIDE DEF new
    <2> QED BY <1>1, <2>1, SeqOfItself
<1> HIDE DEF new
<1>4. Collects(answer, new, S)
    <2>1. {IdentityKey(new[i]) : i \in DOMAIN new} = {IdentityKey(list[i]) : i \in DOMAIN list}
        BY <1>1, <1>2
    <2>2. \A i, j \in DOMAIN new : IdentityKey(new[i]) = IdentityKey(new[j]) => i = j
        BY <1>1, <1>2 DEF Collects
    <2>3. {IdentityKey(new[i]) : i \in DOMAIN new} = {IdentityKey(DocOf(answer, f)) : f \in S}
        BY <2>1 DEF Collects
    <2>4. \A i \in DOMAIN new : Stands(answer, new[i], S)
        BY <1>1, <1>2
    <2> QED BY <1>3, <2>2, <2>3, <2>4 DEF Collects
<1>5. Orders(SortOrder(new), DOMAIN new)
    BY <1>1, <1>2, SortOrders
<1> QED BY <1>4, <1>5 DEF new

-----------------------------------------------------------------------------
(* The steps.  When as many answers have arrived as there are sources,     *)
(* every source has answered.                                              *)
LEMMA AllArrived ==
    ASSUME ArrivedInv, Len(arrived) = Cardinality(Sources)
    PROVE  \A s \in Sources : \E l \in DOMAIN arrived : arrived[l] = s
<1> DEFINE n == Len(arrived)
           A == arrived
<1>1. IsFiniteSet(Sources)
    BY AnswersAssumption
<1>2. n \in Nat /\ DOMAIN A = 1..n /\ A \in [1..n -> Sources] /\ n = Cardinality(Sources)
    BY DEF ArrivedInv
<1>3. \A k, l \in 1..n : A[k] = A[l] => k = l
    BY <1>2 DEF ArrivedInv
<1> HIDE DEF n, A
<1>4. A \in Injection(1..n, Sources)
    BY <1>2, <1>3, Fun_IsInj
<1>5. n \in Int /\ 1 \in Int
    BY <1>2
<1>6. Cardinality(1..n) = n
    BY <1>2, <1>5, FS_Interval
<1>7. A \in Surjection(1..n, Sources)
    BY <1>1, <1>2, <1>4, <1>6, FS_Injection
<1> QED BY <1>2, <1>7 DEF Surjection, A

LEMMA InvInit == FusionInit => Inv
<1> SUFFICES ASSUME FusionInit PROVE Inv
    OBVIOUS
<1>1. AnswerInv
    BY DEF FusionInit, AnswerInv
<1>2. ArrivedInv
    BY DEF FusionInit, ArrivedInv
<1> QED BY <1>1, <1>2 DEF FusionInit, Inv

LEMMA CollectStep ==
    ASSUME Inv, NEW s \in Sources, Collect(s)
    PROVE  Inv'
<1>1. AnswerInv'
    BY DEF Inv, AnswerInv, Collect
<1>2. ArrivedInv'
    <2> DEFINE A == arrived
    <2>1. A \in Seq(Sources) /\ \A k, l \in DOMAIN A : A[k] = A[l] => k = l
        BY DEF Inv, ArrivedInv
    <2>2. \A i \in DOMAIN A : A[i] # s
        BY DEF Collect
    <2>3. arrived' = Append(A, s)
        BY DEF Collect
    <2> HIDE DEF A
    <2>4. Append(A, s) \in Seq(Sources)
        BY <2>1
    <2>5. ASSUME NEW k \in DOMAIN Append(A, s), NEW l \in DOMAIN Append(A, s),
                 Append(A, s)[k] = Append(A, s)[l]
          PROVE  k = l
        BY <2>1, <2>2, <2>5
    <2> QED BY <2>3, <2>4, <2>5 DEF ArrivedInv
<1> QED BY <1>1, <1>2 DEF Inv, Collect

LEMMA StartFuseStep ==
    ASSUME Inv, StartFuse
    PROVE  Inv'
<1>1. /\ AnswerInv /\ ArrivedInv /\ docs = <<>> /\ phase = "collect" /\ merged = <<>>
    BY DEF Inv, StartFuse
<1>2. /\ phase' = "fuse" /\ answer' = answer /\ arrived' = arrived /\ docs' = docs /\ merged' = merged
      /\ todo' = {e \in (DOMAIN arrived) \X (1..MaxRank) : e[2] \in DOMAIN answer[arrived[e[1]]]}
    BY DEF StartFuse
<1>3. \A s \in Sources : \E l \in DOMAIN arrived : arrived[l] = s
    BY <1>1, AllArrived DEF StartFuse
<1>4. Seen(answer, arrived, todo') = {}
    <2> SUFFICES ASSUME NEW f \in Found(answer)
                 PROVE  \E l \in DOMAIN arrived : arrived[l] = f[1] /\ <<l, f[2]>> \in todo'
        BY DEF Seen
    <2>1. f[1] \in Sources /\ f[2] \in 1..MaxRank /\ f[2] \in DOMAIN answer[f[1]]
        BY DEF Found
    <2>2. PICK l \in DOMAIN arrived : arrived[l] = f[1]
        BY <1>3, <2>1
    <2> QED BY <1>2, <2>1, <2>2
<1>5. Collects(answer, <<>>, {})
    <2>1. <<>> \in Seq({<<>>[i] : i \in DOMAIN <<>>})
        OBVIOUS
    <2> QED BY <2>1 DEF Collects
<1>6. FuseInv'
    <2>1. Collects(answer', docs', Seen(answer', arrived', todo'))
        BY <1>1, <1>2, <1>4, <1>5
    <2>2. docs' = <<>>
        BY <1>1, <1>2
    <2>3. \A i \in DOMAIN docs' : docs'[i].key = IdentityKey(docs'[i])
        BY <2>2
    <2> QED BY <1>2, <1>3, <2>1, <2>3 DEF FuseInv
<1>7. AnswerInv' /\ ArrivedInv'
    BY <1>1, <1>2 DEF AnswerInv, ArrivedInv
<1> QED BY <1>1, <1>2, <1>6, <1>7 DEF Inv

LEMMA FuseNextStep ==
    ASSUME Inv, NEW e \in todo, FuseNext(e)
    PROVE  Inv'
<1>1. AnswerInv /\ ArrivedInv /\ FuseInv /\ phase = "fuse" /\ merged = <<>>
    BY DEF Inv, FuseNext
<1>2. /\ phase' = "fuse" /\ answer' = answer /\ arrived' = arrived /\ merged' = merged
      /\ docs' = FuseDoc(answer[arrived[e[1]]][e[2]], e[2] - 1)
      /\ todo' = todo \ {e}
    BY <1>1 DEF FuseNext
<1> DEFINE f == <<arrived[e[1]], e[2]>>
           S == Seen(answer, arrived, todo)
<1>3. /\ e[1] \in DOMAIN arrived /\ e[2] \in 1..MaxRank /\ e[2] \in DOMAIN answer[arrived[e[1]]]
      /\ e = <<e[1], e[2]>> /\ arrived[e[1]] \in Sources
    BY <1>1 DEF FuseInv, ArrivedInv
<1>4. f \in Found(answer) /\ f[1] = arrived[e[1]] /\ f[2] = e[2]
    BY <1>3 DEF Found
<1> HIDE DEF f
<1>5. f \notin S
    BY <1>3, <1>4 DEF Seen
<1>6. Seen(answer, arrived, todo \ {e}) = S \cup {f}
    <2>1. ASSUME NEW g \in Found(answer), g \in Seen(answer, arrived, todo \ {e}), g # f PROVE g \in S
        <3>1. g = <<g[1], g[2]>>
            BY DEF Found
        <3>2. ASSUME NEW l \in DOMAIN arrived, arrived[l] = g[1], <<l, g[2]>> \in todo PROVE FALSE
            <4>1. <<l, g[2]>> = e
                BY <2>1, <3>2 DEF Seen
            <4>2. l = e[1] /\ g[2] = e[2]
                BY <4>1
            <4>3. g = <<arrived[e[1]], e[2]>>
                BY <3>1, <3>2, <4>2
            <4> QED BY <2>1, <4>3 DEF f
        <3> QED BY <3>2 DEF Seen
    <2>2. f \in Seen(answer, arrived, todo \ {e})
        <3>1. ASSUME NEW l \in DOMAIN arrived, arrived[l] = f[1] PROVE <<l, f[2]>> = e
            <4>1. l = e[1]
                BY <1>1, <1>3, <1>4, <3>1 DEF ArrivedInv
            <4> QED BY <1>3, <1>4, <4>1
        <3> QED BY <1>4, <3>1 DEF Seen
    <2>3. ASSUME NEW g \in S PROVE g \in Seen(answer, arrived, todo \ {e})
        BY <2>3 DEF Seen
    <2>4. \A g \in Seen(answer, arrived, todo \ {e}) : g \in Found(answer)
        BY DEF Seen
    <2> HIDE DEF S
    <2> QED BY <2>1, <2>2, <2>3, <2>4
<1>7. S \in SUBSET Found(answer)
    BY DEF Seen
<1>8. Collects(answer, docs, S) /\ \A i \in DOMAIN docs : docs[i].key = IdentityKey(docs[i])
    BY <1>1 DEF FuseInv
<1>9. docs' = FuseDoc(DocOf(answer, f), f[2] - 1)
    BY <1>2, <1>4 DEF DocOf
<1> HIDE DEF S
<1>10. Collects(answer, docs', S \cup {f}) /\ \A i \in DOMAIN docs' : docs'[i].key = IdentityKey(docs'[i])
    BY <1>1, <1>4, <1>5, <1>7, <1>8, <1>9, FuseAdds
<1>11. FuseInv'
    BY <1>1, <1>2, <1>6, <1>10 DEF FuseInv
<1>12. AnswerInv' /\ ArrivedInv'
    BY <1>1, <1>2 DEF AnswerInv, ArrivedInv
<1> QED BY <1>1, <1>2, <1>11, <1>12 DEF Inv

(* At first every document is a tree of its own.                           *)
LEMMA SingleTrees ==
    ASSUME NEW D
    PROVE  LET p == [i \in D |-> i] IN Forest(p, D) /\ \A i \in D : Root(p, i) = i
<1> DEFINE p == [i \in D |-> i]
<1>1. p \in [D -> D] /\ \A i \in D : p[i] = i
    OBVIOUS
<1> HIDE DEF p
<1>2. Forest(p, D) /\ Labels(p, D, p)
    BY <1>1 DEF Forest, Labels
<1>3. \A i \in D : Root(p, i) = i
    BY <1>1, <1>2, RootIs
<1> QED BY <1>2, <1>3 DEF p

LEMMA RankStep ==
    ASSUME Inv, Rank
    PROVE  Inv'
<1>1. AnswerInv /\ ArrivedInv /\ FuseInv /\ phase = "fuse" /\ todo = {} /\ merged = <<>>
    BY DEF Inv, Rank
<1> DEFINE list == [i \in DOMAIN docs |-> WithSignals(docs[i])]
           D == DOMAIN ranked'
<1>2. /\ phase' = "union" /\ answer' = answer /\ arrived' = arrived /\ merged' = merged /\ todo' = {}
      /\ ranked' = StableSort(list) /\ parent' = [i \in D |-> i] /\ buckets' = Buckets(ranked')
    BY <1>1 DEF Rank
<1>3. Seen(answer, arrived, {}) = Found(answer)
    BY DEF Seen
<1>4. Collects(answer, docs, Found(answer))
    BY <1>1, <1>3 DEF FuseInv
<1>5. Collects(answer, list, Found(answer)) /\ Orders(SortOrder(list), DOMAIN list)
    BY <1>1, <1>4, Signalled
<1>6. Collects(answer, ranked', Found(answer))
    <2> HIDE DEF list
    <2> QED BY <1>2, <1>5, Reordered
<1>7. Forest(parent', D) /\ \A i \in D : Root(parent', i) = i
    BY <1>2, SingleTrees
<1>8. UnionInv'
    <2>1. \A i, j \in D : Root(parent', i) = Root(parent', j) => j \in Component(ranked', i)
        BY <1>7, ComponentIs
    <2>2. \A b \in buckets' : b[2] \subseteq D /\ \A i, j \in b[2] : ShareBand(ranked', i, j)
        BY <1>2, BucketsShare
    <2>3. ASSUME NEW i \in D, NEW j \in D, Linked(ranked', i, j), i < j
          PROVE  \E b \in buckets' : i \in b[2] /\ j \in b[2]
        <3>1. ShareBand(ranked', i, j)
            BY <2>3 DEF Linked, ShareBand
        <3>2. i # j
            <4>1. i \in Int /\ j \in Int
                BY <1>6 DEF Collects
            <4> QED BY <2>3, <4>1
        <3> QED BY <1>2, <3>1, <3>2, BucketsAre
    <2> QED BY <1>2, <1>7, <2>1, <2>2, <2>3 DEF UnionInv
<1>9. AnswerInv' /\ ArrivedInv'
    BY <1>1, <1>2 DEF AnswerInv, ArrivedInv
<1> QED BY <1>1, <1>2, <1>6, <1>8, <1>9 DEF Inv

LEMMA VisitStep ==
    ASSUME Inv, NEW b \in buckets, Visit(b)
    PROVE  Inv'
<1>1. /\ AnswerInv /\ ArrivedInv /\ UnionInv /\ phase = "union" /\ merged = <<>> /\ todo = {}
      /\ Collects(answer, ranked, Found(answer))
    BY DEF Inv, Visit
<1>2. /\ phase' = "union" /\ answer' = answer /\ arrived' = arrived /\ merged' = merged
      /\ ranked' = ranked /\ parent' = parent /\ todo' = Ascending(b[2]) /\ buckets' = buckets \ {b}
    BY <1>1 DEF Visit
<1>3. b[2] \subseteq DOMAIN ranked /\ \A i, j \in b[2] : ShareBand(ranked, i, j)
    BY <1>1 DEF UnionInv
<1>4. todo' \subseteq Ascending(DOMAIN ranked) /\ \A e \in todo' : ShareBand(ranked, e[1], e[2])
    BY <1>2, <1>3 DEF Ascending
<1>5. ASSUME NEW i \in DOMAIN ranked, NEW j \in DOMAIN ranked, Linked(ranked, i, j), i < j
      PROVE  \/ Root(parent, i) = Root(parent, j)
             \/ <<i, j>> \in todo'
             \/ \E c \in buckets' : i \in c[2] /\ j \in c[2]
    <2>1. \/ Root(parent, i) = Root(parent, j)
          \/ \E c \in buckets : i \in c[2] /\ j \in c[2]
        BY <1>1, <1>5 DEF UnionInv
    <2>2. i \in b[2] /\ j \in b[2] => <<i, j>> \in todo'
        BY <1>2, <1>5 DEF Ascending
    <2> QED BY <1>2, <2>1, <2>2
<1>6. UnionInv'
    BY <1>1, <1>2, <1>4, <1>5 DEF UnionInv
<1>7. AnswerInv' /\ ArrivedInv'
    BY <1>1, <1>2 DEF AnswerInv, ArrivedInv
<1> QED BY <1>1, <1>2, <1>6, <1>7 DEF Inv

(* Comparing a pair joins two trees only within a component, and leaves    *)
(* its documents in one tree when they are similar.                        *)
LEMMA CompareStep ==
    ASSUME Inv, NEW e \in todo, Compare(e)
    PROVE  Inv'
<1>1. /\ AnswerInv /\ ArrivedInv /\ UnionInv /\ phase = "union" /\ merged = <<>>
      /\ Collects(answer, ranked, Found(answer))
    BY DEF Inv, Compare
<1>2. /\ phase' = "union" /\ answer' = answer /\ arrived' = arrived /\ merged' = merged
      /\ ranked' = ranked /\ parent' = UnionPair(parent, e[1], e[2]) /\ todo' = todo \ {e}
      /\ buckets' = buckets
    BY <1>1 DEF Compare
<1> DEFINE D == DOMAIN ranked
           x == e[1]
           y == e[2]
           R(i) == Root(parent, i)
           Q(i) == Root(parent', i)
<1>3. x \in D /\ y \in D /\ e = <<x, y>> /\ ShareBand(ranked, x, y)
    BY <1>1 DEF UnionInv, Ascending
<1>4. Forest(parent, D)
    BY <1>1 DEF UnionInv
<1>5. /\ Forest(parent', D)
      /\ \/ /\ Similar(ranked[x], ranked[y]) /\ Joined(parent, D, x, y, parent')
         \/ /\ Similar(ranked[x], ranked[y]) => R(x) = R(y)
            /\ \A z \in D : Q(z) = R(z)
    <2> HIDE DEF D, x, y
    <2> QED BY <1>2, <1>3, <1>4, PairKeeps DEF x, y
<1>6. /\ Similar(ranked[x], ranked[y]) => Q(x) = Q(y)
      /\ \A i, j \in D : R(i) = R(j) => Q(i) = Q(j)
    <2> HIDE DEF D, x, y
    <2> QED BY <1>3, <1>5 DEF Joined
<1>7. ASSUME NEW i \in D, NEW j \in D, Q(i) = Q(j) PROVE j \in Component(ranked, i)
    <2>1. \A k, l \in D : R(k) = R(l) => l \in Component(ranked, k)
        BY <1>1 DEF UnionInv
    <2>2. CASE \A z \in D : Q(z) = R(z)
        BY <1>7, <2>1, <2>2
    <2>3. CASE Similar(ranked[x], ranked[y]) /\ Joined(parent, D, x, y, parent')
        <3>1. Linked(ranked, x, y)
            BY <1>3, <2>3 DEF Linked, ShareBand
        <3>2. y \in Component(ranked, x)
            BY <1>3, <3>1, ComponentIs
        <3>3. x \in Component(ranked, y)
            BY <1>3, <3>2, ComponentStep
        <3>4. \A k, l, m \in D : l \in Component(ranked, k) /\ m \in Component(ranked, l)
                                    => m \in Component(ranked, k)
            BY ComponentStep
        <3>5. \/ R(i) = R(j)
              \/ R(i) = R(x) /\ R(y) = R(j)
              \/ R(i) = R(y) /\ R(x) = R(j)
            <4> HIDE DEF D, x, y
            <4> QED BY <1>7, <2>3 DEF Joined
        <3> HIDE DEF R, Q, D, x, y
        <3>6. CASE R(i) = R(j)
            BY <2>1, <3>6
        <3>7. CASE R(i) = R(x) /\ R(y) = R(j)
            <4>1. x \in Component(ranked, i) /\ j \in Component(ranked, y)
                BY <1>3, <2>1, <3>7
            <4> QED BY <1>3, <3>2, <3>4, <4>1
        <3>8. CASE R(i) = R(y) /\ R(x) = R(j)
            <4>1. y \in Component(ranked, i) /\ j \in Component(ranked, x)
                BY <1>3, <2>1, <3>8
            <4> QED BY <1>3, <3>3, <3>4, <4>1
        <3> QED BY <3>5, <3>6, <3>7, <3>8
    <2> QED BY <1>5, <2>2, <2>3
<1>8. ASSUME NEW i \in D, NEW j \in D, Linked(ranked, i, j), i < j
      PROVE  \/ Q(i) = Q(j)
             \/ <<i, j>> \in todo'
             \/ \E b \in buckets : i \in b[2] /\ j \in b[2]
    <2>1. \/ R(i) = R(j)
          \/ <<i, j>> \in todo
          \/ \E b \in buckets : i \in b[2] /\ j \in b[2]
        BY <1>1, <1>8 DEF UnionInv
    <2>2. CASE R(i) = R(j)
        BY <1>6, <2>2
    <2>3. CASE <<i, j>> = e
        <3>1. i = x /\ j = y
            BY <2>3
        <3>2. Similar(ranked[x], ranked[y])
            BY <1>8, <3>1 DEF Linked
        <3> QED BY <1>6, <3>1, <3>2
    <2>4. CASE <<i, j>> \in todo /\ <<i, j>> # e
        BY <1>2, <2>4
    <2> QED BY <2>1, <2>2, <2>3, <2>4
<1>9. UnionInv'
    <2>1. todo' \subseteq todo
        BY <1>2
    <2> HIDE DEF x, y
    <2> QED BY <1>1, <1>2, <1>5, <1>7, <1>8, <2>1 DEF UnionInv
<1>10. AnswerInv' /\ ArrivedInv'
    BY <1>1, <1>2 DEF AnswerInv, ArrivedInv
<1> QED BY <1>1, <1>2, <1>9, <1>10 DEF Inv

(* The base of a tree is its first document, whichever document of the     *)
(* tree asks for it.                                                       *)
LEMMA BaseIs ==
    ASSUME NEW n \in Nat, NEW p, DOMAIN p = 1..n, NEW i \in 1..n
    PROVE  /\ BaseOf(p, i) \in 1..n /\ Root(p, BaseOf(p, i)) = Root(p, i)
           /\ \A j \in 1..n : Root(p, j) = Root(p, i) => BaseOf(p, j) = BaseOf(p, i) /\ BaseOf(p, i) <= j
<1> DEFINE G(k) == {j \in 1..n : Root(p, j) = Root(p, k)}
<1>1. \A k \in 1..n : BaseOf(p, k) = Min(G(k))
    BY DEF BaseOf
<1>2. ASSUME NEW k \in 1..n PROVE Min(G(k)) \in G(k) /\ \A j \in G(k) : Min(G(k)) <= j
    <2>1. G(k) \in SUBSET Nat /\ k \in G(k)
        OBVIOUS
    <2> HIDE DEF G
    <2>2. \E m \in G(k) : \A j \in G(k) : m <= j
        BY <2>1, LeastNat
    <2> QED BY <2>2 DEF Min
<1>3. \A j \in 1..n : Root(p, j) = Root(p, i) => G(j) = G(i)
    OBVIOUS
<1>4. \A j \in 1..n : Root(p, j) = Root(p, i) => BaseOf(p, j) = BaseOf(p, i)
    <2> HIDE DEF G
    <2> QED BY <1>1, <1>3
<1>5. BaseOf(p, i) \in G(i) /\ \A j \in G(i) : BaseOf(p, i) <= j
    <2> HIDE DEF G
    <2> QED BY <1>1, <1>2
<1> QED BY <1>4, <1>5

LEMMA BaseOfBase ==
    ASSUME NEW n \in Nat, NEW p, DOMAIN p = 1..n, NEW i \in 1..n
    PROVE  BaseOf(p, i) \in 1..n /\ BaseOf(p, BaseOf(p, i)) = BaseOf(p, i)
BY BaseIs

LEMMA StartMergeStep ==
    ASSUME Inv, StartMerge
    PROVE  Inv'
<1>1. /\ AnswerInv /\ ArrivedInv /\ UnionInv /\ phase = "union" /\ merged = <<>>
      /\ todo = {} /\ buckets = {} /\ Collects(answer, ranked, Found(answer))
    BY DEF Inv, StartMerge
<1> DEFINE D == DOMAIN ranked
<1>2. /\ phase' = "merge" /\ answer' = answer /\ arrived' = arrived /\ merged' = merged
      /\ ranked' = ranked /\ parent' = parent /\ slots' = ranked
      /\ todo' = {e \in D \X D : e[2] = BaseOf(parent, e[1]) /\ e[1] # e[2]}
    BY DEF StartMerge
<1>3. Len(ranked) \in Nat /\ D = 1..Len(ranked)
    BY <1>1 DEF Collects
<1>4. DOMAIN parent = D
    BY <1>1 DEF UnionInv, Forest
<1>5. ASSUME NEW i \in D, NEW j \in D PROVE Root(parent, i) = Root(parent, j) <=> j \in Component(ranked, i)
    <2> DEFINE C == {k \in D : Root(parent, i) = Root(parent, k)}
    <2>1. ASSUME NEW k \in D, NEW l \in D, Linked(ranked, k, l) PROVE Root(parent, k) = Root(parent, l)
        <3>1. \A u, v \in D : Linked(ranked, u, v) /\ u < v => Root(parent, u) = Root(parent, v)
            BY <1>1 DEF UnionInv
        <3>2. Linked(ranked, l, k)
            BY <2>1, LinkedBothWays
        <3>3. k < l \/ l < k \/ k = l
            BY <1>3
        <3> QED BY <2>1, <3>1, <3>2, <3>3
    <2>2. C \in SUBSET D /\ i \in C /\ \A k \in C : \A l \in D : Linked(ranked, k, l) => l \in C
        BY <2>1
    <2>3. Component(ranked, i) \subseteq C
        <3> HIDE DEF C
        <3> QED BY <2>2, ComponentIs
    <2>4. Root(parent, i) = Root(parent, j) => j \in Component(ranked, i)
        BY <1>1 DEF UnionInv
    <2> QED BY <2>3, <2>4
<1>6. Partition'
    BY <1>2, <1>5 DEF Partition
<1>7. \A i \in D : BaseOf(parent, i) \in D /\ BaseOf(parent, BaseOf(parent, i)) = BaseOf(parent, i)
    BY <1>3, <1>4, BaseOfBase
<1>8. \A i \in D : BaseOf(parent, i) # i => <<i, BaseOf(parent, i)>> \in todo'
    BY <1>2, <1>7
<1>9. ASSUME NEW b \in D, BaseOf(parent, b) = b
      PROVE  Merges(ranked, ranked[b], b, Absorbed(parent, todo', b))
    <2>1. Absorbed(parent, todo', b) = {b}
        <3>1. b \in Absorbed(parent, todo', b)
            BY <1>2, <1>4, <1>9 DEF Absorbed
        <3>2. ASSUME NEW j \in Absorbed(parent, todo', b) PROVE j = b
            BY <1>4, <1>8, <3>2 DEF Absorbed
        <3> QED BY <3>1, <3>2
    <2>2. ranked[b].ident[4] # Missing
        BY <1>1, <1>9 DEF Collects, Stands
    <2>3. UNION {ranked[j].sources : j \in {b}} = ranked[b].sources
        OBVIOUS
    <2> QED BY <2>1, <2>2, <2>3 DEF Merges
<1>10. MergeInv'
    <2>1. DOMAIN slots' = {i \in D : BaseOf(parent, i) = i \/ <<i, BaseOf(parent, i)>> \in todo'}
        BY <1>2, <1>8
    <2> QED BY <1>2, <1>4, <1>9, <2>1 DEF MergeInv
<1>11. AnswerInv' /\ ArrivedInv'
    BY <1>1, <1>2 DEF AnswerInv, ArrivedInv
<1> QED BY <1>1, <1>2, <1>6, <1>10, <1>11 DEF Inv

(* A base keeps its score, takes the sources of what it absorbs and has    *)
(* the key of one of its group.                                            *)
LEMMA MergeNextStep ==
    ASSUME Inv, NEW e \in todo, MergeNext(e)
    PROVE  Inv'
<1>1. /\ AnswerInv /\ ArrivedInv /\ Partition /\ MergeInv /\ phase = "merge" /\ merged = <<>>
      /\ Collects(answer, ranked, Found(answer))
    BY DEF Inv, MergeNext
<1> DEFINE D == DOMAIN ranked
           i == e[1]
           b == e[2]
           B(j) == BaseOf(parent, j)
           A(left, c) == Absorbed(parent, left, c)
           m == MergeDocs(slots[b], slots[i])
<1>2. /\ phase' = "merge" /\ answer' = answer /\ arrived' = arrived /\ merged' = merged
      /\ ranked' = ranked /\ parent' = parent /\ todo' = todo \ {e}
      /\ slots' = [j \in DOMAIN slots \ {i} |-> IF j = b THEN MergeDocs(slots[j], slots[i]) ELSE slots[j]]
    BY <1>1 DEF MergeNext
<1>3. Len(ranked) \in Nat /\ D = 1..Len(ranked)
    BY <1>1 DEF Collects
<1>4. /\ DOMAIN parent = D
      /\ todo \subseteq {f \in D \X D : f[2] = B(f[1]) /\ f[1] # f[2]}
      /\ DOMAIN slots = {j \in D : B(j) = j \/ <<j, B(j)>> \in todo}
      /\ \A j \in DOMAIN slots : B(j) # j => slots[j] = ranked[j]
      /\ \A c \in DOMAIN slots : B(c) = c => Merges(ranked, slots[c], c, A(todo, c))
    BY <1>1 DEF MergeInv
<1>5. i \in D /\ b \in D /\ e = <<i, b>> /\ b = B(i) /\ i # b /\ B(b) = b
    <2>1. i \in D /\ b \in D /\ e = <<i, b>> /\ b = B(i) /\ i # b
        BY <1>4
    <2> HIDE DEF D, i, b
    <2> QED BY <1>3, <1>4, <2>1, BaseOfBase
<1> HIDE DEF D, i, b, B
<1>6. i \in DOMAIN slots /\ slots[i] = ranked[i] /\ b \in DOMAIN slots
    BY <1>4, <1>5
<1>7. DOMAIN slots' = {j \in D : B(j) = j \/ <<j, B(j)>> \in todo'}
    <2>1. DOMAIN slots' = DOMAIN slots \ {i}
        BY <1>2
    <2>2. \A j \in D : j # i => <<j, B(j)>> # e
        BY <1>5
    <2>3. B(i) # i /\ <<i, B(i)>> \notin todo'
        BY <1>2, <1>5
    <2> QED BY <1>2, <1>4, <2>1, <2>2, <2>3
<1>8. \A j \in DOMAIN slots' : j \in DOMAIN slots /\ slots'[j] = IF j = b THEN m ELSE slots[j]
    BY <1>2
<1>9. \A j \in DOMAIN slots' : B(j) # j => slots'[j] = ranked[j]
    BY <1>4, <1>5, <1>8
<1>10. A(todo', b) = A(todo, b) \cup {i}
    <2>1. ASSUME NEW j \in D, j # i PROVE <<j, b>> \in todo' <=> <<j, b>> \in todo
        BY <1>2, <1>5, <2>1
    <2>2. i \in A(todo', b)
        BY <1>2, <1>4, <1>5 DEF Absorbed, B
    <2>3. ASSUME NEW j \in D, j # i PROVE j \in A(todo', b) <=> j \in A(todo, b)
        BY <1>4, <2>1, <2>3 DEF Absorbed
    <2>4. \A j \in A(todo', b) \cup A(todo, b) : j \in D
        BY <1>4 DEF Absorbed
    <2> HIDE DEF A
    <2> QED BY <1>5, <2>2, <2>3, <2>4
<1>11. ASSUME NEW c \in D, c # b PROVE A(todo', c) = A(todo, c)
    <2>1. \A j \in D : <<j, c>> \in todo' <=> <<j, c>> \in todo
        BY <1>2, <1>5, <1>11
    <2> QED BY <1>4, <2>1 DEF Absorbed
<1>12. Merges(ranked, m, b, A(todo', b))
    <2> DEFINE s == slots[b]
               o == ranked[i]
               P == A(todo, b)
    <2>1. Merges(ranked, s, b, P)
        BY <1>4, <1>5, <1>6
    <2>2. o.ident[4] # Missing
        BY <1>1, <1>5 DEF Collects, Stands, D
    <2>3. m = MergeDocs(s, o)
        BY <1>6
    <2> HIDE DEF s, o, P, m
    <2>4. /\ m.fused = s.fused /\ m.sources = s.sources \cup o.sources
        BY <2>3 DEF MergeDocs
    <2>5. m.ident[4] # Missing /\ IdentityKey(m) \in {IdentityKey(s), IdentityKey(o)}
        BY <2>1, <2>2, <2>3, MergedKey DEF Merges
    <2>6. A(todo', b) = P \cup {i}
        BY <1>10 DEF P
    <2>7. \E j \in P \cup {i} : IdentityKey(m) = IdentityKey(ranked[j])
        BY <2>1, <2>5 DEF Merges, o
    <2>8. m.sources = UNION {ranked[j].sources : j \in P \cup {i}}
        <3>1. s.sources = UNION {ranked[j].sources : j \in P}
            BY <2>1 DEF Merges
        <3> QED BY <2>4, <3>1 DEF o
    <2>9. m.fused = ranked[b].fused
        BY <2>1, <2>4 DEF Merges
    <2> HIDE DEF A
    <2> QED BY <2>5, <2>6, <2>7, <2>8, <2>9 DEF Merges
<1>13. ASSUME NEW c \in DOMAIN slots', B(c) = c PROVE Merges(ranked, slots'[c], c, A(todo', c))
    <2>1. c \in D /\ c \in DOMAIN slots /\ slots'[c] = IF c = b THEN m ELSE slots[c]
        BY <1>7, <1>8
    <2>2. CASE c = b
        BY <1>12, <2>1, <2>2
    <2>3. CASE c # b
        BY <1>4, <1>11, <1>13, <2>1, <2>3
    <2> QED BY <2>2, <2>3
<1>14. MergeInv'
    <2>1. todo' \subseteq todo
        BY <1>2
    <2> QED BY <1>2, <1>4, <1>7, <1>9, <1>13, <2>1 DEF MergeInv, B, D
<1>15. AnswerInv' /\ ArrivedInv' /\ Partition'
    BY <1>1, <1>2 DEF AnswerInv, ArrivedInv, Partition
<1> QED BY <1>1, <1>2, <1>14, <1>15 DEF Inv

LEMMA DeliverStep ==
    ASSUME Inv, Deliver
    PROVE  Inv'
<1>1. /\ AnswerInv /\ ArrivedInv /\ Partition /\ MergeInv /\ phase = "merge" /\ todo = {}
      /\ Collects(answer, ranked, Found(answer))
    BY DEF Inv, Deliver
<1> DEFINE kept == InOrder(DOMAIN slots, Ascending(DOMAIN slots))
<1>2. /\ phase' = "done" /\ answer' = answer /\ arrived' = arrived /\ ranked' = ranked
      /\ parent' = parent /\ todo' = todo /\ slots' = slots
      /\ merged' = [n \in DOMAIN kept |-> slots[kept[n]]]
    BY DEF Deliver
<1>3. DOMAIN kept = 1..Cardinality(DOMAIN slots)
    BY DEF InOrder
<1> HIDE DEF kept
<1>4. DoneInv'
    BY <1>1, <1>2, <1>3 DEF DoneInv, kept
<1>5. AnswerInv' /\ ArrivedInv' /\ Partition' /\ MergeInv'
    BY <1>1, <1>2 DEF AnswerInv, ArrivedInv, Partition, MergeInv
<1> QED BY <1>1, <1>2, <1>4, <1>5 DEF Inv

LEMMA StutterStep ==
    ASSUME Inv, UNCHANGED fusionVars
    PROVE  Inv'
<1>1. /\ phase' = phase /\ answer' = answer /\ arrived' = arrived /\ ranked' = ranked /\ docs' = docs
      /\ parent' = parent /\ buckets' = buckets /\ todo' = todo /\ slots' = slots /\ merged' = merged
    BY DEF fusionVars
<1>2. AnswerInv' = AnswerInv /\ ArrivedInv' = ArrivedInv /\ FuseInv' = FuseInv
    BY <1>1 DEF AnswerInv, ArrivedInv, FuseInv
<1>3. UnionInv' = UnionInv /\ Partition' = Partition
    BY <1>1 DEF UnionInv, Partition
<1>4. MergeInv' = MergeInv /\ DoneInv' = DoneInv
    BY <1>1 DEF MergeInv, DoneInv
<1> QED BY <1>1, <1>2, <1>3, <1>4 DEF Inv

LEMMA InvStep == Inv /\ [FusionNext]_fusionVars => Inv'
<1> SUFFICES ASSUME Inv, [FusionNext]_fusionVars PROVE Inv'
    OBVIOUS
<1>1. ASSUME NEW s \in Sources, Collect(s) PROVE Inv'
    BY <1>1, CollectStep
<1>2. CASE StartFuse
    BY <1>2, StartFuseStep
<1>3. ASSUME NEW e \in todo, FuseNext(e) PROVE Inv'
    BY <1>3, FuseNextStep
<1>4. CASE Rank
    BY <1>4, RankStep
<1>5. ASSUME NEW b \in buckets, Visit(b) PROVE Inv'
    BY <1>5, VisitStep
<1>6. ASSUME NEW e \in todo, Compare(e) PROVE Inv'
    BY <1>6, CompareStep
<1>7. CASE StartMerge
    BY <1>7, StartMergeStep
<1>8. ASSUME NEW e \in todo, MergeNext(e) PROVE Inv'
    BY <1>8, MergeNextStep
<1>9. CASE Deliver
    BY <1>9, DeliverStep
<1>10. CASE UNCHANGED fusionVars
    BY <1>10, StutterStep
<1> QED BY <1>1, <1>2, <1>3, <1>4, <1>5, <1>6, <1>7, <1>8, <1>9, <1>10 DEF FusionNext, Finished

LEMMA InvHolds == FusionSpec => []Inv
BY InvInit, InvStep, PTL DEF FusionSpec

-----------------------------------------------------------------------------
(* fuse (fusion.rs:19): whatever the answers and the order in which they   *)
(* arrive, every identity that was found is ranked once, with the sum of   *)
(* the reciprocal ranks of all its finds.                                  *)
THEOREM ScoresAreRRF == FusionSpec => []FusedIsRRF
<1>1. Inv => FusedIsRRF
    <2> SUFFICES ASSUME Inv, phase \in {"union", "merge", "done"} PROVE FusedIsRRF
        BY DEF FusedIsRRF
    <2>1. AnswerInv /\ Collects(answer, ranked, Found(answer))
        BY DEF Inv
    <2>2. ASSUME NEW i \in DOMAIN ranked
          PROVE  ranked[i].fused = ReciprocalRanks(FoundAs(answer, IdentityKey(ranked[i])))
        <3> DEFINE S == FoundAs(answer, IdentityKey(ranked[i]))
        <3>1. S = OfKey(answer, IdentityKey(ranked[i]), Found(answer))
            BY DEF FoundAs, OfKey
        <3>2. ranked[i].fused = SumOf(Share, S)
            BY <2>1, <3>1 DEF Collects, Stands
        <3>3. S \in SUBSET AllFinds
            BY <2>1, Finds DEF FoundAs
        <3> HIDE DEF S
        <3>4. ranked[i].fused = ReciprocalRanks(S)
            BY <3>2, <3>3, RanksAreSum
        <3> QED BY <3>4 DEF S
    <2> QED BY <2>1, <2>2 DEF FusedIsRRF, Collects
<1> QED BY <1>1, InvHolds, PTL

(* What is delivered: the bases in ascending order.                        *)
LEMMA Delivered ==
    ASSUME Inv, phase = "done"
    PROVE  LET D == DOMAIN ranked
               F == {i \in D : BaseOf(parent, i) = i}
           IN  /\ F = DOMAIN slots /\ F \in SUBSET Nat /\ IsFiniteSet(F)
               /\ Cardinality(F) \in Nat
               /\ merged = [n \in 1..Cardinality(F) |-> slots[InOrder(F, Ascending(F))[n]]]
               /\ \A n \in 1..Cardinality(F) :
                     /\ InOrder(F, Ascending(F))[n] \in F
                     /\ Place(F, Ascending(F), InOrder(F, Ascending(F))[n]) = n - 1
               /\ \A i \in F : /\ Place(F, Ascending(F), i) + 1 \in 1..Cardinality(F)
                               /\ InOrder(F, Ascending(F))[Place(F, Ascending(F), i) + 1] = i
<1> DEFINE D == DOMAIN ranked
           F == {i \in D : BaseOf(parent, i) = i}
<1>1. MergeInv /\ DoneInv /\ todo = {} /\ Collects(answer, ranked, Found(answer))
    BY DEF Inv, DoneInv
<1>2. DOMAIN slots = F
    BY <1>1 DEF MergeInv
<1>3. Len(ranked) \in Nat /\ D = 1..Len(ranked)
    BY <1>1 DEF Collects
<1>4. F \in SUBSET D /\ F \in SUBSET Nat
    BY <1>3
<1>5. IsFiniteSet(F)
    <2> HIDE DEF F
    <2>1. IsFiniteSet(1..Len(ranked))
        BY <1>3, FS_Interval
    <2> QED BY <1>3, <1>4, <2>1, FS_Subset
<1> HIDE DEF F
<1>6. merged = [n \in 1..Cardinality(F) |-> slots[InOrder(F, Ascending(F))[n]]]
    BY <1>1, <1>2 DEF DoneInv
<1>7. Orders(Ascending(F), F)
    BY <1>4, AscendingOrders
<1>8. Cardinality(F) \in Nat
    BY <1>5, FS_CardinalityType
<1> DEFINE R == Ascending(F)
<1> HIDE DEF R
<1>9. /\ \A n \in 1..Cardinality(F) : InOrder(F, R)[n] \in F /\ Place(F, R, InOrder(F, R)[n]) = n - 1
      /\ \A i \in F : /\ Place(F, R, i) + 1 \in 1..Cardinality(F)
                      /\ InOrder(F, R)[Place(F, R, i) + 1] = i
    BY <1>5, <1>7, Listing DEF R
<1> QED BY <1>2, <1>4, <1>5, <1>6, <1>8, <1>9 DEF F, R

(* merge_docs (dedup.rs:23) fills in identifiers of a document that was    *)
(* entered under another key: still no two documents of a report have the  *)
(* same identity, because the key of a merged document is the key of one   *)
(* of its group, and groups are disjoint.                                  *)
THEOREM IdentitiesAreUnique == FusionSpec => []UniqueIdentity
<1>1. ASSUME Inv PROVE UniqueIdentity
    <2>1. CASE phase # "done"
        <3>1. merged = <<>>
            BY <1>1, <2>1 DEF Inv
        <3> QED BY <3>1 DEF UniqueIdentity
    <2>2. CASE phase = "done"
        <3> DEFINE D == DOMAIN ranked
                   F == {i \in D : BaseOf(parent, i) = i}
                   R == Ascending(F)
                   kept == InOrder(F, R)
                   N == Cardinality(F)
        <3>1. /\ F = DOMAIN slots /\ N \in Nat
              /\ merged = [n \in 1..N |-> slots[kept[n]]]
              /\ \A n \in 1..N : kept[n] \in F /\ Place(F, R, kept[n]) = n - 1
            BY <1>1, <2>2, Delivered
        <3>2. MergeInv /\ Collects(answer, ranked, Found(answer)) /\ todo = {}
            BY <1>1, <2>2 DEF Inv, DoneInv
        <3>3. ASSUME NEW b \in F
              PROVE  \E j \in D : BaseOf(parent, j) = b /\ IdentityKey(slots[b]) = IdentityKey(ranked[j])
            <4>1. Merges(ranked, slots[b], b, Absorbed(parent, todo, b))
                BY <3>1, <3>2 DEF MergeInv
            <4>2. DOMAIN parent = D
                BY <3>2 DEF MergeInv
            <4> QED BY <4>1, <4>2 DEF Merges, Absorbed
        <3>4. \A i, j \in D : IdentityKey(ranked[i]) = IdentityKey(ranked[j]) => i = j
            BY <3>2 DEF Collects
        <3> HIDE DEF F, R, kept, N, D
        <3>5. ASSUME NEW m \in 1..N, NEW n \in 1..N, IdentityKey(merged[m]) = IdentityKey(merged[n])
              PROVE  m = n
            <4>1. kept[m] \in F /\ kept[n] \in F /\ merged[m] = slots[kept[m]] /\ merged[n] = slots[kept[n]]
                BY <3>1
            <4>2. kept[m] = kept[n]
                BY <3>3, <3>4, <3>5, <4>1
            <4>3. m - 1 = n - 1 /\ m \in Int /\ n \in Int
                BY <3>1, <4>2
            <4> QED BY <4>3
        <3>6. DOMAIN merged = 1..N
            BY <3>1
        <3> QED BY <3>5, <3>6 DEF UniqueIdentity
    <2> QED BY <2>1, <2>2
<1> QED BY <1>1, InvHolds, PTL

(* near_dedup (dedup.rs:77): in whatever order the buckets are visited,    *)
(* the groups are the connected components of the similarity graph, each   *)
(* at the place and with the score of its first document, and with the     *)
(* sources of all its finds.                                               *)
THEOREM GroupsAreTheComponents == FusionSpec => []GroupsAreComponents
<1>1. ASSUME Inv, phase = "done" PROVE GroupsAreComponents
    <2> DEFINE D == DOMAIN ranked
               F == {i \in D : BaseOf(parent, i) = i}
               R == Ascending(F)
               N == Cardinality(F)
               firsts == {i \in D : i = Min(Component(ranked, i))}
               keys(i) == {IdentityKey(ranked[j]) : j \in Component(ranked, i)}
               finds(i) == {f \in Found(answer) : IdentityKey(DocOf(answer, f)) \in keys(i)}
    <2>1. /\ Partition /\ MergeInv /\ Collects(answer, ranked, Found(answer)) /\ todo = {}
          /\ DOMAIN parent = D
        BY <1>1 DEF Inv, DoneInv, MergeInv
    <2>2. Len(ranked) \in Nat /\ D = 1..Len(ranked)
        BY <2>1 DEF Collects
    <2>3. ASSUME NEW i \in D PROVE BaseOf(parent, i) = Min(Component(ranked, i))
        <3>1. {j \in D : Root(parent, j) = Root(parent, i)} = Component(ranked, i)
            <4>1. Component(ranked, i) \in SUBSET D
                BY ComponentIs
            <4>2. \A j \in D : Root(parent, j) = Root(parent, i) <=> j \in Component(ranked, i)
                BY <2>1 DEF Partition
            <4> QED BY <4>1, <4>2
        <3> QED BY <2>1, <3>1 DEF BaseOf
    <2>4. firsts = F
        BY <2>3
    <2>5. /\ F = DOMAIN slots /\ F \in SUBSET Nat /\ IsFiniteSet(F) /\ N \in Nat
          /\ merged = [n \in 1..N |-> slots[InOrder(F, R)[n]]]
          /\ \A i \in F : Place(F, R, i) + 1 \in 1..N /\ InOrder(F, R)[Place(F, R, i) + 1] = i
        BY <1>1, Delivered
    <2>6. ASSUME NEW i \in F PROVE merged[Cardinality({j \in F : j <= i})] = slots[i]
        <3> DEFINE P == {j \in F : <<j, i>> \in R}
        <3>1. {j \in F : j <= i} = P \cup {i} /\ i \notin P /\ P \in SUBSET F
            <4>1. \A j \in F : <<j, i>> \in R <=> j < i
                BY DEF Ascending
            <4>2. \A j \in F : j \in Nat
                BY <2>5
            <4> HIDE DEF F, R
            <4> QED BY <4>1, <4>2
        <3>2. Place(F, R, i) = Cardinality(P)
            BY DEF Place
        <3> HIDE DEF F, R, P, N
        <3>3. IsFiniteSet(P)
            BY <2>5, <3>1, FS_Subset
        <3>4. Cardinality({j \in F : j <= i}) = Place(F, R, i) + 1
            BY <3>1, <3>2, <3>3, FS_AddElement
        <3> QED BY <2>5, <3>4
    <2>7. ASSUME NEW i \in F
          PROVE  /\ slots[i].fused = ranked[i].fused
                 /\ slots[i].sources = UNION {DocOf(answer, f).sources : f \in finds(i)}
        <3>1. i \in D /\ BaseOf(parent, i) = i
            OBVIOUS
        <3>2. Merges(ranked, slots[i], i, Absorbed(parent, todo, i))
            BY <2>1, <2>5, <3>1 DEF MergeInv
        <3>3. Absorbed(parent, todo, i) = Component(ranked, i)
            <4>1. ASSUME NEW j \in D PROVE BaseOf(parent, j) = i <=> j \in Component(ranked, i)
                <5>1. Root(parent, i) = Root(parent, j) <=> j \in Component(ranked, i)
                    BY <2>1, <3>1 DEF Partition
                <5>2. BaseOf(parent, j) = i => Root(parent, i) = Root(parent, j)
                    BY <2>1, <2>2, BaseIs
                <5>3. Root(parent, j) = Root(parent, i) => BaseOf(parent, j) = BaseOf(parent, i)
                    BY <2>1, <2>2, <3>1, BaseIs
                <5> QED BY <3>1, <5>1, <5>2, <5>3
            <4>2. Component(ranked, i) \in SUBSET D
                BY <3>1, ComponentIs
            <4> HIDE DEF D
            <4> QED BY <2>1, <4>1, <4>2 DEF Absorbed
        <3>4. ASSUME NEW j \in Component(ranked, i)
              PROVE  ranked[j].sources
                        = UNION {DocOf(answer, f).sources :
                                    f \in OfKey(answer, IdentityKey(ranked[j]), Found(answer))}
            <4>1. j \in D
                BY <3>1, ComponentIs
            <4> QED BY <2>1, <4>1 DEF Collects, Stands
        <3>5. UNION {ranked[j].sources : j \in Component(ranked, i)}
                = UNION {DocOf(answer, f).sources : f \in finds(i)}
            <4>1. ASSUME NEW s, NEW j \in Component(ranked, i), s \in ranked[j].sources
                  PROVE  \E f \in finds(i) : s \in DocOf(answer, f).sources
                <5>1. PICK f \in OfKey(answer, IdentityKey(ranked[j]), Found(answer)) :
                                s \in DocOf(answer, f).sources
                    BY <3>4, <4>1
                <5>2. f \in Found(answer) /\ IdentityKey(DocOf(answer, f)) = IdentityKey(ranked[j])
                    BY DEF OfKey
                <5> QED BY <5>1, <5>2
            <4>2. ASSUME NEW s, NEW f \in finds(i), s \in DocOf(answer, f).sources
                  PROVE  \E j \in Component(ranked, i) : s \in ranked[j].sources
                <5>1. PICK j \in Component(ranked, i) : IdentityKey(DocOf(answer, f)) = IdentityKey(ranked[j])
                    OBVIOUS
                <5>2. f \in OfKey(answer, IdentityKey(ranked[j]), Found(answer))
                    BY <5>1 DEF OfKey
                <5> QED BY <3>4, <4>2, <5>1, <5>2
            <4> HIDE DEF finds
            <4> QED BY <4>1, <4>2
        <3> HIDE DEF finds
        <3> QED BY <3>2, <3>3, <3>5 DEF Merges
    <2>8. Len(merged) = N
        <3> HIDE DEF N
        <3> QED BY <2>5
    <2>9. ASSUME NEW i \in F
          PROVE  LET d == merged[Cardinality({j \in F : j <= i})]
                 IN  /\ d.fused = ranked[i].fused
                     /\ d.sources = UNION {DocOf(answer, f).sources : f \in finds(i)}
        <3> HIDE DEF F, finds
        <3> QED BY <2>6, <2>7
    <2>10. Len(merged) = Cardinality(firsts)
        BY <2>4, <2>8
    <2>11. ASSUME NEW i \in firsts
          PROVE  LET d == merged[Cardinality({j \in firsts : j <= i})]
                 IN  /\ d.fused = ranked[i].fused
                     /\ d.sources = UNION {DocOf(answer, f).sources : f \in finds(i)}
        <3> HIDE DEF F, finds, firsts
        <3> QED BY <2>4, <2>9
    <2> QED BY <2>10, <2>11 DEF GroupsAreComponents
<1>2. Inv => GroupsAreComponents
    BY <1>1 DEF GroupsAreComponents
<1> QED BY <1>2, InvHolds, PTL
=============================================================================
