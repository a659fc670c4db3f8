--------------------------- MODULE SpanMapProofs ---------------------------
(***************************************************************************)
(* Proofs about the span tables of rust_pii_transformer, for texts of any  *)
(* length over any alphabet.                                               *)
(*                                                                         *)
(*   - Points: the points of a text rise in bytes exactly as they rise in  *)
(*     characters, so comparing bytes, as the code does, orders both.      *)
(*   - Tables: validate accepts a table of sound segments; append_segment  *)
(*     keeps it sound.                                                     *)
(*   - compose: walked from one cut to the next, two tables that share a   *)
(*     text make a table.  It never finds a point inside a segment that    *)
(*     cannot be taken across, and never runs out of segments.             *)
(*   - The builder: calls that hand over a text, piece by piece, make a    *)
(*     table from it to what they write.                                   *)
(*                                                                         *)
(* A loop is unrolled into the sequence of its values first (CutRun,       *)
(* WalkRun, BuildRun): that the recursive function of Repeat exists is     *)
(* shown by induction over its bound.                                      *)
(***************************************************************************)
EXTENDS SpanMap, DataInduction, SequenceTheorems, TLAPS

(* The characters that have a width, and the widths of those of a text.    *)
Chars == DOMAIN Width
Weight(s) == [k \in DOMAIN s |-> Width[s[k]]]

(* The size of a text is a sum over its characters.                        *)
LEMMA SizeIsSum ==
    ASSUME NEW s, IsFiniteSet(DOMAIN s)
    PROVE  Size(s) = <<SumOf(Weight(s), DOMAIN s), Len(s)>>
<1> DEFINE S == DOMAIN s
           N(T, F) == Width[s[CHOOSE x \in T : TRUE]] + F[T \ {CHOOSE x \in T : TRUE}]
           E(F) == [T \in SUBSET S |-> IF T = {} THEN 0 ELSE N(T, F)]
           W(F) == [T \in SUBSET S |->
                      IF T = {} THEN 0 ELSE Weight(s)[Taken(T)] + F[T \ {Taken(T)}]]
           I == CHOOSE F : F = E(F)
<1>1. ASSUME NEW F PROVE E(F) = W(F)
    <2>1. ASSUME NEW T \in SUBSET S, T # {}
          PROVE  N(T, F) = Weight(s)[Taken(T)] + F[T \ {Taken(T)}]
        <3>1. Taken(T) \in S
            BY <2>1, TakenIsIn
        <3>2. Weight(s)[Taken(T)] = Width[s[Taken(T)]]
            BY <3>1 DEF Weight
        <3>3. N(T, F) = Width[s[Taken(T)]] + F[T \ {Taken(T)}]
            BY Zenon DEF Taken
        <3> HIDE DEF N
        <3> QED BY <3>2, <3>3
    <2> HIDE DEF N, S
    <2> QED BY <2>1
<1>2. \E F : F = E(F)
    <2>1. PICK F : Sums(F, Weight(s), S)
        BY SumsExist
    <2>2. F = W(F)
        BY <2>1, Zenon DEF Sums
    <2>3. F = E(F)
        <3> HIDE DEF E, W
        <3> QED BY <1>1, <2>2
    <2> QED BY <2>3, Zenon
<1>3. I = E(I)
    <2> HIDE DEF E
    <2> QED BY <1>2, Zenon
<1>4. Sums(I, Weight(s), S)
    <2>1. I = W(I)
        <3> HIDE DEF E, W, I
        <3> QED BY <1>1, <1>3
    <2> HIDE DEF I
    <2> QED BY <2>1, Zenon DEF Sums
<1>5. MapThenSumSet(LAMBDA k : Width[s[k]], DOMAIN s) = I[S]
    BY Zenon DEF MapThenSumSet, MapThenFoldSet
<1>6. I[S] = SumOf(Weight(s), S)
    <2>1. PICK T \in SUBSET S : T = S
        OBVIOUS
    <2>2. ASSUME NEW F, Sums(F, Weight(s), S) PROVE F[T] = SumOf(Weight(s), T)
        BY <2>2, SumIs
    <2> HIDE DEF I, S
    <2> QED BY <1>4, <2>1, <2>2
<1> HIDE DEF I
<1> QED BY <1>5, <1>6 DEF Size

(* The size of a text counts its characters; a character adds its width.   *)
LEMMA SizeRules ==
    /\ Size(<<>>) = Origin
    /\ \A s \in Seq(Chars) : Size(s) \in Nat \X Nat /\ Size(s)[2] = Len(s)
    /\ \A s \in Seq(Chars), c \in Chars : Size(Append(s, c)) = Move(Size(s), <<Width[c], 1>>)
<1>1. ASSUME NEW s \in Seq(Chars)
      PROVE  /\ IsFiniteSet(DOMAIN s) /\ DOMAIN s = 1..Len(s) /\ Len(s) \in Nat
             /\ \A k \in DOMAIN s : Weight(s)[k] = Width[s[k]] /\ Weight(s)[k] \in Nat
    <2>1. DOMAIN s = 1..Len(s) /\ Len(s) \in Nat
        OBVIOUS
    <2>2. IsFiniteSet(DOMAIN s)
        BY <2>1, FS_Interval
    <2>3. \A k \in DOMAIN s : Weight(s)[k] = Width[s[k]] /\ Width[s[k]] \in Nat
        BY WidthAssumption DEF Weight, Chars
    <2> QED BY <2>1, <2>2, <2>3
<1>2. Size(<<>>) = Origin
    <2>1. <<>> \in Seq(Chars) /\ DOMAIN <<>> = {} /\ Len(<<>>) = 0
        OBVIOUS
    <2>2. IsFiniteSet(DOMAIN <<>>)
        BY <1>1, <2>1
    <2>3. Size(<<>>) = <<SumOf(Weight(<<>>), DOMAIN <<>>), Len(<<>>)>>
        BY <2>2, SizeIsSum
    <2>4. SumOf(Weight(<<>>), {}) = 0
        BY <2>1, <2>2, SumRules
    <2> QED BY <2>1, <2>3, <2>4 DEF Origin
<1>3. ASSUME NEW s \in Seq(Chars) PROVE Size(s) \in Nat \X Nat /\ Size(s)[2] = Len(s)
    <2>1. Size(s) = <<SumOf(Weight(s), DOMAIN s), Len(s)>>
        BY <1>1, SizeIsSum
    <2>2. SumOf(Weight(s), DOMAIN s) \in Nat
        BY <1>1, SumGrows
    <2> QED BY <1>1, <2>1, <2>2
<1>4. ASSUME NEW s \in Seq(Chars), NEW c \in Chars
      PROVE  Size(Append(s, c)) = Move(Size(s), <<Width[c], 1>>)
    <2> DEFINE t == Append(s, c)
               n == Len(s)
    <2>1. /\ t \in Seq(Chars) /\ Len(t) = n + 1 /\ DOMAIN t = 1..(n + 1) /\ DOMAIN s = 1..n
          /\ n \in Nat /\ t[n + 1] = c /\ \A k \in 1..n : t[k] = s[k]
        OBVIOUS
    <2> HIDE DEF t, n
    <2>2. DOMAIN s = DOMAIN t \ {n + 1} /\ n + 1 \in DOMAIN t
        BY <2>1
    <2>3. SumOf(Weight(t), DOMAIN t) = Weight(t)[n + 1] + SumOf(Weight(t), DOMAIN s)
        <3>1. \A x \in DOMAIN t : Weight(t)[x] \in Int
            BY <1>1, <2>1
        <3>2. IsFiniteSet(DOMAIN t)
            BY <1>1, <2>1
        <3>3. \A x \in DOMAIN t :
                SumOf(Weight(t), DOMAIN t) = Weight(t)[x] + SumOf(Weight(t), DOMAIN t \ {x})
            BY <3>1, <3>2, SumRules
        <3> QED BY <2>2, <3>3
    <2>4. SumOf(Weight(t), DOMAIN s) = SumOf(Weight(s), DOMAIN s)
        <3>1. \A k \in DOMAIN s : Weight(t)[k] = Weight(s)[k]
            BY <2>1 DEF Weight
        <3> QED BY <1>1, <3>1, SumSame
    <2>5. Weight(t)[n + 1] = Width[c] /\ Width[c] \in Nat
        BY <1>1, <2>1, <2>2
    <2>6. /\ Size(s) = <<SumOf(Weight(s), DOMAIN s), n>> /\ SumOf(Weight(s), DOMAIN s) \in Nat
          /\ Size(t) = <<SumOf(Weight(t), DOMAIN t), n + 1>>
        BY <1>1, <2>1, SizeIsSum, SumGrows DEF n
    <2>7. Move(Size(s), <<Width[c], 1>>) = <<SumOf(Weight(s), DOMAIN s) + Width[c], n + 1>>
        BY <2>6 DEF Move
    <2> QED BY <2>3, <2>4, <2>5, <2>6, <2>7 DEF t
<1> QED BY <1>2, <1>3, <1>4

(* A point is moved by two distances one after the other.                  *)
LEMMA MoveOn ==
    ASSUME NEW a \in Nat \X Nat, NEW b \in Nat \X Nat, NEW d \in Nat
    PROVE  Move(Move(a, b), <<d, 1>>) = Move(a, Move(b, <<d, 1>>))
<1>1. a[1] + b[1] + d = a[1] + (b[1] + d) /\ a[2] + b[2] + 1 = a[2] + (b[2] + 1)
    OBVIOUS
<1> QED BY <1>1 DEF Move

(* The size of a text is the size of its parts.                            *)
LEMMA SizeConcat ==
    ASSUME NEW s \in Seq(Chars), NEW t \in Seq(Chars)
    PROVE  Size(s \o t) = Move(Size(s), Size(t))
<1> DEFINE Q(n) == \A u \in Seq(Chars) : Len(u) = n => Size(s \o u) = Move(Size(s), Size(u))
           T == {n \in Nat : Q(n)}
<1>1. Q(0)
    <2> SUFFICES ASSUME NEW u \in Seq(Chars), Len(u) = 0 PROVE Size(s \o u) = Move(Size(s), Size(u))
        OBVIOUS
    <2>1. u = <<>> /\ s \o u = s
        BY EmptySeq, ConcatEmptySeq
    <2>2. Size(s) \in Nat \X Nat /\ Size(u) = <<0, 0>>
        BY <2>1, SizeRules DEF Origin
    <2> QED BY <2>1, <2>2 DEF Move
<1>2. ASSUME NEW n \in Nat, Q(n) PROVE Q(n + 1)
    <2> SUFFICES ASSUME NEW u \in Seq(Chars), Len(u) = n + 1
                 PROVE  Size(s \o u) = Move(Size(s), Size(u))
        OBVIOUS
    <2>1. PICK v \in Seq(Chars), c \in Chars : u = Append(v, c)
        <3>1. u # <<>>
            BY EmptySeq
        <3> QED BY <3>1, SequenceEmptyOrAppend
    <2>2. Len(v) = n
        BY <2>1, AppendProperties
    <2>3. s \o u = Append(s \o v, c) /\ s \o v \in Seq(Chars)
        <3>1. <<c>> \in Seq(Chars)
            OBVIOUS
        <3>2. u = v \o <<c>>
            BY <2>1, AppendIsConcat
        <3>3. s \o v \in Seq(Chars)
            BY ConcatProperties
        <3>4. (s \o v) \o <<c>> = s \o (v \o <<c>>)
            BY <3>1, ConcatAssociative
        <3>5. Append(s \o v, c) = (s \o v) \o <<c>>
            BY <3>3, AppendIsConcat
        <3> QED BY <3>2, <3>3, <3>4, <3>5
    <2>4. Size(s \o v) = Move(Size(s), Size(v))
        BY <1>2, <2>2
    <2>5. Size(s \o u) = Move(Size(s \o v), <<Width[c], 1>>) /\ Size(u) = Move(Size(v), <<Width[c], 1>>)
        BY <2>1, <2>3, SizeRules
    <2>6. Size(s) \in Nat \X Nat /\ Size(v) \in Nat \X Nat /\ Width[c] \in Nat
        BY SizeRules, WidthAssumption DEF Chars
    <2> DEFINE a == Size(s)
               b == Size(v)
               d == Width[c]
    <2>8. Size(s \o u) = Move(Move(a, b), <<d, 1>>) /\ Move(a, Size(u)) = Move(a, Move(b, <<d, 1>>))
        BY <2>4, <2>5
    <2>9. Move(Move(a, b), <<d, 1>>) = Move(a, Move(b, <<d, 1>>))
        BY <2>6, MoveOn DEF a, b, d
    <2> QED BY <2>8, <2>9 DEF a
<1>3. 0 \in T /\ \A n \in Nat : n \in T => n + 1 \in T
    <2> HIDE DEF Q
    <2> QED BY <1>1, <1>2
<1>4. \A n \in Nat : n \in T
    <2> HIDE DEF T
    <2> QED BY <1>3, SetInduction
<1>5. Len(t) \in Nat
    BY LenProperties
<1> QED BY <1>4, <1>5

(* A text that is not empty has a size above zero.                         *)
LEMMA SizeGrows ==
    ASSUME NEW s \in Seq(Chars), s # <<>>
    PROVE  Size(s)[1] > 0 /\ Size(s)[2] > 0
<1>1. PICK v \in Seq(Chars), c \in Chars : s = Append(v, c)
    BY SequenceEmptyOrAppend
<1>2. Size(s) = Move(Size(v), <<Width[c], 1>>) /\ Size(v) \in Nat \X Nat
    BY <1>1, SizeRules
<1>3. Width[c] \in Nat \ {0}
    BY WidthAssumption DEF Chars
<1> QED BY <1>2, <1>3 DEF Move

(* The points of a text, and the place of one behind another.              *)
Points(t) == {PointAt(t, n) : n \in 0..Len(t)}

(* A point of a text is reached from an earlier one over what lies between *)
(* them.                                                                   *)
LEMMA PointStep ==
    ASSUME NEW t \in Seq(Chars), NEW p \in 0..Len(t), NEW q \in p..Len(t)
    PROVE  /\ SubSeq(t, p + 1, q) \in Seq(Chars) /\ Len(SubSeq(t, p + 1, q)) = q - p
           /\ PointAt(t, q) = Move(PointAt(t, p), Size(SubSeq(t, p + 1, q)))
<1> DEFINE u == SubSeq(t, 1, p)
           v == SubSeq(t, p + 1, q)
<1>1. Len(t) \in Nat /\ \A i \in 1..Len(t) : t[i] \in Chars
    BY LenProperties, ElementOfSeq
<1>2. p \in Int /\ q \in Int /\ p + 1 \in Int /\ 1 \in 1..Len(t) + 1 /\ p \in 1 - 1..Len(t) /\ q \in p..Len(t)
    BY <1>1
<1>3. u \in Seq(Chars)
    BY <1>1, <1>2, SubSeqProperties
<1>4. v \in Seq(Chars) /\ Len(v) = q - p
    <2>1. \A i \in p + 1..q : t[i] \in Chars
        BY <1>1, <1>2
    <2> QED BY <1>2, <2>1, SubSeqProperties
<1>5. u \o v = SubSeq(t, 1, q)
    BY <1>2, ConcatAdjacentSubSeq
<1>6. Size(u \o v) = Move(Size(u), Size(v))
    BY <1>3, <1>4, SizeConcat
<1> QED BY <1>4, <1>5, <1>6 DEF PointAt

(* The points of a text are as many as its characters and rise in bytes.   *)
LEMMA PointRules ==
    ASSUME NEW t \in Seq(Chars)
    PROVE  /\ \A n \in 0..Len(t) : PointAt(t, n) \in Nat \X Nat /\ PointAt(t, n)[2] = n
           /\ PointAt(t, 0) = Origin /\ PointAt(t, Len(t)) = Size(t)
           /\ \A p, q \in 0..Len(t) : p < q => PointAt(t, p)[1] < PointAt(t, q)[1]
<1>1. Len(t) \in Nat /\ \A i \in 1..Len(t) : t[i] \in Chars
    BY LenProperties, ElementOfSeq
<1>2. ASSUME NEW n \in 0..Len(t) PROVE PointAt(t, n) \in Nat \X Nat /\ PointAt(t, n)[2] = n
    <2>1. SubSeq(t, 1, n) \in Seq(Chars) /\ Len(SubSeq(t, 1, n)) = n
        <3>1. 1 \in Int /\ n \in Int /\ \A i \in 1..n : t[i] \in Chars
            BY <1>1
        <3> QED BY <3>1, SubSeqProperties
    <2> QED BY <2>1, SizeRules DEF PointAt
<1>3. PointAt(t, 0) = Origin
    <2>1. SubSeq(t, 1, 0) = <<>>
        BY SubSeqEmpty
    <2> QED BY <2>1, SizeRules DEF PointAt
<1>4. PointAt(t, Len(t)) = Size(t)
    BY SubSeqFull DEF PointAt
<1>5. ASSUME NEW p \in 0..Len(t), NEW q \in 0..Len(t), p < q
      PROVE  PointAt(t, p)[1] < PointAt(t, q)[1]
    <2> DEFINE v == SubSeq(t, p + 1, q)
    <2>1. q \in p..Len(t) /\ q - p # 0
        BY <1>1, <1>5
    <2>2. v \in Seq(Chars) /\ Len(v) = q - p /\ PointAt(t, q) = Move(PointAt(t, p), Size(v))
        BY <2>1, PointStep
    <2> HIDE DEF v
    <2>3. v # <<>>
        BY <2>1, <2>2, EmptySeq
    <2>4. Size(v) \in Nat \X Nat /\ Size(v)[1] > 0
        BY <2>2, <2>3, SizeRules, SizeGrows
    <2>5. PointAt(t, p) \in Nat \X Nat
        BY <1>2
    <2> QED BY <2>2, <2>4, <2>5 DEF Move
<1> QED BY <1>2, <1>3, <1>4, <1>5

(* Points of a text: of two points the one with more bytes is the one with *)
(* more characters.                                                        *)
Ruler(P) ==
    /\ P \subseteq Nat \X Nat
    /\ \A p, q \in P : p[1] < q[1] <=> p[2] < q[2]

(* The points of a text form a ruler, from the origin to its size.         *)
LEMMA PointsRuled ==
    ASSUME NEW t \in Seq(Chars)
    PROVE  Ruler(Points(t)) /\ Origin \in Points(t) /\ Size(t) \in Points(t)
<1>1. Len(t) \in Nat /\ 0 \in 0..Len(t) /\ Len(t) \in 0..Len(t)
    BY LenProperties
<1>2. /\ \A n \in 0..Len(t) : PointAt(t, n) \in Nat \X Nat /\ PointAt(t, n)[2] = n
      /\ PointAt(t, 0) = Origin /\ PointAt(t, Len(t)) = Size(t)
      /\ \A p, q \in 0..Len(t) : p < q => PointAt(t, p)[1] < PointAt(t, q)[1]
    BY PointRules
<1>3. ASSUME NEW x \in Points(t), NEW y \in Points(t) PROVE x[1] < y[1] <=> x[2] < y[2]
    <2>1. PICK p \in 0..Len(t), q \in 0..Len(t) : x = PointAt(t, p) /\ y = PointAt(t, q)
        BY DEF Points
    <2>2. x[2] = p /\ y[2] = q /\ x[1] \in Nat /\ y[1] \in Nat /\ p \in Nat /\ q \in Nat
        BY <1>1, <1>2, <2>1
    <2>3. (p < q => x[1] < y[1]) /\ (q < p => y[1] < x[1]) /\ (p = q => x[1] = y[1])
        BY <1>2, <2>1
    <2> QED BY <2>2, <2>3
<1>4. Points(t) \subseteq Nat \X Nat
    BY <1>2 DEF Points
<1>5. Origin \in Points(t) /\ Size(t) \in Points(t)
    BY <1>1, <1>2 DEF Points
<1> QED BY <1>3, <1>4, <1>5 DEF Ruler

(* A text that goes on keeps its points and has those of what is added.    *)
LEMMA PointsGrow ==
    ASSUME NEW s \in Seq(Chars), NEW t \in Seq(Chars)
    PROVE  /\ Points(s) \subseteq Points(s \o t)
           /\ \A n \in 0..Len(t) : Move(Size(s), PointAt(t, n)) \in Points(s \o t)
<1> DEFINE u == s \o t
<1>1. Len(s) \in Nat /\ Len(t) \in Nat /\ u \in Seq(Chars) /\ Len(u) = Len(s) + Len(t)
    BY LenProperties, ConcatProperties
<1>2. ASSUME NEW n \in 0..Len(s) PROVE n \in 0..Len(u) /\ PointAt(u, n) = PointAt(s, n)
    <2>0. n \in 0..Len(u)
        <3> HIDE DEF u
        <3> QED BY <1>1
    <2>1. CASE n = 0
        <3>1. SubSeq(u, 1, 0) = <<>> /\ SubSeq(s, 1, 0) = <<>>
            BY SubSeqEmpty
        <3> QED BY <2>0, <2>1, <3>1, Zenon DEF PointAt
    <2>2. CASE n # 0
        <3>1. n \in 1..Len(s) /\ 1 \in 1..Len(s)
            BY <1>1, <2>2
        <3>2. SubSeq(s \o t, 1, n) = SubSeq(s, 1, n)
            BY <3>1, SubSeqOfConcat1
        <3> QED BY <2>0, <3>2, Zenon DEF PointAt
    <2> QED BY <2>1, <2>2
<1>3. Points(s) \subseteq Points(u)
    <2> HIDE DEF u
    <2> QED BY <1>2 DEF Points
<1>4. ASSUME NEW n \in 0..Len(t) PROVE Move(Size(s), PointAt(t, n)) \in Points(u)
    <2>1. Len(s) \in 0..Len(s) /\ PointAt(s, Len(s)) = Size(s)
        BY <1>1, PointRules
    <2>2. PointAt(u, Len(s)) = Size(s) /\ Len(s) \in 0..Len(u)
        BY <1>2, <2>1
    <2>3. Len(s) + n \in Len(s)..Len(u) /\ Len(s) + n \in 0..Len(u)
        BY <1>1
    <2>4. PointAt(u, Len(s) + n) = Move(Size(s), Size(SubSeq(u, Len(s) + 1, Len(s) + n)))
        BY <1>1, <2>2, <2>3, PointStep
    <2>5. SubSeq(u, Len(s) + 1, Len(s) + n) = SubSeq(t, 1, n)
        <3>1. CASE n = 0
            BY <1>1, <3>1, SubSeqEmpty
        <3>2. CASE n # 0
            <4>1. Len(s) + 1 \in Len(s) + 1..Len(s) + Len(t) /\ Len(s) + n \in Len(s) + 1..Len(s) + Len(t)
                BY <1>1, <3>2
            <4>2. SubSeq(u, Len(s) + 1, Len(s) + n) = SubSeq(t, (Len(s) + 1) - Len(s), (Len(s) + n) - Len(s))
                BY <4>1, SubSeqOfConcat2
            <4>3. (Len(s) + 1) - Len(s) = 1 /\ (Len(s) + n) - Len(s) = n
                BY <1>1
            <4> QED BY <4>2, <4>3
        <3> QED BY <3>1, <3>2
    <2> HIDE DEF u
    <2> QED BY <2>3, <2>4, <2>5 DEF PointAt, Points
<1> QED BY <1>3, <1>4

-----------------------------------------------------------------------------
(* The order of points, and the point as far from c as p is from a.        *)
Le(p, q) == p[1] <= q[1] /\ p[2] <= q[2]
Shift(p, a, c) == <<c[1] + p[1] - a[1], c[2] + p[2] - a[2]>>

Kinds == {"identity", "delete", "expand", "replace"}

SameLength(s, t) == s.to[1] - s.from[1] = t.to[1] - t.from[1] /\ s.to[2] - s.from[2] = t.to[2] - t.from[2]

(* A segment from points of P to points of Q.                              *)
Sound(seg, P, Q) ==
    /\ seg.src.from \in P /\ seg.src.to \in P /\ seg.dst.from \in Q /\ seg.dst.to \in Q
    /\ seg.src.from[1] < seg.src.to[1] /\ Le(seg.src.from, seg.src.to) /\ Le(seg.dst.from, seg.dst.to)
    /\ seg.kind \in Kinds
    /\ seg.kind = "identity" => SameLength(seg.src, seg.dst) /\ seg.rules = {} /\ seg.cost = 0
    /\ seg.kind = "delete" => seg.dst.from[1] >= seg.dst.to[1]
    /\ seg.kind = "expand" => seg.dst.to[2] - seg.dst.from[2] > seg.src.to[2] - seg.src.from[2]
    /\ seg.kind = "replace" => seg.dst.from[1] < seg.dst.to[1]

Table(map_, P, Q) ==
    /\ IsSeq(map_)
    /\ Contiguous(map_)
    /\ \A k \in DOMAIN map_ : Sound(map_[k], P, Q)

(* validate accepts a sound segment.                                       *)
LEMMA SoundIsValid ==
    ASSUME NEW seg, NEW P \in SUBSET (Nat \X Nat), NEW Q \in SUBSET (Nat \X Nat), Sound(seg, P, Q)
    PROVE  ValidSegment(seg)
<1>1. \A s \in {seg.src, seg.dst} : ByteLen(s) >= 0 /\ CharLen(s) >= 0
    BY DEF Sound, Le, ByteLen, CharLen
<1>2. ~IsEmpty(seg.src)
    BY DEF Sound, IsEmpty, Byte
<1>3. seg.kind = "identity" => /\ ByteLen(seg.src) = ByteLen(seg.dst) /\ CharLen(seg.src) = CharLen(seg.dst)
                               /\ seg.rules = {} /\ seg.cost = 0
    BY DEF Sound, SameLength, ByteLen, CharLen
<1>4. seg.kind = "delete" => IsEmpty(seg.dst)
    BY DEF Sound, IsEmpty, Byte
<1>5. seg.kind = "expand" => CharLen(seg.dst) > CharLen(seg.src)
    BY DEF Sound, CharLen
<1>6. seg.kind = "replace" => ~IsEmpty(seg.dst)
    BY DEF Sound, IsEmpty, Byte
<1>7. seg.kind \in Kinds
    BY DEF Sound
<1> QED BY <1>1, <1>2, <1>3, <1>4, <1>5, <1>6, <1>7 DEF ValidSegment, Kinds

(* validate accepts a table of sound segments.                             *)
LEMMA TableIsValid ==
    ASSUME NEW m, NEW P \in SUBSET (Nat \X Nat), NEW Q \in SUBSET (Nat \X Nat), Table(m, P, Q)
    PROVE  Valid(m)
BY SoundIsValid DEF Table, Valid

(* backward_point and forward_point on a segment that is not empty on the  *)
(* side it is entered from.                                                *)
Legal(here, identity, p) ==
    p = here.from \/ p = here.to \/ (identity /\ here.from[1] < p[1] /\ p[1] < here.to[1])

Slope(here, there, identity, P) ==
    /\ here.from \in P /\ here.to \in P /\ here.from[1] < here.to[1]
    /\ there.from \in Nat \X Nat /\ there.to \in Nat \X Nat /\ Le(there.from, there.to)
    /\ identity \in BOOLEAN
    /\ identity => SameLength(here, there)

(* A point is the pair of its two offsets.                                 *)
LEMMA PairIs == \A x \in Nat \X Nat : x[1] \in Nat /\ x[2] \in Nat /\ x = <<x[1], x[2]>>
    OBVIOUS

(* Both offsets of a point are shifted alike.                              *)
LEMMA ShiftParts ==
    ASSUME NEW p \in Nat \X Nat, NEW a \in Nat \X Nat, NEW c \in Nat \X Nat
    PROVE  Shift(p, a, c)[1] = c[1] + p[1] - a[1] /\ Shift(p, a, c)[2] = c[2] + p[2] - a[2]
    BY DEF Shift

(* The start of a segment is taken to the start of its other side.         *)
LEMMA AcrossFrom ==
    ASSUME NEW here, NEW there, NEW identity
    PROVE  Across(here, there, identity, here.from) = there.from
BY DEF Across

(* The end of a segment is taken to the end of its other side.             *)
LEMMA AcrossTo ==
    ASSUME NEW here, NEW there, NEW identity, here.from[1] # here.to[1]
    PROVE  Across(here, there, identity, here.to) = there.to
BY DEF Across, Byte

(* A point of an identity segment is shifted.                              *)
LEMMA AcrossShift ==
    ASSUME NEW P, Ruler(P), NEW here, NEW there, Slope(here, there, TRUE, P),
           NEW p \in P, here.from[1] <= p[1], p[1] <= here.to[1]
    PROVE  Across(here, there, TRUE, p) = Shift(p, here.from, there.from)
<1>1. /\ here.from \in Nat \X Nat /\ here.to \in Nat \X Nat /\ p \in Nat \X Nat
      /\ there.from \in Nat \X Nat /\ there.to \in Nat \X Nat
      /\ here.from[1] < here.to[1]
    BY DEF Ruler, Slope
<1>2. CASE here.from[1] = p[1]
    <2>1. p[2] = here.from[2]
        BY <1>1, <1>2 DEF Ruler, Slope
    <2>2. Across(here, there, TRUE, p) = there.from
        BY <1>2 DEF Across, Byte
    <2>3. there.from[1] + p[1] - here.from[1] = there.from[1] /\ there.from[2] + p[2] - here.from[2] = there.from[2]
        BY <1>1, <1>2, <2>1
    <2>4. there.from = <<there.from[1], there.from[2]>>
        BY <1>1, PairIs
    <2> QED BY <2>2, <2>3, <2>4 DEF Shift
<1>3. CASE here.to[1] = p[1]
    <2>1. p[2] = here.to[2]
        BY <1>1, <1>3 DEF Ruler, Slope
    <2>2. Across(here, there, TRUE, p) = there.to
        BY <1>1, <1>3 DEF Across, Byte
    <2>3. there.from[1] + p[1] - here.from[1] = there.to[1] /\ there.from[2] + p[2] - here.from[2] = there.to[2]
        BY <1>1, <1>3, <2>1 DEF Slope, SameLength
    <2>4. there.to = <<there.to[1], there.to[2]>>
        BY <1>1, PairIs
    <2> QED BY <2>2, <2>3, <2>4 DEF Shift
<1>4. CASE here.from[1] # p[1] /\ here.to[1] # p[1]
    <2>1. here.from[1] < p[1] /\ p[1] < here.to[1]
        BY <1>1, <1>4
    <2> QED BY <1>1, <2>1 DEF Across, Byte, Shift
<1> QED BY <1>2, <1>3, <1>4

(* A point at which a segment may be cut is taken to a point of its other  *)
(* side.                                                                   *)
LEMMA AcrossIn ==
    ASSUME NEW P, Ruler(P), NEW here, NEW there, NEW identity, Slope(here, there, identity, P),
           NEW p \in P, Legal(here, identity, p)
    PROVE  /\ Across(here, there, identity, p) \in Nat \X Nat
           /\ Le(there.from, Across(here, there, identity, p))
           /\ Le(Across(here, there, identity, p), there.to)
           /\ here.from[1] <= p[1] /\ p[1] <= here.to[1]
<1>1. /\ here.from \in Nat \X Nat /\ here.to \in Nat \X Nat /\ p \in Nat \X Nat
      /\ there.from \in Nat \X Nat /\ there.to \in Nat \X Nat
      /\ here.from[1] < here.to[1] /\ Le(there.from, there.to)
    BY DEF Ruler, Slope
<1>2. here.from[1] <= p[1] /\ p[1] <= here.to[1]
    BY <1>1 DEF Legal
<1>3. CASE p = here.from
    BY <1>1, <1>2, <1>3, AcrossFrom DEF Le
<1>4. CASE p = here.to
    BY <1>1, <1>2, <1>4, AcrossTo DEF Le
<1>5. CASE identity /\ here.from[1] < p[1] /\ p[1] < here.to[1]
    <2>1. identity = TRUE
        BY <1>5 DEF Slope
    <2>2. Across(here, there, TRUE, p) = Shift(p, here.from, there.from)
        BY <1>2, <2>1, AcrossShift
    <2>3. here.from[2] < p[2] /\ p[2] < here.to[2]
        BY <1>5 DEF Ruler, Slope
    <2>4. SameLength(here, there)
        BY <2>1 DEF Slope
    <2>5. Shift(p, here.from, there.from) \in Nat \X Nat
        BY <1>1, <1>5, <2>3 DEF Shift
    <2>6. Le(there.from, Shift(p, here.from, there.from)) /\ Le(Shift(p, here.from, there.from), there.to)
        BY <1>1, <1>5, <2>3, <2>4 DEF Shift, Le, SameLength
    <2> QED BY <1>2, <2>1, <2>2, <2>5, <2>6
<1> QED BY <1>3, <1>4, <1>5 DEF Legal

(* Later points are taken to later points, and identities keep distances.  *)
LEMMA AcrossGrows ==
    ASSUME NEW P, Ruler(P), NEW here, NEW there, NEW identity, Slope(here, there, identity, P),
           NEW p \in P, Legal(here, identity, p), NEW q \in P, Legal(here, identity, q), p[1] < q[1]
    PROVE  /\ Le(Across(here, there, identity, p), Across(here, there, identity, q))
           /\ there.from[1] < there.to[1] =>
                Across(here, there, identity, p)[1] < Across(here, there, identity, q)[1]
           /\ identity => SameLength([from |-> Across(here, there, identity, p),
                                      to |-> Across(here, there, identity, q)], [from |-> p, to |-> q])
<1>1. /\ here.from \in Nat \X Nat /\ here.to \in Nat \X Nat /\ p \in Nat \X Nat /\ q \in Nat \X Nat
      /\ there.from \in Nat \X Nat /\ there.to \in Nat \X Nat
      /\ here.from[1] < here.to[1] /\ Le(there.from, there.to)
    BY DEF Ruler, Slope
<1>2. /\ here.from[1] <= p[1] /\ p[1] <= here.to[1] /\ here.from[1] <= q[1] /\ q[1] <= here.to[1]
    BY AcrossIn
<1>3. CASE identity
    <2>1. identity = TRUE
        BY <1>3 DEF Slope
    <2>2. /\ Across(here, there, TRUE, p) = Shift(p, here.from, there.from)
          /\ Across(here, there, TRUE, q) = Shift(q, here.from, there.from)
        BY <1>2, <2>1, AcrossShift
    <2>3. p[2] < q[2]
        BY DEF Ruler
    <2> DEFINE a == Across(here, there, TRUE, p)
               c == Across(here, there, TRUE, q)
    <2>4. /\ a[1] = there.from[1] + p[1] - here.from[1] /\ a[2] = there.from[2] + p[2] - here.from[2]
          /\ c[1] = there.from[1] + q[1] - here.from[1] /\ c[2] = there.from[2] + q[2] - here.from[2]
        <3> DEFINE x == Shift(p, here.from, there.from)
                   y == Shift(q, here.from, there.from)
        <3>1. x[1] = there.from[1] + p[1] - here.from[1] /\ x[2] = there.from[2] + p[2] - here.from[2]
            BY <1>1, ShiftParts
        <3>2. y[1] = there.from[1] + q[1] - here.from[1] /\ y[2] = there.from[2] + q[2] - here.from[2]
            BY <1>1, ShiftParts
        <3>3. a = x /\ c = y
            BY <2>2
        <3> HIDE DEF x, y, a, c
        <3> QED BY <3>1, <3>2, <3>3
    <2> HIDE DEF a, c
    <2>5. a[1] < c[1] /\ a[2] < c[2] /\ Le(a, c) /\ c[1] - a[1] = q[1] - p[1] /\ c[2] - a[2] = q[2] - p[2]
        <3>1. /\ p[1] \in Nat /\ p[2] \in Nat /\ q[1] \in Nat /\ q[2] \in Nat /\ p[1] < q[1]
              /\ here.from[1] \in Nat /\ here.from[2] \in Nat /\ there.from[1] \in Nat /\ there.from[2] \in Nat
            BY <1>1
        <3>2. a[1] < c[1] /\ c[1] - a[1] = q[1] - p[1] /\ a[1] \in Int /\ c[1] \in Int
            BY <2>4, <3>1
        <3>3. a[2] < c[2] /\ c[2] - a[2] = q[2] - p[2] /\ a[2] \in Int /\ c[2] \in Int
            BY <2>3, <2>4, <3>1
        <3> QED BY <3>2, <3>3 DEF Le
    <2>6. SameLength([from |-> a, to |-> c], [from |-> p, to |-> q])
        BY <2>5 DEF SameLength
    <2> QED BY <2>1, <2>5, <2>6 DEF a, c
<1>4. CASE ~identity
    <2>1. p = here.from /\ q = here.to
        BY <1>1, <1>2, <1>4 DEF Legal
    <2>2. Across(here, there, identity, p) = there.from /\ Across(here, there, identity, q) = there.to
        BY <1>1, <2>1, AcrossFrom, AcrossTo
    <2> QED BY <1>1, <1>4, <2>2
<1> QED BY <1>3, <1>4

(* The segments of a table follow each other.                              *)
LEMMA SeqParts ==
    ASSUME NEW m, IsSeq(m)
    PROVE  Len(m) \in Nat /\ DOMAIN m = 1..Len(m) /\ (m = <<>> <=> Len(m) = 0)
<1>1. PICK S : m \in Seq(S)
    BY DEF IsSeq
<1> QED BY <1>1, LenProperties, EmptySeq

(* Each segment of a table begins where the one before it ends.            *)
LEMMA Follows ==
    ASSUME NEW m, NEW P, NEW Q, Table(m, P, Q)
    PROVE  /\ m # <<>> => m[1].src.from = Origin /\ m[1].dst.from = Origin
           /\ \A k \in DOMAIN m : k + 1 \in DOMAIN m =>
                m[k + 1].src.from = m[k].src.to /\ m[k + 1].dst.from = m[k].dst.to
           /\ \A k \in DOMAIN m : k = Len(m) => SrcEnd(m) = m[k].src.to /\ DstEnd(m) = m[k].dst.to
           /\ m = <<>> => SrcEnd(m) = Origin /\ DstEnd(m) = Origin
<1>1. Len(m) \in Nat /\ DOMAIN m = 1..Len(m) /\ (m = <<>> <=> Len(m) = 0) /\ Contiguous(m)
    BY SeqParts DEF Table
<1>2. m # <<>> => m[1].src.from = Origin /\ m[1].dst.from = Origin
    BY <1>1 DEF Contiguous
<1>3. ASSUME NEW k \in DOMAIN m, k + 1 \in DOMAIN m
      PROVE  m[k + 1].src.from = m[k].src.to /\ m[k + 1].dst.from = m[k].dst.to
    <2>1. k \in Nat /\ k + 1 # 1 /\ (k + 1) - 1 = k
        BY <1>1
    <2> QED BY <1>1, <1>3, <2>1 DEF Contiguous
<1>4. ASSUME NEW k \in DOMAIN m, k = Len(m) PROVE SrcEnd(m) = m[k].src.to /\ DstEnd(m) = m[k].dst.to
    <2>1. m # <<>>
        BY <1>1
    <2> QED BY <1>4, <2>1 DEF SrcEnd, DstEnd
<1>5. m = <<>> => SrcEnd(m) = Origin /\ DstEnd(m) = Origin
    BY DEF SrcEnd, DstEnd
<1> QED BY <1>2, <1>3, <1>4, <1>5

(* Of two segments of a table the first ends before the second begins, on  *)
(* both sides.                                                             *)
LEMMA Chain ==
    ASSUME NEW m, NEW P \in SUBSET (Nat \X Nat), NEW Q \in SUBSET (Nat \X Nat), Table(m, P, Q)
    PROVE  /\ \A k, l \in DOMAIN m : k < l =>
                Le(m[k].src.to, m[l].src.from) /\ Le(m[k].dst.to, m[l].dst.from)
           /\ \A k \in DOMAIN m : Le(m[k].src.to, SrcEnd(m)) /\ Le(m[k].dst.to, DstEnd(m))
<1> DEFINE D(n) == \A k \in DOMAIN m : k + n + 1 \in DOMAIN m =>
                      Le(m[k].src.to, m[k + n + 1].src.from) /\ Le(m[k].dst.to, m[k + n + 1].dst.from)
           T == {n \in Nat : D(n)}
<1>1. Len(m) \in Nat /\ DOMAIN m = 1..Len(m)
    BY SeqParts DEF Table
<1>2. \A k \in DOMAIN m : k + 1 \in DOMAIN m =>
                m[k + 1].src.from = m[k].src.to /\ m[k + 1].dst.from = m[k].dst.to
    BY Follows
<1>3. \A k \in DOMAIN m :
        /\ m[k].src.from \in Nat \X Nat /\ m[k].src.to \in Nat \X Nat
        /\ m[k].dst.from \in Nat \X Nat /\ m[k].dst.to \in Nat \X Nat
        /\ Le(m[k].src.from, m[k].src.to) /\ Le(m[k].dst.from, m[k].dst.to)
    BY DEF Table, Sound
<1>4. D(0)
    <2> SUFFICES ASSUME NEW k \in DOMAIN m, k + 0 + 1 \in DOMAIN m
                 PROVE  Le(m[k].src.to, m[k + 0 + 1].src.from) /\ Le(m[k].dst.to, m[k + 0 + 1].dst.from)
        OBVIOUS
    <2>1. k + 0 + 1 = k + 1
        BY <1>1
    <2>2. m[k + 1].src.from = m[k].src.to /\ m[k + 1].dst.from = m[k].dst.to
        BY <1>2, <2>1
    <2>3. m[k].src.to \in Nat \X Nat /\ m[k].dst.to \in Nat \X Nat
        BY <1>3
    <2> QED BY <2>1, <2>2, <2>3 DEF Le
<1>5. ASSUME NEW n \in Nat, D(n) PROVE D(n + 1)
    <2> SUFFICES ASSUME NEW k \in DOMAIN m, k + (n + 1) + 1 \in DOMAIN m
                 PROVE  /\ Le(m[k].src.to, m[k + (n + 1) + 1].src.from)
                        /\ Le(m[k].dst.to, m[k + (n + 1) + 1].dst.from)
        OBVIOUS
    <2> DEFINE l == k + n + 1
    <2>1. l \in DOMAIN m /\ k + (n + 1) + 1 = l + 1 /\ l + 1 \in DOMAIN m
        BY <1>1
    <2>2. Le(m[k].src.to, m[l].src.from) /\ Le(m[k].dst.to, m[l].dst.from)
        BY <1>5, <2>1
    <2> HIDE DEF l
    <2>3. m[l + 1].src.from = m[l].src.to /\ m[l + 1].dst.from = m[l].dst.to
        BY <1>2, <2>1
    <2>4. /\ m[k].src.to \in Nat \X Nat /\ m[k].dst.to \in Nat \X Nat
          /\ m[l].src.from \in Nat \X Nat /\ m[l].src.to \in Nat \X Nat /\ Le(m[l].src.from, m[l].src.to)
          /\ m[l].dst.from \in Nat \X Nat /\ m[l].dst.to \in Nat \X Nat /\ Le(m[l].dst.from, m[l].dst.to)
        BY <1>3, <2>1
    <2>5. Le(m[k].src.to, m[l].src.to)
        BY <2>2, <2>4 DEF Le
    <2>6. Le(m[k].dst.to, m[l].dst.to)
        BY <2>2, <2>4 DEF Le
    <2> QED BY <2>1, <2>3, <2>5, <2>6
<1>6. \A n \in Nat : n \in T
    <2>1. 0 \in T /\ \A n \in Nat : n \in T => n + 1 \in T
        <3> HIDE DEF D
        <3> QED BY <1>4, <1>5
    <2> HIDE DEF T
    <2> QED BY <2>1, SetInduction
<1>7. ASSUME NEW k \in DOMAIN m, NEW l \in DOMAIN m, k < l
      PROVE  Le(m[k].src.to, m[l].src.from) /\ Le(m[k].dst.to, m[l].dst.from)
    <2>1. l - k - 1 \in Nat /\ k + (l - k - 1) + 1 = l
        BY <1>1, <1>7
    <2>2. D(l - k - 1)
        BY <1>6, <2>1
    <2> QED BY <2>1, <2>2
<1>8. ASSUME NEW k \in DOMAIN m PROVE Le(m[k].src.to, SrcEnd(m)) /\ Le(m[k].dst.to, DstEnd(m))
    <2> DEFINE l == Len(m)
    <2>1. l \in DOMAIN m /\ l \in Nat /\ k \in Nat /\ k <= l
        BY <1>1
    <2>2. SrcEnd(m) = m[l].src.to /\ DstEnd(m) = m[l].dst.to
        BY <2>1, Follows
    <2> HIDE DEF l
    <2>3. /\ m[k].src.to \in Nat \X Nat /\ m[k].dst.to \in Nat \X Nat
          /\ m[l].src.from \in Nat \X Nat /\ m[l].src.to \in Nat \X Nat /\ Le(m[l].src.from, m[l].src.to)
          /\ m[l].dst.from \in Nat \X Nat /\ m[l].dst.to \in Nat \X Nat /\ Le(m[l].dst.from, m[l].dst.to)
        BY <1>3, <2>1
    <2>4. CASE k = l
        BY <2>2, <2>3, <2>4 DEF Le
    <2>5. CASE k # l
        <3>1. Le(m[k].src.to, m[l].src.from) /\ Le(m[k].dst.to, m[l].dst.from)
            BY <1>7, <2>1, <2>5
        <3>2. Le(m[k].src.to, m[l].src.to)
            BY <2>3, <3>1 DEF Le
        <3>3. Le(m[k].dst.to, m[l].dst.to)
            BY <2>3, <3>1 DEF Le
        <3> QED BY <2>2, <3>2, <3>3
    <2> QED BY <2>4, <2>5
<1> QED BY <1>7, <1>8

(* The table without segments.                                             *)
LEMMA EmptyTable ==
    ASSUME NEW P, NEW Q
    PROVE  Table(<<>>, P, Q) /\ SrcEnd(<<>>) = Origin /\ DstEnd(<<>>) = Origin
<1>1. <<>> \in Seq({})
    BY EmptySeq
<1> QED BY <1>1 DEF Table, Contiguous, IsSeq, SrcEnd, DstEnd

(* A segment is put behind a table.                                        *)
LEMMA AppendTile ==
    ASSUME NEW m, NEW P, NEW Q, Table(m, P, Q), NEW seg, Sound(seg, P, Q),
           seg.src.from = SrcEnd(m), seg.dst.from = DstEnd(m)
    PROVE  /\ Table(Append(m, seg), P, Q)
           /\ SrcEnd(Append(m, seg)) = seg.src.to /\ DstEnd(Append(m, seg)) = seg.dst.to
<1> DEFINE a == Append(m, seg)
           n == Len(m)
<1>0. IsSeq(m)
    BY DEF Table
<1>1. /\ IsSeq(a) /\ n \in Nat /\ DOMAIN m = 1..n /\ DOMAIN a = 1..(n + 1)
      /\ \A i \in 1..n : a[i] = m[i]
      /\ a[n + 1] = seg
    BY <1>0, AppendAny
<1>2. Len(a) = n + 1 /\ a # <<>>
    <2> HIDE DEF a, n
    <2> QED BY <1>1, SeqParts
<1>3. SrcEnd(a) = seg.src.to /\ DstEnd(a) = seg.dst.to
    <2> HIDE DEF a, n
    <2> QED BY <1>1, <1>2 DEF SrcEnd, DstEnd
<1>4. \A k \in DOMAIN a : Sound(a[k], P, Q)
    <2>1. \A k \in DOMAIN m : Sound(m[k], P, Q)
        BY DEF Table
    <2> HIDE DEF a, n
    <2> QED BY <1>1, <2>1
<1>5. Contiguous(a)
    <2> SUFFICES ASSUME NEW i \in DOMAIN a
                 PROVE  /\ a[i].src.from = IF i = 1 THEN Origin ELSE a[i - 1].src.to
                        /\ a[i].dst.from = IF i = 1 THEN Origin ELSE a[i - 1].dst.to
        BY DEF Contiguous
    <2>1. CASE i \in 1..n
        <3>1. /\ m[i].src.from = IF i = 1 THEN Origin ELSE m[i - 1].src.to
              /\ m[i].dst.from = IF i = 1 THEN Origin ELSE m[i - 1].dst.to
            BY <1>1, <2>1 DEF Table, Contiguous
        <3>2. a[i] = m[i] /\ (i # 1 => a[i - 1] = m[i - 1])
            <4> HIDE DEF a, n
            <4> QED BY <1>1, <2>1
        <3> HIDE DEF a, n
        <3> QED BY <3>1, <3>2
    <2>2. CASE i = n + 1
        <3>1. CASE n = 0
            <4>1. m = <<>>
                BY <1>0, <3>1, SeqParts
            <4>2. SrcEnd(m) = Origin /\ DstEnd(m) = Origin
                BY <4>1 DEF SrcEnd, DstEnd
            <4> HIDE DEF a, n
            <4> QED BY <1>1, <2>2, <3>1, <4>2
        <3>2. CASE n # 0
            <4>1. n \in DOMAIN m
                <5> HIDE DEF n
                <5> QED BY <1>1, <3>2
            <4>2. SrcEnd(m) = m[n].src.to /\ DstEnd(m) = m[n].dst.to
                BY <4>1, Follows
            <4> HIDE DEF a, n
            <4>3. i # 1 /\ i - 1 = n /\ a[i - 1] = m[n] /\ a[i] = seg
                BY <1>1, <2>2, <3>2
            <4> QED BY <4>2, <4>3
        <3> QED BY <3>1, <3>2
    <2> HIDE DEF a, n
    <2> QED BY <1>1, <2>1, <2>2
<1> HIDE DEF a
<1> QED BY <1>1, <1>3, <1>4, <1>5 DEF Table, a

(* An identity segment extended by an identity segment is sound.           *)
LEMMA ExtendSound ==
    ASSUME NEW P \in SUBSET (Nat \X Nat), NEW Q \in SUBSET (Nat \X Nat),
           NEW last, Sound(last, P, Q), IsIdentity(last), NEW seg, Sound(seg, P, Q), IsIdentity(seg),
           seg.src.from = last.src.to, seg.dst.from = last.dst.to
    PROVE  /\ Sound(Extended(last, seg), P, Q) /\ IsIdentity(Extended(last, seg))
           /\ Extended(last, seg).src.from = last.src.from /\ Extended(last, seg).dst.from = last.dst.from
           /\ Extended(last, seg).src.to = seg.src.to /\ Extended(last, seg).dst.to = seg.dst.to
<1> DEFINE x == Extended(last, seg)
<1>1. /\ x.src.from = last.src.from /\ x.dst.from = last.dst.from
      /\ x.src.to = seg.src.to /\ x.dst.to = seg.dst.to
      /\ x.kind = last.kind /\ x.rules = last.rules /\ x.cost = last.cost
    BY DEF Extended, Segment, Span
<1> HIDE DEF x
<1>2. /\ last.src.from \in Nat \X Nat /\ last.src.to \in Nat \X Nat /\ seg.src.to \in Nat \X Nat
      /\ last.dst.from \in Nat \X Nat /\ last.dst.to \in Nat \X Nat /\ seg.dst.to \in Nat \X Nat
      /\ last.src.from[1] < last.src.to[1] /\ seg.src.from[1] < seg.src.to[1]
      /\ Le(last.src.from, last.src.to) /\ Le(last.dst.from, last.dst.to)
      /\ Le(seg.src.from, seg.src.to) /\ Le(seg.dst.from, seg.dst.to)
      /\ last.kind = "identity" /\ SameLength(last.src, last.dst) /\ SameLength(seg.src, seg.dst)
    BY DEF Sound, IsIdentity
<1>3. x.src.from[1] < x.src.to[1] /\ Le(x.src.from, x.src.to)
    BY <1>1, <1>2 DEF Le
<1>4. Le(x.dst.from, x.dst.to)
    BY <1>1, <1>2 DEF Le
<1>5. SameLength(x.src, x.dst)
    BY <1>1, <1>2 DEF SameLength
<1>6. x.src.from \in P /\ x.src.to \in P /\ x.dst.from \in Q /\ x.dst.to \in Q
    BY <1>1 DEF Sound
<1>7. x.kind = "identity" /\ x.kind \in Kinds /\ x.rules = {} /\ x.cost = 0
    BY <1>1 DEF Sound, IsIdentity
<1>8. Sound(x, P, Q)
    BY <1>3, <1>4, <1>5, <1>6, <1>7 DEF Sound
<1> QED BY <1>1, <1>7, <1>8 DEF x, IsIdentity

(* What append_segment leaves: the segments that were there, the new one,  *)
(* or the last one extended.                                               *)
Tiled(a, m, seg) ==
    \A k \in DOMAIN a :
        \/ k \in DOMAIN m /\ a[k] = m[k]
        \/ a[k] = seg
        \/ /\ m # <<>> /\ IsIdentity(seg) /\ IsIdentity(m[Len(m)])
           /\ a[k] = Extended(m[Len(m)], seg)

(* append_segment puts a segment behind a table, or into its last one.     *)
LEMMA AppendSegmentTile ==
    ASSUME NEW m, NEW P \in SUBSET (Nat \X Nat), NEW Q \in SUBSET (Nat \X Nat), Table(m, P, Q),
           NEW seg, Sound(seg, P, Q), seg.src.from = SrcEnd(m), seg.dst.from = DstEnd(m)
    PROVE  /\ Table(AppendSegment(m, seg), P, Q)
           /\ SrcEnd(AppendSegment(m, seg)) = seg.src.to /\ DstEnd(AppendSegment(m, seg)) = seg.dst.to
           /\ Tiled(AppendSegment(m, seg), m, seg)
<1> DEFINE n == Len(m)
           merges == m # <<>> /\ IsIdentity(seg) /\ IsIdentity(m[n])
           a == AppendSegment(m, seg)
<1>0. IsSeq(m) /\ n \in Nat /\ DOMAIN m = 1..n /\ (m = <<>> <=> n = 0)
    BY SeqParts DEF Table
<1>1. CASE ~merges
    <2>1. a = Append(m, seg)
        BY <1>1 DEF AppendSegment
    <2>2. /\ DOMAIN m = 1..Len(m) /\ DOMAIN Append(m, seg) = 1..(Len(m) + 1)
          /\ \A i \in 1..Len(m) : Append(m, seg)[i] = m[i]
          /\ Append(m, seg)[Len(m) + 1] = seg
        BY <1>0, AppendAny
    <2>3. \A k \in DOMAIN a : (k \in DOMAIN m /\ a[k] = m[k]) \/ a[k] = seg
        <3> HIDE DEF a
        <3> QED BY <1>0, <2>1, <2>2
    <2> HIDE DEF a
    <2>4. Table(a, P, Q) /\ SrcEnd(a) = seg.src.to /\ DstEnd(a) = seg.dst.to
        BY <2>1, AppendTile
    <2> QED BY <2>3, <2>4 DEF a, Tiled
<1>2. CASE merges
    <2> DEFINE x == Extended(m[n], seg)
    <2>0. n \in DOMAIN m /\ n # 0
        <3> HIDE DEF n
        <3> QED BY <1>0, <1>2
    <2>1. a = [m EXCEPT ![n] = x]
        BY <1>2 DEF AppendSegment
    <2>2. SrcEnd(m) = m[n].src.to /\ DstEnd(m) = m[n].dst.to
        BY <2>0, Follows
    <2>3. /\ Sound(x, P, Q) /\ x.src.from = m[n].src.from /\ x.dst.from = m[n].dst.from
          /\ x.src.to = seg.src.to /\ x.dst.to = seg.dst.to
        <3>1. Sound(m[n], P, Q)
            BY <2>0 DEF Table
        <3>2. IsIdentity(m[n]) /\ IsIdentity(seg)
            BY <1>2
        <3>3. seg.src.from = m[n].src.to /\ seg.dst.from = m[n].dst.to
            BY <2>2
        <3> HIDE DEF n, a
        <3>4. ASSUME NEW last, Sound(last, P, Q), IsIdentity(last),
                     seg.src.from = last.src.to, seg.dst.from = last.dst.to
              PROVE  /\ Sound(Extended(last, seg), P, Q)
                     /\ Extended(last, seg).src.from = last.src.from /\ Extended(last, seg).dst.from = last.dst.from
                     /\ Extended(last, seg).src.to = seg.src.to /\ Extended(last, seg).dst.to = seg.dst.to
            BY <3>2, <3>4, ExtendSound
        <3> QED BY <3>1, <3>2, <3>3, <3>4
    <2> HIDE DEF x, a
    <2>4. /\ IsSeq(a) /\ Len(a) = n /\ DOMAIN a = 1..n /\ a # <<>>
          /\ a[n] = x /\ \A k \in 1..n : k # n => a[k] = m[k]
        <3>1. PICK S : m \in Seq(S)
            BY <1>0 DEF IsSeq
        <3>2. m \in Seq(S \cup {x})
            BY <3>1, SeqMonotonic
        <3>3. n \in 1..Len(m)
            BY <1>0, <2>0
        <3>4. /\ a \in Seq(S \cup {x}) /\ Len(a) = Len(m)
              /\ \A j \in 1..Len(m) : a[j] = IF j = n THEN x ELSE m[j]
            BY <2>1, <3>2, <3>3, ExceptSeq
        <3>5. IsSeq(a)
            BY <3>4 DEF IsSeq
        <3>6. DOMAIN a = 1..Len(a) /\ (a = <<>> <=> Len(a) = 0)
            BY <3>5, SeqParts
        <3> QED BY <1>0, <2>0, <3>3, <3>4, <3>5, <3>6
    <2> HIDE DEF n
    <2>5. SrcEnd(a) = seg.src.to /\ DstEnd(a) = seg.dst.to
        BY <2>3, <2>4 DEF SrcEnd, DstEnd
    <2>6. \A k \in DOMAIN a : Sound(a[k], P, Q)
        <3>1. \A k \in 1..n : Sound(m[k], P, Q)
            BY <1>0 DEF Table
        <3> QED BY <2>3, <2>4, <3>1
    <2>7. Contiguous(a)
        <3> SUFFICES ASSUME NEW i \in 1..n
                     PROVE  /\ a[i].src.from = IF i = 1 THEN Origin ELSE a[i - 1].src.to
                            /\ a[i].dst.from = IF i = 1 THEN Origin ELSE a[i - 1].dst.to
            BY <2>4 DEF Contiguous
        <3>1. /\ m[i].src.from = IF i = 1 THEN Origin ELSE m[i - 1].src.to
              /\ m[i].dst.from = IF i = 1 THEN Origin ELSE m[i - 1].dst.to
            BY <1>0 DEF Table, Contiguous
        <3>2. a[i].src.from = m[i].src.from /\ a[i].dst.from = m[i].dst.from
            BY <2>3, <2>4
        <3>3. i # 1 => a[i - 1] = m[i - 1]
            BY <1>0, <2>4
        <3> QED BY <3>1, <3>2, <3>3
    <2>8. \A k \in DOMAIN a : (k \in DOMAIN m /\ a[k] = m[k]) \/ a[k] = x
        BY <1>0, <2>4
    <2>9. Table(a, P, Q)
        BY <2>4, <2>6, <2>7 DEF Table
    <2>10. Tiled(a, m, seg)
        BY <1>2, <2>8 DEF Tiled, x, n
    <2> QED BY <2>5, <2>9, <2>10 DEF a
<1> QED BY <1>1, <1>2

-----------------------------------------------------------------------------
(* A table as compose walks along it: inner from its result to its source, *)
(* outer from its source to its result.                                    *)
BackView(m) ==
    [k \in DOMAIN m |-> [here |-> m[k].dst, there |-> m[k].src, same |-> IsIdentity(m[k])]]
ForeView(m) ==
    [k \in DOMAIN m |-> [here |-> m[k].src, there |-> m[k].dst, same |-> IsIdentity(m[k])]]

Rail(v, n, P, end, last) ==
    /\ n \in Nat /\ end \in P /\ last \in Nat \X Nat
    /\ \A k \in 1..n :
        /\ v[k].here.from \in P /\ v[k].here.to \in P /\ Le(v[k].here.from, v[k].here.to)
        /\ v[k].there.from \in Nat \X Nat /\ v[k].there.to \in Nat \X Nat
        /\ Le(v[k].there.from, v[k].there.to)
        /\ v[k].same \in BOOLEAN
        /\ v[k].same => SameLength(v[k].here, v[k].there) /\ v[k].here.from[1] < v[k].here.to[1]
    /\ \A k \in 1..n : k + 1 <= n =>
        v[k + 1].here.from = v[k].here.to /\ v[k + 1].there.from = v[k].there.to
    /\ \A k, l \in 1..n : k < l =>
        Le(v[k].here.to, v[l].here.from) /\ Le(v[k].there.to, v[l].there.from)
    /\ \A k \in 1..n : Le(v[k].here.to, end) /\ Le(v[k].there.to, last)
    /\ \A k \in 1..n : k = n => v[k].here.to = end /\ v[k].there.to = last

(* The walk stands at the point b before segment k, or inside it.          *)
Standpoint(v, n, end, k, b) ==
    \/ k = n + 1 /\ b = end
    \/ k \in 1..n /\ b = v[k].here.from
    \/ k \in 1..n /\ v[k].same /\ v[k].here.from[1] < b[1] /\ b[1] < v[k].here.to[1]

Value(v, n, last, k, b) ==
    IF k > n THEN last ELSE Across(v[k].here, v[k].there, v[k].same, b)

(* inner, walked from its result to its source.                            *)
LEMMA BackRail ==
    ASSUME NEW m, NEW P \in SUBSET (Nat \X Nat), NEW Q \in SUBSET (Nat \X Nat), Table(m, Q, P),
           DstEnd(m) \in P, SrcEnd(m) \in Q
    PROVE  /\ Rail(BackView(m), Len(m), P, DstEnd(m), SrcEnd(m))
           /\ \A k \in 1..Len(m) + 1 : \A b : BackwardPoint(m, k, b) = Value(BackView(m), Len(m), SrcEnd(m), k, b)
           /\ \A k \in 1..Len(m) : BackView(m)[k].there.from[1] < BackView(m)[k].there.to[1]
           /\ \A k \in 1..Len(m) : BackView(m)[k].here = m[k].dst /\ BackView(m)[k].there = m[k].src
                                   /\ BackView(m)[k].same = IsIdentity(m[k])
<1> DEFINE v == BackView(m)
           n == Len(m)
<1>1. n \in Nat /\ DOMAIN m = 1..n
    BY SeqParts DEF Table
<1>2. \A k \in 1..n : v[k].here = m[k].dst /\ v[k].there = m[k].src /\ v[k].same = IsIdentity(m[k])
    <2> HIDE DEF n
    <2> QED BY <1>1 DEF BackView
<1> HIDE DEF v, n
<1>3. \A k \in 1..n : Sound(m[k], Q, P)
    BY <1>1 DEF Table
<1>4. ASSUME NEW k \in 1..n
      PROVE  /\ v[k].here.from \in P /\ v[k].here.to \in P /\ Le(v[k].here.from, v[k].here.to)
             /\ v[k].there.from \in Nat \X Nat /\ v[k].there.to \in Nat \X Nat
             /\ Le(v[k].there.from, v[k].there.to) /\ v[k].there.from[1] < v[k].there.to[1]
             /\ v[k].same \in BOOLEAN
             /\ v[k].same => SameLength(v[k].here, v[k].there) /\ v[k].here.from[1] < v[k].here.to[1]
    <2>1. Sound(m[k], Q, P) /\ v[k].here = m[k].dst /\ v[k].there = m[k].src /\ v[k].same = (m[k].kind = "identity")
        BY <1>2, <1>3 DEF IsIdentity
    <2>2. /\ m[k].dst.from \in P /\ m[k].dst.to \in P /\ Le(m[k].dst.from, m[k].dst.to)
          /\ m[k].src.from \in Nat \X Nat /\ m[k].src.to \in Nat \X Nat
          /\ Le(m[k].src.from, m[k].src.to) /\ m[k].src.from[1] < m[k].src.to[1]
        BY <2>1 DEF Sound
    <2>3. ASSUME m[k].kind = "identity"
          PROVE  SameLength(m[k].dst, m[k].src) /\ m[k].dst.from[1] < m[k].dst.to[1]
        <3>1. SameLength(m[k].src, m[k].dst) /\ m[k].dst.from \in Nat \X Nat /\ m[k].dst.to \in Nat \X Nat
            BY <2>1, <2>2, <2>3 DEF Sound
        <3> QED BY <2>2, <3>1 DEF SameLength
    <2> QED BY <2>1, <2>2, <2>3
<1>5. \A k \in 1..n : k + 1 <= n =>
        v[k + 1].here.from = v[k].here.to /\ v[k + 1].there.from = v[k].there.to
    <2> SUFFICES ASSUME NEW k \in 1..n, k + 1 <= n
                 PROVE  v[k + 1].here.from = v[k].here.to /\ v[k + 1].there.from = v[k].there.to
        OBVIOUS
    <2>1. k + 1 \in 1..n
        BY <1>1
    <2>2. m[k + 1].src.from = m[k].src.to /\ m[k + 1].dst.from = m[k].dst.to
        BY <1>1, <2>1, Follows
    <2> QED BY <1>2, <2>1, <2>2
<1>6. /\ \A k, l \in 1..n : k < l => Le(m[k].src.to, m[l].src.from) /\ Le(m[k].dst.to, m[l].dst.from)
      /\ \A k \in 1..n : Le(m[k].src.to, SrcEnd(m)) /\ Le(m[k].dst.to, DstEnd(m))
    BY <1>1, Chain
<1>7. \A k \in 1..n : k = n => SrcEnd(m) = m[k].src.to /\ DstEnd(m) = m[k].dst.to
    BY <1>1, Follows DEF n
<1>8. Rail(v, n, P, DstEnd(m), SrcEnd(m))
    <2>1. \A k, l \in 1..n : k < l => Le(v[k].here.to, v[l].here.from) /\ Le(v[k].there.to, v[l].there.from)
        BY <1>2, <1>6
    <2>2. \A k \in 1..n : Le(v[k].here.to, DstEnd(m)) /\ Le(v[k].there.to, SrcEnd(m))
        BY <1>2, <1>6
    <2>3. \A k \in 1..n : k = n => v[k].here.to = DstEnd(m) /\ v[k].there.to = SrcEnd(m)
        BY <1>2, <1>7
    <2>4. n \in Nat /\ DstEnd(m) \in P /\ SrcEnd(m) \in Nat \X Nat
        BY <1>1
    <2> QED BY <1>4, <1>5, <2>1, <2>2, <2>3, <2>4 DEF Rail
<1>9. ASSUME NEW k \in 1..n + 1, NEW b PROVE BackwardPoint(m, k, b) = Value(v, n, SrcEnd(m), k, b)
    <2>1. CASE k > n
        BY <2>1 DEF BackwardPoint, Value, n
    <2>2. CASE ~(k > n)
        <3>1. k \in 1..n
            BY <1>1, <2>2
        <3>2. v[k].here = m[k].dst /\ v[k].there = m[k].src /\ v[k].same = IsIdentity(m[k])
            BY <1>2, <3>1
        <3>3. BackwardPoint(m, k, b) = Across(m[k].dst, m[k].src, IsIdentity(m[k]), b)
            BY <2>2, Zenon DEF BackwardPoint, n
        <3>4. Value(v, n, SrcEnd(m), k, b) = Across(v[k].here, v[k].there, v[k].same, b)
            BY <2>2, Zenon DEF Value
        <3> QED BY <3>2, <3>3, <3>4
    <2> QED BY <2>1, <2>2
<1> QED BY <1>2, <1>4, <1>8, <1>9 DEF v, n

(* outer, walked from its source to its result.                            *)
LEMMA ForeRail ==
    ASSUME NEW m, NEW P \in SUBSET (Nat \X Nat), NEW Q \in SUBSET (Nat \X Nat), Table(m, P, Q),
           SrcEnd(m) \in P, DstEnd(m) \in Q
    PROVE  /\ Rail(ForeView(m), Len(m), P, SrcEnd(m), DstEnd(m))
           /\ \A k \in 1..Len(m) + 1 : \A b : ForwardPoint(m, k, b) = Value(ForeView(m), Len(m), DstEnd(m), k, b)
           /\ \A k \in 1..Len(m) : ForeView(m)[k].here.from[1] < ForeView(m)[k].here.to[1]
           /\ \A k \in 1..Len(m) : ForeView(m)[k].here = m[k].src /\ ForeView(m)[k].there = m[k].dst
                                   /\ ForeView(m)[k].same = IsIdentity(m[k])
<1> DEFINE v == ForeView(m)
           n == Len(m)
<1>1. n \in Nat /\ DOMAIN m = 1..n
    BY SeqParts DEF Table
<1>2. \A k \in 1..n : v[k].here = m[k].src /\ v[k].there = m[k].dst /\ v[k].same = IsIdentity(m[k])
    <2> HIDE DEF n
    <2> QED BY <1>1 DEF ForeView
<1> HIDE DEF v, n
<1>3. \A k \in 1..n : Sound(m[k], P, Q)
    BY <1>1 DEF Table
<1>4. ASSUME NEW k \in 1..n
      PROVE  /\ v[k].here.from \in P /\ v[k].here.to \in P /\ Le(v[k].here.from, v[k].here.to)
             /\ v[k].there.from \in Nat \X Nat /\ v[k].there.to \in Nat \X Nat
             /\ Le(v[k].there.from, v[k].there.to) /\ v[k].here.from[1] < v[k].here.to[1]
             /\ v[k].same \in BOOLEAN
             /\ v[k].same => SameLength(v[k].here, v[k].there)
    <2>1. Sound(m[k], P, Q) /\ v[k].here = m[k].src /\ v[k].there = m[k].dst /\ v[k].same = (m[k].kind = "identity")
        BY <1>2, <1>3 DEF IsIdentity
    <2>2. /\ m[k].src.from \in P /\ m[k].src.to \in P /\ Le(m[k].src.from, m[k].src.to)
          /\ m[k].dst.from \in Nat \X Nat /\ m[k].dst.to \in Nat \X Nat
          /\ Le(m[k].dst.from, m[k].dst.to) /\ m[k].src.from[1] < m[k].src.to[1]
        BY <2>1 DEF Sound
    <2>3. m[k].kind = "identity" => SameLength(m[k].src, m[k].dst)
        BY <2>1 DEF Sound
    <2> QED BY <2>1, <2>2, <2>3
<1>5. \A k \in 1..n : k + 1 <= n =>
        v[k + 1].here.from = v[k].here.to /\ v[k + 1].there.from = v[k].there.to
    <2> SUFFICES ASSUME NEW k \in 1..n, k + 1 <= n
                 PROVE  v[k + 1].here.from = v[k].here.to /\ v[k + 1].there.from = v[k].there.to
        OBVIOUS
    <2>1. k + 1 \in 1..n
        BY <1>1
    <2>2. m[k + 1].src.from = m[k].src.to /\ m[k + 1].dst.from = m[k].dst.to
        BY <1>1, <2>1, Follows
    <2> QED BY <1>2, <2>1, <2>2
<1>6. /\ \A k, l \in 1..n : k < l => Le(m[k].src.to, m[l].src.from) /\ Le(m[k].dst.to, m[l].dst.from)
      /\ \A k \in 1..n : Le(m[k].src.to, SrcEnd(m)) /\ Le(m[k].dst.to, DstEnd(m))
    BY <1>1, Chain
<1>7. \A k \in 1..n : k = n => SrcEnd(m) = m[k].src.to /\ DstEnd(m) = m[k].dst.to
    BY <1>1, Follows DEF n
<1>8. Rail(v, n, P, SrcEnd(m), DstEnd(m))
    <2>1. \A k, l \in 1..n : k < l => Le(v[k].here.to, v[l].here.from) /\ Le(v[k].there.to, v[l].there.from)
        BY <1>2, <1>6
    <2>2. \A k \in 1..n : Le(v[k].here.to, SrcEnd(m)) /\ Le(v[k].there.to, DstEnd(m))
        BY <1>2, <1>6
    <2>3. \A k \in 1..n : k = n => v[k].here.to = SrcEnd(m) /\ v[k].there.to = DstEnd(m)
        BY <1>2, <1>7
    <2>4. n \in Nat /\ SrcEnd(m) \in P /\ DstEnd(m) \in Nat \X Nat
        BY <1>1
    <2> QED BY <1>4, <1>5, <2>1, <2>2, <2>3, <2>4 DEF Rail
<1>9. ASSUME NEW k \in 1..n + 1, NEW b PROVE ForwardPoint(m, k, b) = Value(v, n, DstEnd(m), k, b)
    <2>1. CASE k > n
        BY <2>1 DEF ForwardPoint, Value, n
    <2>2. CASE ~(k > n)
        <3>1. k \in 1..n
            BY <1>1, <2>2
        <3>2. v[k].here = m[k].src /\ v[k].there = m[k].dst /\ v[k].same = IsIdentity(m[k])
            BY <1>2, <3>1
        <3>3. ForwardPoint(m, k, b) = Across(m[k].src, m[k].dst, IsIdentity(m[k]), b)
            BY <2>2, Zenon DEF ForwardPoint, n
        <3>4. Value(v, n, DstEnd(m), k, b) = Across(v[k].here, v[k].there, v[k].same, b)
            BY <2>2, Zenon DEF Value
        <3> QED BY <3>2, <3>3, <3>4
    <2> QED BY <2>1, <2>2
<1> QED BY <1>2, <1>4, <1>8, <1>9 DEF v, n

(* The value at a stop.                                                    *)
LEMMA StopValue ==
    ASSUME NEW P, Ruler(P), NEW v, NEW n, NEW end, NEW last, Rail(v, n, P, end, last),
           NEW k, NEW b \in P, Standpoint(v, n, end, k, b)
    PROVE  /\ Value(v, n, last, k, b) \in Nat \X Nat
           /\ k \in 1..n + 1
           /\ k = n + 1 => Value(v, n, last, k, b) = last
           /\ k \in 1..n /\ b = v[k].here.from => Value(v, n, last, k, b) = v[k].there.from
<1>1. n \in Nat /\ last \in Nat \X Nat
    BY DEF Rail
<1>2. k \in 1..n + 1
    BY <1>1 DEF Standpoint
<1>3. k = n + 1 => Value(v, n, last, k, b) = last
    BY <1>1 DEF Value
<1>4. ASSUME k \in 1..n
      PROVE  Value(v, n, last, k, b) = Across(v[k].here, v[k].there, v[k].same, b)
    <2>1. ~(k > n)
        BY <1>1, <1>4
    <2> QED BY <2>1, Zenon DEF Value
<1>5. k \in 1..n /\ b = v[k].here.from => Value(v, n, last, k, b) = v[k].there.from
    BY <1>4, AcrossFrom
<1>6. ASSUME k \in 1..n, v[k].same, v[k].here.from[1] < b[1], b[1] < v[k].here.to[1]
      PROVE  Value(v, n, last, k, b) \in Nat \X Nat
    <2>1. Slope(v[k].here, v[k].there, v[k].same, P)
        BY <1>6 DEF Rail, Slope
    <2>2. Legal(v[k].here, v[k].same, b)
        BY <1>6 DEF Legal
    <2>3. Across(v[k].here, v[k].there, v[k].same, b) \in Nat \X Nat
        BY <2>1, <2>2, AcrossIn
    <2> QED BY <1>4, <1>6, <2>3
<1>7. k \in 1..n => v[k].there.from \in Nat \X Nat
    BY DEF Rail
<1> QED BY <1>1, <1>2, <1>3, <1>5, <1>6, <1>7 DEF Standpoint

(* A group of segments, from a stop before the first of them to a point at *)
(* which the last of them may be cut.                                      *)
Group(v, n, P, end, i, b, c, at) ==
    /\ i \in 1..n /\ c \in i..n /\ b \in P /\ at \in P
    /\ Standpoint(v, n, end, i, b) /\ b[1] < v[i].here.to[1] /\ b[1] < at[1]
    /\ v[c].here.from[1] < at[1] /\ at[1] <= v[c].here.to[1]
    /\ at[1] < v[c].here.to[1] => v[c].same

(* The first and the last segment of a group may be cut where the group    *)
(* begins and ends.                                                        *)
LEMMA GroupCut ==
    ASSUME NEW P, Ruler(P), NEW v, NEW n, NEW end, NEW last, Rail(v, n, P, end, last),
           NEW i, NEW b, NEW c, NEW at, Group(v, n, P, end, i, b, c, at)
    PROVE  /\ Slope(v[c].here, v[c].there, v[c].same, P) /\ Legal(v[c].here, v[c].same, at)
           /\ Slope(v[i].here, v[i].there, v[i].same, P) /\ Legal(v[i].here, v[i].same, b)
           /\ Value(v, n, last, i, b) = Across(v[i].here, v[i].there, v[i].same, b)
           /\ Value(v, n, last, c, at) = Across(v[c].here, v[c].there, v[c].same, at)
           /\ at[1] = v[c].here.to[1] => at = v[c].here.to
<1>1. /\ n \in Nat /\ i \in 1..n /\ c \in 1..n /\ b \in P /\ at \in P
      /\ ~(i > n) /\ ~(c > n) /\ i <= c
    BY DEF Rail, Group
<1>2. /\ v[c].here.from \in P /\ v[c].here.to \in P /\ v[i].here.from \in P /\ v[i].here.to \in P
      /\ v[c].here.from \in Nat \X Nat /\ v[c].here.to \in Nat \X Nat
      /\ v[i].here.from \in Nat \X Nat /\ v[i].here.to \in Nat \X Nat
      /\ b \in Nat \X Nat /\ at \in Nat \X Nat
    BY <1>1 DEF Rail, Ruler
<1>3. v[c].here.from[1] < v[c].here.to[1]
    BY <1>2 DEF Group
<1>4. v[i].here.from[1] <= b[1] /\ b[1] < v[i].here.to[1]
    <2>1. b[1] < v[i].here.to[1] /\ (b = v[i].here.from \/ v[i].here.from[1] < b[1])
        BY <1>1 DEF Group, Standpoint
    <2> QED BY <1>2, <2>1
<1>5. Slope(v[c].here, v[c].there, v[c].same, P)
    BY <1>1, <1>3 DEF Rail, Slope
<1>6. Slope(v[i].here, v[i].there, v[i].same, P)
    <2>1. v[i].here.from[1] < v[i].here.to[1]
        BY <1>2, <1>4
    <2> QED BY <1>1, <2>1 DEF Rail, Slope
<1>7. at[1] = v[c].here.to[1] => at = v[c].here.to
    <2> SUFFICES ASSUME at[1] = v[c].here.to[1] PROVE at = v[c].here.to
        OBVIOUS
    <2>1. at[2] = v[c].here.to[2]
        BY <1>1, <1>2 DEF Ruler
    <2> QED BY <1>2, <2>1, PairIs
<1>8. Legal(v[c].here, v[c].same, at)
    <2>1. CASE at[1] = v[c].here.to[1]
        BY <1>7, <2>1 DEF Legal
    <2>2. CASE at[1] # v[c].here.to[1]
        <3>1. at[1] < v[c].here.to[1] /\ v[c].same /\ v[c].here.from[1] < at[1]
            BY <1>2, <2>2 DEF Group
        <3> QED BY <3>1 DEF Legal
    <2> QED BY <2>1, <2>2
<1>9. Legal(v[i].here, v[i].same, b)
    BY <1>1 DEF Group, Standpoint, Legal
<1>10. /\ Value(v, n, last, i, b) = Across(v[i].here, v[i].there, v[i].same, b)
       /\ Value(v, n, last, c, at) = Across(v[c].here, v[c].there, v[c].same, at)
    BY <1>1, Zenon DEF Value
<1> QED BY <1>5, <1>6, <1>7, <1>8, <1>9, <1>10

(* A group leads forward on the other side, too; one identity segment      *)
(* keeps its length.                                                       *)
LEMMA GroupRises ==
    ASSUME NEW P, Ruler(P), NEW v, NEW n, NEW end, NEW last, Rail(v, n, P, end, last),
           NEW i, NEW b, NEW c, NEW at, Group(v, n, P, end, i, b, c, at)
    PROVE  /\ Value(v, n, last, i, b) \in Nat \X Nat /\ Value(v, n, last, c, at) \in Nat \X Nat
           /\ Le(Value(v, n, last, i, b), Value(v, n, last, c, at))
           /\ v[i].there.from[1] < v[i].there.to[1] =>
                Value(v, n, last, i, b)[1] < Value(v, n, last, c, at)[1]
           /\ i = c /\ v[i].same =>
                SameLength([from |-> Value(v, n, last, i, b), to |-> Value(v, n, last, c, at)],
                           [from |-> b, to |-> at])
<1> DEFINE x == Across(v[i].here, v[i].there, v[i].same, b)
           y == Across(v[c].here, v[c].there, v[c].same, at)
<1>1. /\ n \in Nat /\ i \in 1..n /\ c \in 1..n /\ i <= c /\ b \in P /\ at \in P /\ b[1] < at[1]
    BY DEF Rail, Group
<1>2. /\ Slope(v[c].here, v[c].there, v[c].same, P) /\ Legal(v[c].here, v[c].same, at)
      /\ Slope(v[i].here, v[i].there, v[i].same, P) /\ Legal(v[i].here, v[i].same, b)
      /\ Value(v, n, last, i, b) = x /\ Value(v, n, last, c, at) = y
    BY GroupCut
<1>3. /\ x \in Nat \X Nat /\ Le(v[i].there.from, x) /\ Le(x, v[i].there.to)
      /\ y \in Nat \X Nat /\ Le(v[c].there.from, y) /\ Le(y, v[c].there.to)
    BY <1>1, <1>2, AcrossIn
<1>4. CASE i = c
    <2>1. /\ Le(x, y)
          /\ v[i].there.from[1] < v[i].there.to[1] => x[1] < y[1]
          /\ v[i].same => SameLength([from |-> x, to |-> y], [from |-> b, to |-> at])
        BY <1>1, <1>2, <1>4, AcrossGrows
    <2> HIDE DEF x, y
    <2> QED BY <1>2, <1>3, <2>1
<1>5. CASE i # c
    <2>1. i < c /\ Le(v[i].there.to, v[c].there.from)
        BY <1>1, <1>5 DEF Rail
    <2>2. /\ v[i].there.from \in Nat \X Nat /\ v[i].there.to \in Nat \X Nat /\ v[c].there.from \in Nat \X Nat
        BY <1>1 DEF Rail
    <2>3. v[i].there.from[1] < v[i].there.to[1] => x[1] < v[i].there.to[1]
        <3> SUFFICES ASSUME v[i].there.from[1] < v[i].there.to[1] PROVE x[1] < v[i].there.to[1]
            OBVIOUS
        <3>1. v[i].here.to \in P /\ b[1] < v[i].here.to[1] /\ Legal(v[i].here, v[i].same, v[i].here.to)
            <4>1. v[i].here.to \in P
                BY <1>1 DEF Rail
            <4>2. b[1] < v[i].here.to[1]
                BY DEF Group
            <4>3. Legal(v[i].here, v[i].same, v[i].here.to)
                BY DEF Legal
            <4> QED BY <4>1, <4>2, <4>3
        <3>2. Across(v[i].here, v[i].there, v[i].same, v[i].here.to) = v[i].there.to
            <4>1. v[i].here.from \in Nat \X Nat /\ v[i].here.to \in Nat \X Nat /\ v[i].here.from[1] < v[i].here.to[1]
                BY <1>2 DEF Slope, Ruler
            <4> QED BY <4>1, AcrossTo
        <3>3. x[1] < Across(v[i].here, v[i].there, v[i].same, v[i].here.to)[1]
            BY <1>1, <1>2, <3>1, AcrossGrows
        <3> QED BY <3>2, <3>3
    <2> HIDE DEF x, y
    <2>4. Le(x, y)
        BY <1>3, <2>1, <2>2 DEF Le
    <2>5. v[i].there.from[1] < v[i].there.to[1] => x[1] < y[1]
        BY <1>3, <2>1, <2>2, <2>3 DEF Le
    <2> QED BY <1>2, <1>3, <1>5, <2>4, <2>5
<1> QED BY <1>4, <1>5

(* The walk goes on at the point a group ends at.                          *)
LEMMA GroupEnds ==
    ASSUME NEW P, Ruler(P), NEW v, NEW n, NEW end, NEW last, Rail(v, n, P, end, last),
           NEW i, NEW b, NEW c, NEW at, Group(v, n, P, end, i, b, c, at),
           NEW k, k = IF v[c].here.to[1] <= at[1] THEN c + 1 ELSE c
    PROVE  /\ Standpoint(v, n, end, k, at)
           /\ Value(v, n, last, k, at) = Value(v, n, last, c, at)
<1>1. /\ n \in Nat /\ c \in 1..n /\ at \in P /\ v[c].here.from[1] < at[1] /\ at[1] <= v[c].here.to[1]
      /\ at \in Nat \X Nat /\ v[c].here.to \in Nat \X Nat /\ v[c].here.from \in Nat \X Nat
    BY DEF Rail, Group, Ruler
<1>2. CASE v[c].here.to[1] <= at[1]
    <2>1. k = c + 1 /\ at[1] = v[c].here.to[1]
        BY <1>1, <1>2
    <2>2. at = v[c].here.to /\ Value(v, n, last, c, at) = Across(v[c].here, v[c].there, v[c].same, at)
        BY <2>1, GroupCut
    <2>3. Value(v, n, last, c, at) = v[c].there.to
        <3>1. v[c].here.from[1] # v[c].here.to[1]
            BY <1>1
        <3> QED BY <2>2, <3>1, AcrossTo
    <2>4. CASE c = n
        <3>1. v[c].here.to = end /\ v[c].there.to = last
            BY <1>1, <2>4 DEF Rail
        <3>2. k = n + 1 /\ k > n
            BY <1>1, <2>1, <2>4
        <3> QED BY <2>2, <2>3, <3>1, <3>2 DEF Standpoint, Value
    <2>5. CASE c # n
        <3>1. k \in 1..n /\ ~(k > n) /\ c + 1 <= n
            BY <1>1, <2>1, <2>5
        <3>2. v[k].here.from = at /\ v[k].there.from = v[c].there.to
            BY <1>1, <2>1, <2>2, <3>1 DEF Rail
        <3>3. Value(v, n, last, k, at) = Across(v[k].here, v[k].there, v[k].same, at)
            BY <3>1, Zenon DEF Value
        <3>4. Across(v[k].here, v[k].there, v[k].same, at) = v[k].there.from
            BY <3>2, AcrossFrom
        <3> QED BY <2>3, <3>1, <3>2, <3>3, <3>4 DEF Standpoint
    <2> QED BY <2>4, <2>5
<1>3. CASE ~(v[c].here.to[1] <= at[1])
    <2>1. k = c
        BY <1>3
    <2>2. at[1] < v[c].here.to[1]
        BY <1>1, <1>3
    <2>3. v[c].same
        BY <2>2 DEF Group
    <2> QED BY <1>1, <2>1, <2>2, <2>3 DEF Standpoint
<1> QED BY <1>2, <1>3

(* The loop that widens a cut.                                             *)
CutRun(V, inner, outer, i, j) ==
    /\ V[0] = <<i, j>>
    /\ \A k \in 1..(Len(inner) + Len(outer)) : V[k] = Widen(inner, outer, V[k - 1])
    /\ NextCut(inner, outer, i, j) = V[(Len(inner) + Len(outer))]

(* next_cut is the last value of its loop.                                 *)
LEMMA CutLoop ==
    ASSUME NEW inner, NEW outer, NEW i, NEW j, Len(inner) \in Nat, Len(outer) \in Nat
    PROVE  \E V : CutRun(V, inner, outer, i, j)
<1> DEFINE B(x) == Widen(inner, outer, x)
           E(g, m) == [k \in 0..m |-> IF k = 0 THEN <<i, j>> ELSE B(g[k - 1])]
           T == {m \in Nat : \E g : g = E(g, m)}
           I == CHOOSE g : g = E(g, (Len(inner) + Len(outer)))
<1>1. (Len(inner) + Len(outer)) \in Nat
    OBVIOUS
<1>2. NextCut(inner, outer, i, j) = I[(Len(inner) + Len(outer))]
    BY Zenon DEF NextCut, Repeat
<1> HIDE DEF B
<1>3. 0 \in T
    <2>1. [k \in 0..0 |-> <<i, j>>] = E([k \in 0..0 |-> <<i, j>>], 0)
        OBVIOUS
    <2> HIDE DEF E
    <2> QED BY <2>1
<1>4. ASSUME NEW m \in Nat, m \in T PROVE m + 1 \in T
    <2>1. PICK g : g = E(g, m)
        BY <1>4
    <2> DEFINE h == [k \in 0..m + 1 |-> IF k = m + 1 THEN B(g[m]) ELSE g[k]]
    <2>2. \A k \in 0..m : g[k] = IF k = 0 THEN <<i, j>> ELSE B(g[k - 1])
        BY <2>1
    <2>3. ASSUME NEW k \in 0..m + 1 PROVE h[k] = IF k = 0 THEN <<i, j>> ELSE B(h[k - 1])
        <3>1. CASE k = m + 1
            <4>1. k # 0 /\ k - 1 = m /\ m \in 0..m + 1 /\ m # m + 1
                BY <3>1
            <4>2. h[k] = B(g[m]) /\ h[m] = g[m]
                BY <3>1, <4>1
            <4> HIDE DEF h
            <4> QED BY <4>1, <4>2
        <3>2. CASE k # m + 1
            <4>1. k \in 0..m /\ (k # 0 => k - 1 \in 0..m + 1 /\ k - 1 # m + 1)
                BY <3>2
            <4>2. h[k] = g[k] /\ (k # 0 => h[k - 1] = g[k - 1])
                BY <3>2, <4>1
            <4> HIDE DEF h
            <4> QED BY <2>2, <4>1, <4>2
        <3> QED BY <3>1, <3>2
    <2>4. h = E(h, m + 1)
        <3>1. h = [k \in 0..m + 1 |-> h[k]]
            OBVIOUS
        <3> HIDE DEF h
        <3> QED BY <2>3, <3>1
    <2> HIDE DEF E, h
    <2> QED BY <2>4
<1>5. \A m \in Nat : m \in T
    <2> HIDE DEF T
    <2> QED BY <1>3, <1>4, SetInduction
<1>6. I = E(I, (Len(inner) + Len(outer)))
    <2>1. \E g : g = E(g, (Len(inner) + Len(outer)))
        BY <1>1, <1>5
    <2> HIDE DEF E
    <2> QED BY <2>1, Zenon
<1>7. I[0] = <<i, j>> /\ \A k \in 1..(Len(inner) + Len(outer)) : I[k] = B(I[k - 1])
    <2> HIDE DEF I
    <2>1. \A k \in 0..(Len(inner) + Len(outer)) : I[k] = IF k = 0 THEN <<i, j>> ELSE B(I[k - 1])
        BY <1>6
    <2>2. 0 \in 0..(Len(inner) + Len(outer)) /\ \A k \in 1..(Len(inner) + Len(outer)) : k \in 0..(Len(inner) + Len(outer)) /\ k # 0
        BY <1>1
    <2> HIDE DEF E
    <2> QED BY <2>1, <2>2
<1> HIDE DEF I
<1>8. CutRun(I, inner, outer, i, j)
    BY <1>2, <1>7, Zenon DEF B, CutRun
<1> QED BY <1>8

(* Tables that can be composed: inner ends in the points P at which outer  *)
(* begins, and an identity segment of outer takes points to points.        *)
Carries(m, P, Q) ==
    \A k \in DOMAIN m : IsIdentity(m[k]) =>
        \A p \in P : m[k].src.from[1] <= p[1] /\ p[1] <= m[k].src.to[1] =>
            Shift(p, m[k].src.from, m[k].dst.from) \in Q

Joint(inner, outer, P, Q) ==
    /\ Ruler(P) /\ Q \subseteq Nat \X Nat /\ Origin \in P /\ Origin \in Q
    /\ Table(inner, Nat \X Nat, P) /\ Table(outer, P, Q) /\ Carries(outer, P, Q)
    /\ DstEnd(inner) = SrcEnd(outer)

(* A table ends at points of its two sides.                                *)
LEMMA EndsIn ==
    ASSUME NEW m, NEW P, NEW Q, Table(m, P, Q), Origin \in P, Origin \in Q
    PROVE  SrcEnd(m) \in P /\ DstEnd(m) \in Q
<1>1. Len(m) \in Nat /\ DOMAIN m = 1..Len(m) /\ (m = <<>> <=> Len(m) = 0)
    BY SeqParts DEF Table
<1>2. CASE m = <<>>
    BY <1>2 DEF SrcEnd, DstEnd
<1>3. CASE m # <<>>
    <2>1. Len(m) \in DOMAIN m
        BY <1>1, <1>3
    <2>2. Sound(m[Len(m)], P, Q)
        BY <2>1 DEF Table
    <2> QED BY <1>3, <2>2 DEF SrcEnd, DstEnd, Sound
<1> QED BY <1>2, <1>3

(* What holds of the segments of two tables that can be composed.          *)
LEMMA JointParts ==
    ASSUME NEW inner, NEW outer, NEW P, NEW Q, Joint(inner, outer, P, Q)
    PROVE  /\ P \in SUBSET (Nat \X Nat) /\ Q \in SUBSET (Nat \X Nat)
           /\ Len(inner) \in Nat /\ DOMAIN inner = 1..Len(inner)
           /\ Len(outer) \in Nat /\ DOMAIN outer = 1..Len(outer)
           /\ DstEnd(inner) \in P /\ SrcEnd(inner) \in Nat \X Nat /\ DstEnd(outer) \in Q
           /\ \A k \in 1..Len(inner) :
                /\ inner[k].dst.from \in P /\ inner[k].dst.to \in P
                /\ inner[k].dst.from[1] \in Nat /\ inner[k].dst.to[1] \in Nat
                /\ inner[k].dst.from[1] <= inner[k].dst.to[1] /\ inner[k].dst.to[1] <= DstEnd(inner)[1]
                /\ k + 1 <= Len(inner) => inner[k + 1].dst.from = inner[k].dst.to
                /\ k = Len(inner) => inner[k].dst.to = DstEnd(inner)
           /\ \A k \in 1..Len(outer) :
                /\ outer[k].src.from \in P /\ outer[k].src.to \in P
                /\ outer[k].src.from[1] \in Nat /\ outer[k].src.to[1] \in Nat
                /\ outer[k].src.from[1] < outer[k].src.to[1] /\ outer[k].src.to[1] <= DstEnd(inner)[1]
                /\ k + 1 <= Len(outer) => outer[k + 1].src.from = outer[k].src.to
                /\ k = Len(outer) => outer[k].src.to = DstEnd(inner)
<1>1. /\ P \in SUBSET (Nat \X Nat) /\ Q \in SUBSET (Nat \X Nat) /\ Origin \in P /\ Origin \in Q
      /\ Table(inner, Nat \X Nat, P) /\ Table(outer, P, Q) /\ DstEnd(inner) = SrcEnd(outer)
      /\ IsSeq(inner) /\ IsSeq(outer)
    BY DEF Joint, Ruler, Table
<1>2. /\ Len(inner) \in Nat /\ DOMAIN inner = 1..Len(inner)
      /\ Len(outer) \in Nat /\ DOMAIN outer = 1..Len(outer)
    BY <1>1, SeqParts
<1>3. DstEnd(inner) \in P /\ SrcEnd(inner) \in Nat \X Nat /\ DstEnd(outer) \in Q
    <2>1. Origin \in Nat \X Nat
        BY DEF Origin
    <2> QED BY <1>1, <2>1, EndsIn
<1>4. ASSUME NEW k \in 1..Len(inner)
      PROVE  /\ inner[k].dst.from \in P /\ inner[k].dst.to \in P
             /\ inner[k].dst.from[1] \in Nat /\ inner[k].dst.to[1] \in Nat
             /\ inner[k].dst.from[1] <= inner[k].dst.to[1] /\ inner[k].dst.to[1] <= DstEnd(inner)[1]
             /\ k + 1 <= Len(inner) => inner[k + 1].dst.from = inner[k].dst.to
             /\ k = Len(inner) => inner[k].dst.to = DstEnd(inner)
    <2>1. Sound(inner[k], Nat \X Nat, P)
        BY <1>1, <1>2 DEF Table
    <2>2. inner[k].dst.from \in P /\ inner[k].dst.to \in P /\ Le(inner[k].dst.from, inner[k].dst.to)
        BY <2>1 DEF Sound
    <2>3. Le(inner[k].dst.to, DstEnd(inner))
        BY <1>1, <1>2, Chain
    <2>4. k + 1 <= Len(inner) => inner[k + 1].dst.from = inner[k].dst.to
        <3>1. k + 1 <= Len(inner) => k + 1 \in DOMAIN inner
            BY <1>2
        <3> QED BY <1>1, <1>2, <3>1, Follows
    <2>5. k = Len(inner) => inner[k].dst.to = DstEnd(inner)
        BY <1>1, <1>2, Follows
    <2>6. inner[k].dst.from[1] \in Nat /\ inner[k].dst.to[1] \in Nat
        BY <1>1, <2>2
    <2> QED BY <2>2, <2>3, <2>4, <2>5, <2>6 DEF Le
<1>5. ASSUME NEW k \in 1..Len(outer)
      PROVE  /\ outer[k].src.from \in P /\ outer[k].src.to \in P
             /\ outer[k].src.from[1] \in Nat /\ outer[k].src.to[1] \in Nat
             /\ outer[k].src.from[1] < outer[k].src.to[1] /\ outer[k].src.to[1] <= DstEnd(inner)[1]
             /\ k + 1 <= Len(outer) => outer[k + 1].src.from = outer[k].src.to
             /\ k = Len(outer) => outer[k].src.to = DstEnd(inner)
    <2>1. Sound(outer[k], P, Q)
        BY <1>1, <1>2 DEF Table
    <2>2. outer[k].src.from \in P /\ outer[k].src.to \in P /\ outer[k].src.from[1] < outer[k].src.to[1]
        BY <2>1 DEF Sound
    <2>3. Le(outer[k].src.to, SrcEnd(outer))
        BY <1>1, <1>2, Chain
    <2>4. k + 1 <= Len(outer) => outer[k + 1].src.from = outer[k].src.to
        <3>1. k + 1 <= Len(outer) => k + 1 \in DOMAIN outer
            BY <1>2
        <3> QED BY <1>1, <1>2, <3>1, Follows
    <2>5. k = Len(outer) => outer[k].src.to = SrcEnd(outer)
        BY <1>1, <1>2, Follows
    <2>6. outer[k].src.from[1] \in Nat /\ outer[k].src.to[1] \in Nat
        BY <1>1, <2>2
    <2> QED BY <1>1, <2>2, <2>3, <2>4, <2>5, <2>6 DEF Le
<1> QED BY <1>1, <1>2, <1>3, <1>4, <1>5

(* The two sides of tables that can be composed.                           *)
LEMMA JointSides ==
    ASSUME NEW inner, NEW outer, NEW P, NEW Q, Joint(inner, outer, P, Q)
    PROVE  /\ P \in SUBSET (Nat \X Nat) /\ Q \in SUBSET (Nat \X Nat)
           /\ Len(inner) \in Nat /\ DOMAIN inner = 1..Len(inner)
           /\ Len(outer) \in Nat /\ DOMAIN outer = 1..Len(outer)
           /\ DstEnd(inner) \in P /\ SrcEnd(inner) \in Nat \X Nat /\ DstEnd(outer) \in Q
BY JointParts

(* A segment of inner, on the side it shares with outer.                   *)
LEMMA InnerParts ==
    ASSUME NEW inner, NEW outer, NEW P, NEW Q, Joint(inner, outer, P, Q), NEW k \in 1..Len(inner)
    PROVE  /\ inner[k].dst.from \in P /\ inner[k].dst.to \in P
           /\ inner[k].dst.from[1] \in Nat /\ inner[k].dst.to[1] \in Nat
           /\ inner[k].dst.from[1] <= inner[k].dst.to[1] /\ inner[k].dst.to[1] <= DstEnd(inner)[1]
           /\ k + 1 <= Len(inner) => inner[k + 1].dst.from = inner[k].dst.to
           /\ k = Len(inner) => inner[k].dst.to = DstEnd(inner)
BY JointParts

(* A segment of outer, on the side it shares with inner.                   *)
LEMMA OuterParts ==
    ASSUME NEW inner, NEW outer, NEW P, NEW Q, Joint(inner, outer, P, Q), NEW k \in 1..Len(outer)
    PROVE  /\ outer[k].src.from \in P /\ outer[k].src.to \in P
           /\ outer[k].src.from[1] \in Nat /\ outer[k].src.to[1] \in Nat
           /\ outer[k].src.from[1] < outer[k].src.to[1] /\ outer[k].src.to[1] <= DstEnd(inner)[1]
           /\ k + 1 <= Len(outer) => outer[k + 1].src.from = outer[k].src.to
           /\ k = Len(outer) => outer[k].src.to = DstEnd(inner)
BY JointParts

(* The segments at a cut overlap; one that inner deletes lies inside a     *)
(* segment of outer that is not an identity.  A cut that was widened has   *)
(* left a segment that is not an identity behind, or has one.              *)
CutInv(inner, outer, i, j, x, y) ==
    /\ x \in i..Len(inner) /\ y \in j..Len(outer)
    /\ inner[x].dst.from[1] < outer[y].src.to[1]
    /\ outer[y].src.from[1] < inner[x].dst.to[1]
    /\ inner[x].dst.from[1] = inner[x].dst.to[1] =>
        inner[x].dst.to[1] < outer[y].src.to[1] /\ ~IsIdentity(outer[y])
    /\ \/ x = i /\ y = j
       \/ \E k \in i..x : ~IsIdentity(inner[k])
       \/ \E k \in j..y : ~IsIdentity(outer[k])

(* A cut that may not be made is widened by one segment that exists and    *)
(* overlaps.                                                               *)
LEMMA WidenKeeps ==
    ASSUME NEW inner, NEW outer, NEW P, NEW Q, Joint(inner, outer, P, Q),
           NEW i \in 1..Len(inner), NEW j \in 1..Len(outer), NEW x, NEW y,
           CutInv(inner, outer, i, j, x, y), ~MayCut(inner, outer, <<x, y>>)
    PROVE  \/ Widen(inner, outer, <<x, y>>) = <<x + 1, y>> /\ CutInv(inner, outer, i, j, x + 1, y)
           \/ Widen(inner, outer, <<x, y>>) = <<x, y + 1>> /\ CutInv(inner, outer, i, j, x, y + 1)
<1> DEFINE ei == inner[x].dst.to[1]
           ej == outer[y].src.to[1]
<1>1. /\ Len(inner) \in Nat /\ Len(outer) \in Nat /\ x \in 1..Len(inner) /\ y \in 1..Len(outer)
      /\ i \in 1..x /\ j \in 1..y
    BY JointSides DEF CutInv
<1>2. ~(x > Len(inner)) /\ ~(y > Len(outer)) /\ <<x, y>>[1] = x /\ <<x, y>>[2] = y
    BY <1>1
<1>3. /\ ei # ej
      /\ ei < ej => ~IsIdentity(outer[y])
      /\ ei > ej => ~IsIdentity(inner[x])
    BY <1>2 DEF MayCut, InnerEnd, OuterEnd, Byte
<1>4. Widen(inner, outer, <<x, y>>) = IF ei < ej THEN <<x + 1, y>> ELSE <<x, y + 1>>
    <2>1. ~Exhausted(inner, outer, <<x, y>>)
        BY <1>2 DEF Exhausted
    <2> QED BY <1>2, <2>1 DEF Widen, InnerEnd, OuterEnd, Byte
<1>5. /\ inner[x].dst.from[1] \in Nat /\ ei \in Nat /\ ei <= DstEnd(inner)[1] /\ inner[x].dst.from[1] <= ei
      /\ x + 1 <= Len(inner) => inner[x + 1].dst.from = inner[x].dst.to
      /\ x = Len(inner) => inner[x].dst.to = DstEnd(inner)
      /\ outer[y].src.from[1] \in Nat /\ ej \in Nat /\ ej <= DstEnd(inner)[1]
      /\ y + 1 <= Len(outer) => outer[y + 1].src.from = outer[y].src.to
      /\ y = Len(outer) => outer[y].src.to = DstEnd(inner)
    <2>1. /\ inner[x].dst.from[1] \in Nat /\ inner[x].dst.to[1] \in Nat
          /\ inner[x].dst.from[1] <= inner[x].dst.to[1] /\ inner[x].dst.to[1] <= DstEnd(inner)[1]
          /\ x + 1 <= Len(inner) => inner[x + 1].dst.from = inner[x].dst.to
          /\ x = Len(inner) => inner[x].dst.to = DstEnd(inner)
        <3> HIDE DEF ei, ej
        <3> QED BY <1>1, InnerParts
    <2>2. /\ outer[y].src.from[1] \in Nat /\ outer[y].src.to[1] \in Nat
          /\ outer[y].src.to[1] <= DstEnd(inner)[1]
          /\ y + 1 <= Len(outer) => outer[y + 1].src.from = outer[y].src.to
          /\ y = Len(outer) => outer[y].src.to = DstEnd(inner)
        <3> HIDE DEF ei, ej
        <3> QED BY <1>1, OuterParts
    <2> QED BY <2>1, <2>2
<1>6. /\ inner[x].dst.from[1] < ej /\ outer[y].src.from[1] < ei
      /\ inner[x].dst.from[1] = ei => ei < ej
    BY DEF CutInv
<1>7. CASE ei < ej
    <2>1. x + 1 \in 1..Len(inner) /\ x + 1 \in i..Len(inner) /\ x + 1 <= Len(inner)
        <3>1. x # Len(inner)
            BY <1>5, <1>7
        <3> QED BY <1>1, <3>1
    <2>2. /\ inner[x + 1].dst.from[1] = ei /\ inner[x + 1].dst.to[1] \in Nat
          /\ inner[x + 1].dst.from[1] <= inner[x + 1].dst.to[1]
        BY <1>5, <2>1, InnerParts
    <2>3. inner[x + 1].dst.from[1] < ej /\ outer[y].src.from[1] < inner[x + 1].dst.to[1]
        <3> DEFINE s == inner[x + 1].dst.from[1]
                   t == inner[x + 1].dst.to[1]
                   f == outer[y].src.from[1]
        <3>1. f \in Nat /\ ej \in Nat /\ ei \in Nat /\ f < ei /\ ei < ej
            BY <1>5, <1>6, <1>7
        <3>2. s = ei /\ s <= t /\ t \in Nat
            BY <2>2
        <3> HIDE DEF f, t, s, ei, ej
        <3>3. s < ej /\ f < t
            BY <3>1, <3>2
        <3> QED BY <3>3 DEF f, t, s
    <2>4. inner[x + 1].dst.from[1] = inner[x + 1].dst.to[1] =>
            inner[x + 1].dst.to[1] < ej /\ ~IsIdentity(outer[y])
        BY <1>3, <1>7, <2>2
    <2>5. \E k \in j..y : ~IsIdentity(outer[k])
        <3>1. y \in j..y
            BY <1>1
        <3> QED BY <1>3, <1>7, <3>1
    <2>6. CutInv(inner, outer, i, j, x + 1, y)
        <3>1. y \in j..Len(outer)
            BY DEF CutInv
        <3> QED BY <2>1, <2>3, <2>4, <2>5, <3>1 DEF CutInv
    <2> QED BY <1>4, <1>7, <2>6
<1>8. CASE ~(ei < ej)
    <2>1. ei > ej
        BY <1>3, <1>5, <1>8
    <2>2. y + 1 \in 1..Len(outer) /\ y + 1 \in j..Len(outer) /\ y + 1 <= Len(outer)
        <3>1. y # Len(outer)
            BY <1>5, <2>1
        <3> QED BY <1>1, <3>1
    <2>3. /\ outer[y + 1].src.from[1] = ej /\ outer[y + 1].src.to[1] \in Nat
          /\ outer[y + 1].src.from[1] < outer[y + 1].src.to[1]
        BY <1>5, <2>2, OuterParts
    <2>4. inner[x].dst.from[1] < outer[y + 1].src.to[1] /\ outer[y + 1].src.from[1] < ei
        <3> DEFINE f == inner[x].dst.from[1]
                   t == outer[y + 1].src.to[1]
                   s == outer[y + 1].src.from[1]
        <3>1. f \in Nat /\ ej \in Nat /\ ei \in Nat /\ f < ej /\ ei > ej
            BY <1>5, <1>6, <2>1
        <3>2. s = ej /\ s < t /\ t \in Nat
            BY <2>3
        <3> HIDE DEF f, t, s, ei, ej
        <3>3. f < t /\ s < ei
            BY <3>1, <3>2
        <3> QED BY <3>3 DEF f, t, s
    <2>5. inner[x].dst.from[1] # ei
        BY <1>6, <1>8
    <2>6. \E k \in i..x : ~IsIdentity(inner[k])
        <3>1. x \in i..x
            BY <1>1
        <3> QED BY <1>3, <2>1, <3>1
    <2>7. CutInv(inner, outer, i, j, x, y + 1)
        <3>1. x \in i..Len(inner)
            BY DEF CutInv
        <3> QED BY <2>2, <2>4, <2>5, <2>6, <3>1 DEF CutInv
    <2> QED BY <1>4, <1>8, <2>7
<1> QED BY <1>7, <1>8

(* next_cut finds a cut that may be made, before either table is           *)
(* exhausted.                                                              *)
LEMMA CutFound ==
    ASSUME NEW inner, NEW outer, NEW P, NEW Q, Joint(inner, outer, P, Q),
           NEW i \in 1..Len(inner), NEW j \in 1..Len(outer), CutInv(inner, outer, i, j, i, j)
    PROVE  \E x \in i..Len(inner), y \in j..Len(outer) :
              /\ NextCut(inner, outer, i, j) = <<x, y>>
              /\ CutInv(inner, outer, i, j, x, y) /\ MayCut(inner, outer, <<x, y>>)
<1> DEFINE N == Len(inner) + Len(outer)
           C(x, y) == CutInv(inner, outer, i, j, x, y)
           M(x, y) == MayCut(inner, outer, <<x, y>>)
           W(c) == Widen(inner, outer, c)
<1>1. Len(inner) \in Nat /\ Len(outer) \in Nat
    BY JointSides
<1>2. PICK V : /\ V[0] = <<i, j>>
               /\ \A k \in 1..N : V[k] = W(V[k - 1])
               /\ NextCut(inner, outer, i, j) = V[N]
    <2>1. PICK V : CutRun(V, inner, outer, i, j)
        BY <1>1, CutLoop
    <2> QED BY <2>1 DEF CutRun
<1>3. N \in Nat /\ \A x, y : C(x, y) => x \in i..Len(inner) /\ y \in j..Len(outer)
    BY <1>1 DEF CutInv
<1>4. ASSUME NEW x, NEW y, C(x, y), ~M(x, y)
      PROVE  (W(<<x, y>>) = <<x + 1, y>> /\ C(x + 1, y)) \/ (W(<<x, y>>) = <<x, y + 1>> /\ C(x, y + 1))
    BY <1>4, WidenKeeps
<1>5. ASSUME NEW x, NEW y, C(x, y), M(x, y) PROVE W(<<x, y>>) = <<x, y>>
    BY <1>5 DEF Widen
<1>6. C(i, j)
    OBVIOUS
<1>7. i \in Nat /\ j \in Nat /\ i >= 1 /\ j >= 1
    BY <1>1
<1> DEFINE At_(k) == \E x, y : V[k] = <<x, y>> /\ C(x, y) /\ (M(x, y) \/ x + y >= i + j + k)
           T == {k \in Nat : k <= N => At_(k)}
<1> HIDE DEF N, C, M, W
<1>8. At_(0)
    BY <1>2, <1>6, <1>7
<1>9. ASSUME NEW k \in Nat, k \in T PROVE k + 1 \in T
    <2> SUFFICES ASSUME k + 1 <= N PROVE At_(k + 1)
        OBVIOUS
    <2>1. k <= N /\ k + 1 \in 1..N /\ (k + 1) - 1 = k
        BY <1>3
    <2>2. PICK x, y : V[k] = <<x, y>> /\ C(x, y) /\ (M(x, y) \/ x + y >= i + j + k)
        BY <1>9, <2>1
    <2>3. V[k + 1] = W(<<x, y>>)
        BY <1>2, <2>1, <2>2
    <2>4. x \in Nat /\ y \in Nat
        BY <1>1, <1>3, <1>7, <2>2
    <2>5. CASE M(x, y)
        <3>1. V[k + 1] = <<x, y>>
            BY <1>5, <2>2, <2>3, <2>5
        <3> QED BY <2>2, <2>5, <3>1
    <2>6. CASE ~M(x, y)
        <3>1. x + y >= i + j + k
            BY <2>2, <2>6
        <3>2. CASE W(<<x, y>>) = <<x + 1, y>> /\ C(x + 1, y)
            <4>1. (x + 1) + y >= i + j + (k + 1)
                BY <1>7, <2>4, <3>1
            <4>2. V[k + 1] = <<x + 1, y>> /\ C(x + 1, y)
                BY <2>3, <3>2
            <4> QED BY <4>1, <4>2
        <3>3. CASE W(<<x, y>>) = <<x, y + 1>> /\ C(x, y + 1)
            <4>1. x + (y + 1) >= i + j + (k + 1)
                BY <1>7, <2>4, <3>1
            <4>2. V[k + 1] = <<x, y + 1>> /\ C(x, y + 1)
                BY <2>3, <3>3
            <4> QED BY <4>1, <4>2
        <3> QED BY <1>4, <2>2, <2>6, <3>2, <3>3
    <2> QED BY <2>5, <2>6
<1>10. At_(N)
    <2>1. \A k \in Nat : k \in T
        <3>1. 0 \in T
            BY <1>8
        <3> HIDE DEF T
        <3> QED BY <1>9, <3>1, SetInduction
    <2> QED BY <1>3, <2>1
<1>11. PICK x, y : V[N] = <<x, y>> /\ C(x, y) /\ (M(x, y) \/ x + y >= i + j + N)
    BY <1>10
<1>12. x \in i..Len(inner) /\ y \in j..Len(outer)
    BY <1>3, <1>11
<1>13. M(x, y)
    <2>1. x + y <= N /\ x + y < i + j + N
        BY <1>1, <1>7, <1>12 DEF N
    <2>2. x \in Nat /\ y \in Nat
        BY <1>1, <1>7, <1>12
    <2> QED BY <1>1, <1>3, <1>7, <1>11, <2>1, <2>2
<1> QED BY <1>2, <1>11, <1>12, <1>13 DEF C, M

-----------------------------------------------------------------------------
(* The order of numbers.                                                   *)
LEMMA Order ==
    \A a, b, c \in Nat : (a <= b /\ b < c => a < c) /\ (a < b /\ b <= c => a < c) /\ (a < b /\ b < c => a < c)
OBVIOUS

(* The end of a segment is a stop before the next one.                     *)
LEMMA StopAfter ==
    ASSUME NEW P, NEW v, NEW n, NEW end, NEW last, Rail(v, n, P, end, last),
           NEW k \in 1..n, NEW b, b = v[k].here.to
    PROVE  Standpoint(v, n, end, k + 1, b) /\ Value(v, n, last, k + 1, b) = v[k].there.to
<1>1. n \in Nat /\ k + 1 \in 1..n + 1
    BY DEF Rail
<1>2. CASE k = n
    <2>1. v[k].here.to = end /\ v[k].there.to = last
        BY <1>2 DEF Rail
    <2>2. k + 1 = n + 1 /\ k + 1 > n
        BY <1>1, <1>2
    <2> QED BY <2>1, <2>2 DEF Standpoint, Value
<1>3. CASE k # n
    <2>1. k + 1 \in 1..n /\ ~(k + 1 > n) /\ k + 1 <= n
        BY <1>1, <1>3
    <2>2. v[k + 1].here.from = b /\ v[k + 1].there.from = v[k].there.to
        BY <2>1 DEF Rail
    <2>3. Value(v, n, last, k + 1, b) = Across(v[k + 1].here, v[k + 1].there, v[k + 1].same, b)
        BY <2>1, Zenon DEF Value
    <2>4. Across(v[k + 1].here, v[k + 1].there, v[k + 1].same, b) = v[k + 1].there.from
        BY <2>2, AcrossFrom
    <2> QED BY <2>1, <2>2, <2>3, <2>4 DEF Standpoint
<1> QED BY <1>2, <1>3

(* Segments that were not changed cost nothing.                            *)
LEMMA EmptyCost == ASSUME NEW m PROVE Cost(m, {}) = 0
<1> DEFINE N(T, F) == m[CHOOSE x \in T : TRUE].cost + F[T \ {CHOOSE x \in T : TRUE}]
           E(F) == [T \in SUBSET {} |-> IF T = {} THEN 0 ELSE N(T, F)]
           I == CHOOSE F : F = E(F)
<1>1. Cost(m, {}) = I[{}]
    BY Zenon DEF Cost, MapThenSumSet, MapThenFoldSet
<1>2. \E F : F = E(F)
    <2> DEFINE G == [T \in SUBSET {} |-> 0]
    <2>1. \A T \in SUBSET {} : T = {}
        OBVIOUS
    <2>2. G = E(G)
        <3> HIDE DEF N
        <3> QED BY <2>1
    <2> HIDE DEF E, G
    <2> QED BY <2>2
<1>3. I = E(I)
    <2> HIDE DEF E
    <2> QED BY <1>2, Zenon
<1> HIDE DEF N, I
<1>4. I[{}] = 0
    BY <1>3
<1> QED BY <1>1, <1>4

(* Where compose stands, and what it has made so far.                      *)
Place(inner, outer, P, Q, i, j, b, mp) ==
    /\ b \in P
    /\ Standpoint(BackView(inner), Len(inner), DstEnd(inner), i, b)
    /\ Standpoint(ForeView(outer), Len(outer), DstEnd(inner), j, b)
    /\ Table(mp, Nat \X Nat, Q)
    /\ SrcEnd(mp) = BackwardPoint(inner, i, b)
    /\ DstEnd(mp) = ForwardPoint(outer, j, b)

(* Both tables of a composition as they are walked.                        *)
LEMMA Rails ==
    ASSUME NEW inner, NEW outer, NEW P, NEW Q, Joint(inner, outer, P, Q)
    PROVE  /\ Rail(BackView(inner), Len(inner), P, DstEnd(inner), SrcEnd(inner))
           /\ \A k \in 1..Len(inner) + 1 : \A b :
                BackwardPoint(inner, k, b) = Value(BackView(inner), Len(inner), SrcEnd(inner), k, b)
           /\ \A k \in 1..Len(inner) : BackView(inner)[k].there.from[1] < BackView(inner)[k].there.to[1]
           /\ \A k \in 1..Len(inner) :
                /\ BackView(inner)[k].here = inner[k].dst /\ BackView(inner)[k].there = inner[k].src
                /\ BackView(inner)[k].same = IsIdentity(inner[k])
           /\ Rail(ForeView(outer), Len(outer), P, DstEnd(inner), DstEnd(outer))
           /\ \A k \in 1..Len(outer) + 1 : \A b :
                ForwardPoint(outer, k, b) = Value(ForeView(outer), Len(outer), DstEnd(outer), k, b)
           /\ \A k \in 1..Len(outer) : ForeView(outer)[k].here.from[1] < ForeView(outer)[k].here.to[1]
           /\ \A k \in 1..Len(outer) :
                /\ ForeView(outer)[k].here = outer[k].src /\ ForeView(outer)[k].there = outer[k].dst
                /\ ForeView(outer)[k].same = IsIdentity(outer[k])
<1>1. /\ P \in SUBSET (Nat \X Nat) /\ Q \in SUBSET (Nat \X Nat)
      /\ Table(inner, Nat \X Nat, P) /\ Table(outer, P, Q)
      /\ DstEnd(inner) \in P /\ SrcEnd(inner) \in Nat \X Nat /\ DstEnd(outer) \in Q /\ SrcEnd(outer) = DstEnd(inner)
      /\ Nat \X Nat \in SUBSET (Nat \X Nat) /\ SrcEnd(outer) \in P
    BY JointSides DEF Joint
<1>2. /\ Rail(BackView(inner), Len(inner), P, DstEnd(inner), SrcEnd(inner))
      /\ \A k \in 1..Len(inner) + 1 : \A b :
                BackwardPoint(inner, k, b) = Value(BackView(inner), Len(inner), SrcEnd(inner), k, b)
      /\ \A k \in 1..Len(inner) : BackView(inner)[k].there.from[1] < BackView(inner)[k].there.to[1]
      /\ \A k \in 1..Len(inner) :
                /\ BackView(inner)[k].here = inner[k].dst /\ BackView(inner)[k].there = inner[k].src
                /\ BackView(inner)[k].same = IsIdentity(inner[k])
    BY <1>1, BackRail
<1>3. /\ Rail(ForeView(outer), Len(outer), P, SrcEnd(outer), DstEnd(outer))
      /\ \A k \in 1..Len(outer) + 1 : \A b :
                ForwardPoint(outer, k, b) = Value(ForeView(outer), Len(outer), DstEnd(outer), k, b)
      /\ \A k \in 1..Len(outer) : ForeView(outer)[k].here.from[1] < ForeView(outer)[k].here.to[1]
      /\ \A k \in 1..Len(outer) :
                /\ ForeView(outer)[k].here = outer[k].src /\ ForeView(outer)[k].there = outer[k].dst
                /\ ForeView(outer)[k].same = IsIdentity(outer[k])
    BY <1>1, ForeRail
<1> QED BY <1>1, <1>2, <1>3

(* The fields of the state of the walk.                                    *)
LEMMA StandingParts ==
    ASSUME NEW i, NEW j, NEW b, NEW mp
    PROVE  /\ Standing(i, j, b, mp).ok = TRUE /\ Standing(i, j, b, mp).i = i /\ Standing(i, j, b, mp).j = j
           /\ Standing(i, j, b, mp).b = b /\ Standing(i, j, b, mp).map = mp
BY DEF Standing

(* compose passes what inner has deleted.                                  *)
LEMMA DeletedStep ==
    ASSUME NEW inner, NEW outer, NEW P, NEW Q, Joint(inner, outer, P, Q),
           NEW i, NEW j, NEW b, NEW mp, Place(inner, outer, P, Q, i, j, b, mp),
           i \in 1..Len(inner), IsEmpty(inner[i].dst)
    PROVE  \E mp2 : /\ PassDeleted(inner, outer, Standing(i, j, b, mp)) = Standing(i + 1, j, b, mp2)
                    /\ Place(inner, outer, P, Q, i + 1, j, b, mp2)
<1> DEFINE v == BackView(inner)
           n == Len(inner)
           c == ForwardPoint(outer, j, b)
           seg == PassOn(inner[i], c)
           mp2 == Append(mp, seg)
<1>1. /\ P \in SUBSET (Nat \X Nat) /\ Q \in SUBSET (Nat \X Nat) /\ Ruler(P)
      /\ Origin \in Q /\ Origin \in Nat \X Nat /\ n \in Nat
    BY JointSides DEF Joint, Origin
<1>2. /\ b \in P /\ Standpoint(v, n, DstEnd(inner), i, b) /\ Table(mp, Nat \X Nat, Q)
      /\ SrcEnd(mp) = BackwardPoint(inner, i, b) /\ DstEnd(mp) = c
      /\ Standpoint(ForeView(outer), Len(outer), DstEnd(inner), j, b)
    BY DEF Place
<1>3. c \in Q /\ c \in Nat \X Nat
    BY <1>1, <1>2, EndsIn
<1>4. /\ inner[i].dst.from \in P /\ inner[i].dst.to \in P
      /\ inner[i].dst.from[1] \in Nat /\ inner[i].dst.to[1] \in Nat
      /\ inner[i].dst.from[1] = inner[i].dst.to[1]
    <2>1. /\ inner[i].dst.from \in P /\ inner[i].dst.to \in P
          /\ inner[i].dst.from[1] \in Nat /\ inner[i].dst.to[1] \in Nat
          /\ inner[i].dst.from[1] <= inner[i].dst.to[1]
        BY InnerParts
    <2>2. inner[i].dst.from[1] >= inner[i].dst.to[1]
        BY DEF IsEmpty, Byte
    <2> QED BY <2>1, <2>2
<1>5. inner[i].dst.from = inner[i].dst.to
    <2>1. inner[i].dst.from[2] = inner[i].dst.to[2]
        BY <1>4 DEF Joint, Ruler
    <2> QED BY <1>1, <1>4, <2>1, PairIs
<1>6. v[i].here = inner[i].dst /\ v[i].there = inner[i].src /\ v[i].same = IsIdentity(inner[i])
    BY Rails
<1>7. Rail(v, n, P, DstEnd(inner), SrcEnd(inner))
    BY Rails
<1>8. b = inner[i].dst.from
    <2>1. b \in Nat \X Nat /\ b[1] \in Nat
        BY <1>1, <1>2
    <2>2. i # n + 1
        BY <1>1
    <2>3. ~(inner[i].dst.from[1] < b[1] /\ b[1] < inner[i].dst.to[1])
        BY <1>4, <2>1
    <2> QED BY <1>2, <1>6, <2>2, <2>3 DEF Standpoint
<1>9. BackwardPoint(inner, i, b) = inner[i].src.from
    <2>1. Value(v, n, SrcEnd(inner), i, b) = v[i].there.from
        BY <1>1, <1>2, <1>6, <1>7, <1>8, StopValue
    <2>2. i \in 1..n + 1
        BY <1>1
    <2>3. BackwardPoint(inner, i, b) = Value(v, n, SrcEnd(inner), i, b)
        BY <2>2, Rails
    <2> QED BY <1>6, <2>1, <2>3
<1>10. Standpoint(v, n, DstEnd(inner), i + 1, b) /\ BackwardPoint(inner, i + 1, b) = inner[i].src.to
    <2>1. b = v[i].here.to
        BY <1>5, <1>6, <1>8
    <2>2. Standpoint(v, n, DstEnd(inner), i + 1, b) /\ Value(v, n, SrcEnd(inner), i + 1, b) = v[i].there.to
        BY <1>7, <2>1, StopAfter
    <2>3. i + 1 \in 1..n + 1
        BY <1>1
    <2>4. BackwardPoint(inner, i + 1, b) = Value(v, n, SrcEnd(inner), i + 1, b)
        BY <2>3, Rails
    <2> QED BY <1>6, <2>2, <2>4
<1>11. seg.src = inner[i].src /\ seg.dst.from = c /\ seg.dst.to = c /\ seg.kind = "delete"
    BY DEF PassOn, Segment, EmptyAt, Span
<1>12. Sound(seg, Nat \X Nat, Q)
    <2>1. Sound(inner[i], Nat \X Nat, P)
        <3>1. i \in DOMAIN inner /\ Table(inner, Nat \X Nat, P)
            BY JointSides DEF Joint
        <3> QED BY <3>1 DEF Table
    <2>2. /\ inner[i].src.from \in Nat \X Nat /\ inner[i].src.to \in Nat \X Nat
          /\ inner[i].src.from[1] < inner[i].src.to[1] /\ Le(inner[i].src.from, inner[i].src.to)
        BY <2>1 DEF Sound
    <2>3. Le(c, c) /\ c[1] >= c[1]
        BY <1>3 DEF Le
    <2> HIDE DEF seg, c
    <2> QED BY <1>3, <1>11, <2>2, <2>3 DEF Sound, Kinds
<1>13. /\ Table(mp2, Nat \X Nat, Q) /\ SrcEnd(mp2) = inner[i].src.to /\ DstEnd(mp2) = c
    <2>1. seg.src.from = SrcEnd(mp) /\ seg.dst.from = DstEnd(mp)
        BY <1>2, <1>9, <1>11
    <2> HIDE DEF seg, c
    <2> QED BY <1>2, <1>11, <1>12, <2>1, AppendTile
<1>14. PassDeleted(inner, outer, Standing(i, j, b, mp)) = Standing(i + 1, j, b, mp2)
    <2>1. c # Nowhere
        BY <1>3 DEF Nowhere
    <2> DEFINE w == Standing(i, j, b, mp)
    <2>2. w.i = i /\ w.j = j /\ w.b = b /\ w.map = mp
        BY DEF Standing
    <2> HIDE DEF w
    <2>3. PassDeleted(inner, outer, w) =
            IF ForwardPoint(outer, w.j, w.b) = Nowhere THEN Mismatch
            ELSE Standing(w.i + 1, w.j, w.b, Append(w.map, PassOn(inner[w.i], ForwardPoint(outer, w.j, w.b))))
        BY Zenon DEF PassDeleted
    <2>4. PassDeleted(inner, outer, w) = Standing(i + 1, j, b, mp2)
        BY <2>1, <2>2, <2>3
    <2> QED BY <2>4 DEF w
<1>15. Place(inner, outer, P, Q, i + 1, j, b, mp2)
    <2> HIDE DEF mp2
    <2> QED BY <1>2, <1>10, <1>13 DEF Place
<1> HIDE DEF mp2
<1> QED BY <1>14, <1>15

(* Where nothing is deleted, both tables go on, and their segments overlap. *)
LEMMA GoesOn ==
    ASSUME NEW inner, NEW outer, NEW P, NEW Q, Joint(inner, outer, P, Q),
           NEW i, NEW j, NEW b, NEW mp, Place(inner, outer, P, Q, i, j, b, mp),
           ~(i > Len(inner) /\ j > Len(outer)),
           ~(i <= Len(inner) /\ IsEmpty(inner[i].dst))
    PROVE  /\ i \in 1..Len(inner) /\ j \in 1..Len(outer)
           /\ inner[i].dst.from[1] <= b[1] /\ b[1] < inner[i].dst.to[1]
           /\ outer[j].src.from[1] <= b[1] /\ b[1] < outer[j].src.to[1]
           /\ CutInv(inner, outer, i, j, i, j)
<1> DEFINE n == Len(inner)
           m == Len(outer)
           mid == DstEnd(inner)
<1>1. /\ P \in SUBSET (Nat \X Nat) /\ n \in Nat /\ m \in Nat /\ b \in P /\ b \in Nat \X Nat /\ b[1] \in Nat
      /\ mid \in P /\ mid[1] \in Nat
    BY JointSides DEF Place
<1>2. \/ i = n + 1 /\ b = mid
      \/ i \in 1..n /\ b = inner[i].dst.from
      \/ i \in 1..n /\ inner[i].dst.from[1] < b[1] /\ b[1] < inner[i].dst.to[1]
    <2>1. Standpoint(BackView(inner), n, mid, i, b)
        BY DEF Place
    <2>2. \A k \in 1..n : BackView(inner)[k].here = inner[k].dst
        BY Rails
    <2> QED BY <2>1, <2>2 DEF Standpoint
<1>3. \/ j = m + 1 /\ b = mid
      \/ j \in 1..m /\ b = outer[j].src.from
      \/ j \in 1..m /\ outer[j].src.from[1] < b[1] /\ b[1] < outer[j].src.to[1]
    <2>1. Standpoint(ForeView(outer), m, mid, j, b)
        BY DEF Place
    <2>2. \A k \in 1..m : ForeView(outer)[k].here = outer[k].src
        BY Rails
    <2> QED BY <2>1, <2>2 DEF Standpoint
<1>4. ASSUME i \in 1..n
      PROVE  /\ inner[i].dst.from[1] \in Nat /\ inner[i].dst.to[1] \in Nat /\ inner[i].dst.to[1] <= mid[1]
             /\ inner[i].dst.from[1] < inner[i].dst.to[1]
             /\ inner[i].dst.from[1] <= b[1] /\ b[1] < inner[i].dst.to[1]
    <2>1. /\ inner[i].dst.from[1] \in Nat /\ inner[i].dst.to[1] \in Nat /\ inner[i].dst.to[1] <= mid[1]
          /\ inner[i].dst.from[1] <= inner[i].dst.to[1]
        BY <1>4, InnerParts
    <2>2. ~(inner[i].dst.from[1] >= inner[i].dst.to[1]) /\ i <= n /\ i # n + 1
        <3>1. i <= n /\ i # n + 1
            BY <1>1, <1>4
        <3> QED BY <3>1 DEF IsEmpty, Byte
    <2>3. b = inner[i].dst.from \/ (inner[i].dst.from[1] < b[1] /\ b[1] < inner[i].dst.to[1])
        BY <1>2, <2>2
    <2> DEFINE f == inner[i].dst.from[1]
               g == inner[i].dst.to[1]
    <2>4. f \in Nat /\ g \in Nat /\ f <= g /\ ~(f >= g) /\ b[1] \in Nat /\ (b[1] = f \/ (f < b[1] /\ b[1] < g))
        BY <1>1, <2>1, <2>2, <2>3
    <2> HIDE DEF f, g
    <2>5. f < g /\ f <= b[1] /\ b[1] < g
        BY <2>4
    <2> QED BY <2>1, <2>5 DEF f, g
<1>5. ASSUME j \in 1..m
      PROVE  /\ outer[j].src.from[1] \in Nat /\ outer[j].src.to[1] \in Nat /\ outer[j].src.to[1] <= mid[1]
             /\ outer[j].src.from[1] < outer[j].src.to[1]
             /\ outer[j].src.from[1] <= b[1] /\ b[1] < outer[j].src.to[1]
    <2>1. /\ outer[j].src.from[1] \in Nat /\ outer[j].src.to[1] \in Nat /\ outer[j].src.to[1] <= mid[1]
          /\ outer[j].src.from[1] < outer[j].src.to[1]
        BY <1>5, OuterParts
    <2>2. j # m + 1
        BY <1>1, <1>5
    <2>3. b = outer[j].src.from \/ (outer[j].src.from[1] < b[1] /\ b[1] < outer[j].src.to[1])
        BY <1>3, <2>2
    <2> QED BY <1>1, <2>1, <2>3
<1>6. i \in 1..n
    <2> SUFFICES ASSUME i \notin 1..n PROVE FALSE
        OBVIOUS
    <2>1. i = n + 1 /\ b = mid
        BY <1>2
    <2>2. j \in 1..m
        BY <1>1, <1>3, <2>1
    <2> QED BY <1>1, <1>5, <2>1, <2>2
<1>7. j \in 1..m
    <2> SUFFICES ASSUME j \notin 1..m PROVE FALSE
        OBVIOUS
    <2>1. b = mid
        BY <1>3
    <2> QED BY <1>1, <1>4, <1>6, <2>1
<1>8. CutInv(inner, outer, i, j, i, j)
    <2>1. i \in i..n /\ j \in j..m
        BY <1>1, <1>6, <1>7
    <2>2. /\ inner[i].dst.from[1] < outer[j].src.to[1] /\ outer[j].src.from[1] < inner[i].dst.to[1]
          /\ inner[i].dst.from[1] # inner[i].dst.to[1]
        <3>1. /\ inner[i].dst.from[1] \in Nat /\ inner[i].dst.to[1] \in Nat
              /\ inner[i].dst.from[1] <= b[1] /\ b[1] < inner[i].dst.to[1]
              /\ inner[i].dst.from[1] < inner[i].dst.to[1]
            BY <1>4, <1>6
        <3>2. /\ outer[j].src.from[1] \in Nat /\ outer[j].src.to[1] \in Nat
              /\ outer[j].src.from[1] <= b[1] /\ b[1] < outer[j].src.to[1]
            BY <1>5, <1>7
        <3>3. inner[i].dst.from[1] < outer[j].src.to[1]
            BY <1>1, <3>1, <3>2, Order
        <3>4. outer[j].src.from[1] < inner[i].dst.to[1]
            BY <1>1, <3>1, <3>2, Order
        <3> QED BY <3>1, <3>3, <3>4
    <2> QED BY <2>1, <2>2 DEF CutInv
<1> QED BY <1>4, <1>5, <1>6, <1>7, <1>8

(* The segments up to a cut are a group on both sides.                     *)
LEMMA CutGroups ==
    ASSUME NEW inner, NEW outer, NEW P, NEW Q, Joint(inner, outer, P, Q),
           NEW i, NEW j, NEW b, NEW mp, Place(inner, outer, P, Q, i, j, b, mp),
           i \in 1..Len(inner), j \in 1..Len(outer),
           b[1] < inner[i].dst.to[1], b[1] < outer[j].src.to[1],
           NEW x \in i..Len(inner), NEW y \in j..Len(outer),
           CutInv(inner, outer, i, j, x, y), MayCut(inner, outer, <<x, y>>),
           NEW at, at = CutAt(inner, outer, <<x, y>>)
    PROVE  /\ at \in P
           /\ Group(BackView(inner), Len(inner), P, DstEnd(inner), i, b, x, at)
           /\ Group(ForeView(outer), Len(outer), P, DstEnd(inner), j, b, y, at)
           /\ inner[x].dst.to[1] <= at[1] \/ outer[y].src.to[1] <= at[1]
<1> DEFINE n == Len(inner)
           m == Len(outer)
           ei == inner[x].dst.to
           ej == outer[y].src.to
<1>1. /\ P \in SUBSET (Nat \X Nat) /\ n \in Nat /\ m \in Nat /\ b \in P /\ b[1] \in Nat
      /\ x \in 1..n /\ y \in 1..m /\ i <= x /\ j <= y
    <2>1. P \in SUBSET (Nat \X Nat) /\ n \in Nat /\ m \in Nat
        BY JointSides
    <2>2. b \in P
        BY DEF Place
    <2> HIDE DEF ei, ej
    <2> QED BY <2>1, <2>2
<1>2. /\ ei \in P /\ ej \in P /\ ei[1] \in Nat /\ ej[1] \in Nat
      /\ inner[x].dst.from[1] \in Nat /\ outer[y].src.from[1] \in Nat
      /\ inner[x].dst.from[1] <= ei[1] /\ outer[y].src.from[1] < ej[1]
      /\ inner[i].dst.to[1] \in Nat /\ outer[j].src.to[1] \in Nat
    BY <1>1, InnerParts, OuterParts
<1>3. at = IF ei[1] <= ej[1] THEN ei ELSE ej
    BY DEF CutAt, InnerEnd, OuterEnd, Byte
<1>4. /\ at \in P /\ at[1] \in Nat /\ at[1] <= ei[1] /\ at[1] <= ej[1]
      /\ at[1] = ei[1] \/ at[1] = ej[1]
    <2> HIDE DEF ei, ej
    <2> QED BY <1>2, <1>3
<1>5. /\ ei[1] = ej[1] \/ (ei[1] < ej[1] /\ IsIdentity(outer[y])) \/ (ei[1] > ej[1] /\ IsIdentity(inner[x]))
    BY DEF MayCut, InnerEnd, OuterEnd, Byte
<1>6. /\ inner[x].dst.from[1] < ej[1] /\ outer[y].src.from[1] < ei[1]
      /\ inner[x].dst.from[1] = ei[1] => ei[1] < ej[1] /\ ~IsIdentity(outer[y])
    BY DEF CutInv
<1>7. inner[x].dst.from[1] < ei[1]
    <2>1. inner[x].dst.from[1] # ei[1]
        <3> DEFINE p == ei[1]
                   q == ej[1]
                   same == IsIdentity(outer[y])
        <3>1. (p = q \/ (p < q /\ same) \/ p > q) /\ (inner[x].dst.from[1] = p => p < q /\ ~same)
            BY <1>5, <1>6
        <3>2. p \in Nat /\ q \in Nat /\ inner[x].dst.from[1] \in Nat
            BY <1>2
        <3> HIDE DEF p, q, same
        <3>3. inner[x].dst.from[1] # p
            BY <3>1, <3>2
        <3> QED BY <3>3 DEF p
    <2>2. \A a, c \in Nat : a <= c /\ a # c => a < c
        OBVIOUS
    <2> QED BY <1>2, <2>1, <2>2
<1>8. b[1] < ei[1]
    <2>1. CASE i = x
        BY <2>1
    <2>2. CASE i # x
        <3>1. i \in DOMAIN inner /\ x \in DOMAIN inner /\ i < x
            <4>1. DOMAIN inner = 1..Len(inner)
                BY JointSides
            <4> HIDE DEF ei, ej
            <4> QED BY <1>1, <2>2, <4>1
        <3>2. Table(inner, Nat \X Nat, P) /\ Nat \X Nat \in SUBSET (Nat \X Nat)
            BY DEF Joint
        <3>3. Le(inner[i].dst.to, inner[x].dst.from)
            BY <1>1, <3>1, <3>2, Chain
        <3>4. inner[i].dst.to[1] <= inner[x].dst.from[1]
            BY <3>3 DEF Le
        <3>5. b[1] < inner[x].dst.from[1]
            BY <1>1, <1>2, <3>4, Order
        <3> QED BY <1>1, <1>2, <1>7, <3>5, Order
    <2> QED BY <2>1, <2>2
<1>9. b[1] < ej[1]
    <2>1. CASE j = y
        BY <2>1
    <2>2. CASE j # y
        <3>1. j \in DOMAIN outer /\ y \in DOMAIN outer /\ j < y
            <4>1. DOMAIN outer = 1..Len(outer)
                BY JointSides
            <4> HIDE DEF ei, ej
            <4> QED BY <1>1, <2>2, <4>1
        <3>2. Table(outer, P, Q) /\ Q \in SUBSET (Nat \X Nat)
            BY DEF Joint
        <3>3. Le(outer[j].src.to, outer[y].src.from)
            BY <1>1, <3>1, <3>2, Chain
        <3>4. outer[j].src.to[1] <= outer[y].src.from[1]
            BY <3>3 DEF Le
        <3>5. b[1] < outer[y].src.from[1]
            BY <1>1, <1>2, <3>4, Order
        <3> QED BY <1>1, <1>2, <3>5, Order
    <2> QED BY <2>1, <2>2
<1>10. /\ b[1] < at[1] /\ inner[x].dst.from[1] < at[1] /\ outer[y].src.from[1] < at[1]
    <2> HIDE DEF ei, ej
    <2> QED BY <1>2, <1>4, <1>6, <1>7, <1>8, <1>9
<1>11. /\ at[1] < ei[1] => IsIdentity(inner[x])
       /\ at[1] < ej[1] => IsIdentity(outer[y])
    <2> HIDE DEF ei, ej
    <2> QED BY <1>2, <1>4, <1>5
<1>12. Group(BackView(inner), n, P, DstEnd(inner), i, b, x, at)
    <2>1. /\ BackView(inner)[x].here = inner[x].dst /\ BackView(inner)[x].same = IsIdentity(inner[x])
          /\ BackView(inner)[i].here = inner[i].dst
        BY <1>1, Rails
    <2> QED BY <1>1, <1>4, <1>10, <1>11, <2>1 DEF Group, Place
<1>13. Group(ForeView(outer), m, P, DstEnd(inner), j, b, y, at)
    <2>1. /\ ForeView(outer)[y].here = outer[y].src /\ ForeView(outer)[y].same = IsIdentity(outer[y])
          /\ ForeView(outer)[j].here = outer[j].src
        BY <1>1, Rails
    <2> QED BY <1>1, <1>4, <1>10, <1>11, <2>1 DEF Group, Place
<1>14. ei[1] <= at[1] \/ ej[1] <= at[1]
    BY <1>2, <1>4
<1> QED BY <1>4, <1>12, <1>13, <1>14

(* classify names a segment by its two sides.                              *)
LEMMA ClassifyRules ==
    ASSUME NEW src, NEW dst, src.from \in Nat \X Nat, src.to \in Nat \X Nat,
           dst.from \in Nat \X Nat, dst.to \in Nat \X Nat
    PROVE  /\ Classify(src, dst) \in Kinds /\ Classify(src, dst) # "identity"
           /\ Classify(src, dst) = "delete" => dst.from[1] >= dst.to[1]
           /\ Classify(src, dst) = "expand" => dst.to[2] - dst.from[2] > src.to[2] - src.from[2]
           /\ Classify(src, dst) = "replace" => dst.from[1] < dst.to[1]
<1>1. dst.from[1] \in Nat /\ dst.to[1] \in Nat
    OBVIOUS
<1>2. ~(dst.from[1] >= dst.to[1]) => dst.from[1] < dst.to[1]
    BY <1>1
<1>3. Classify(src, dst) = IF dst.from[1] >= dst.to[1] THEN "delete"
                           ELSE IF dst.to[2] - dst.from[2] > src.to[2] - src.from[2] THEN "expand" ELSE "replace"
    BY DEF Classify, IsEmpty, Byte, CharLen
<1> QED BY <1>2, <1>3 DEF Kinds

(* The point of the result that a group of outer ends at.                  *)
LEMMA GroupTarget ==
    ASSUME NEW inner, NEW outer, NEW P, NEW Q, Joint(inner, outer, P, Q),
           NEW j, NEW b, NEW y, NEW at,
           Group(ForeView(outer), Len(outer), P, DstEnd(inner), j, b, y, at)
    PROVE  Value(ForeView(outer), Len(outer), DstEnd(outer), y, at) \in Q
<1> DEFINE u == ForeView(outer)
           m == Len(outer)
<1>1. /\ P \in SUBSET (Nat \X Nat) /\ Ruler(P) /\ Q \in SUBSET (Nat \X Nat) /\ m \in Nat /\ DOMAIN outer = 1..m
      /\ Table(outer, P, Q) /\ Carries(outer, P, Q)
    BY JointSides DEF Joint
<1>2. j \in 1..m /\ y \in 1..m /\ at \in P /\ u[y].here.from[1] < at[1] /\ at[1] <= u[y].here.to[1]
      /\ (at[1] < u[y].here.to[1] => u[y].same)
    BY <1>1 DEF Group
<1>3. Rail(u, m, P, DstEnd(inner), DstEnd(outer))
    BY Rails
<1>4. /\ Slope(u[y].here, u[y].there, u[y].same, P)
      /\ Value(u, m, DstEnd(outer), y, at) = Across(u[y].here, u[y].there, u[y].same, at)
      /\ at[1] = u[y].here.to[1] => at = u[y].here.to
    BY <1>1, <1>3, GroupCut
<1>5. u[y].here = outer[y].src /\ u[y].there = outer[y].dst /\ u[y].same = IsIdentity(outer[y])
    BY <1>2, Rails
<1>6. u[y].here.from \in Nat \X Nat /\ u[y].here.to \in Nat \X Nat /\ at \in Nat \X Nat
      /\ u[y].here.from[1] < u[y].here.to[1] /\ u[y].here.from[1] \in Nat /\ u[y].here.to[1] \in Nat /\ at[1] \in Nat
    BY <1>1, <1>2, <1>4 DEF Slope
<1>7. CASE at[1] = u[y].here.to[1]
    <2>1. Across(u[y].here, u[y].there, u[y].same, u[y].here.to) = u[y].there.to
        <3>1. u[y].here.from[1] # u[y].here.to[1]
            BY <1>6
        <3> HIDE DEF u
        <3> QED BY <3>1, AcrossTo
    <2>2. outer[y].dst.to \in Q
        BY <1>1, <1>2 DEF Table, Sound
    <2> QED BY <1>4, <1>5, <1>7, <2>1, <2>2
<1>8. CASE at[1] # u[y].here.to[1]
    <2>1. u[y].same /\ u[y].same \in BOOLEAN
        BY <1>2, <1>4, <1>6, <1>8 DEF Slope
    <2>2. u[y].same = TRUE
        BY <2>1
    <2>3. u[y].here.from[1] <= at[1]
        BY <1>2, <1>6
    <2>4. Across(u[y].here, u[y].there, TRUE, at) = Shift(at, u[y].here.from, u[y].there.from)
        <3>1. Slope(u[y].here, u[y].there, TRUE, P)
            BY <1>4, <2>2
        <3> HIDE DEF u
        <3> QED BY <1>1, <1>2, <2>3, <3>1, AcrossShift
    <2>5. Shift(at, outer[y].src.from, outer[y].dst.from) \in Q
        BY <1>1, <1>2, <1>5, <2>1, <2>3 DEF Carries
    <2> QED BY <1>4, <1>5, <2>2, <2>4, <2>5
<1> QED BY <1>7, <1>8

(* What compose makes of a group.                                          *)
LEMMA GroupedSound ==
    ASSUME NEW inner, NEW outer, NEW P, NEW Q, Joint(inner, outer, P, Q),
           NEW i, NEW j, NEW b, NEW mp, Place(inner, outer, P, Q, i, j, b, mp),
           i \in 1..Len(inner), j \in 1..Len(outer),
           NEW x \in i..Len(inner), NEW y \in j..Len(outer), CutInv(inner, outer, i, j, x, y),
           NEW at, at = CutAt(inner, outer, <<x, y>>),
           Group(BackView(inner), Len(inner), P, DstEnd(inner), i, b, x, at),
           Group(ForeView(outer), Len(outer), P, DstEnd(inner), j, b, y, at),
           NEW seg, seg = Grouped(inner, outer, i, j, b, <<x, y>>)
    PROVE  /\ Sound(seg, Nat \X Nat, Q) /\ seg.src.from = SrcEnd(mp) /\ seg.dst.from = DstEnd(mp)
           /\ seg.src.to = BackwardPoint(inner, x, at) /\ seg.dst.to = ForwardPoint(outer, y, at)
           /\ Nowhere \notin Ends(seg)
<1> DEFINE n == Len(inner)
           m == Len(outer)
           v == BackView(inner)
           u == ForeView(outer)
           s == BackwardPoint(inner, i, b)
           t == BackwardPoint(inner, x, at)
           f == ForwardPoint(outer, j, b)
           g == ForwardPoint(outer, y, at)
           I == {k \in i..x : ~IsIdentity(inner[k])}
           J == {k \in j..y : ~IsIdentity(outer[k])}
           same == I = {} /\ J = {}
<1>1. /\ P \in SUBSET (Nat \X Nat) /\ Ruler(P) /\ Q \in SUBSET (Nat \X Nat) /\ n \in Nat /\ m \in Nat
      /\ x \in 1..n /\ y \in 1..m /\ i <= x /\ j <= y /\ Origin \in Q
    BY JointSides DEF Joint
<1>2. /\ Rail(v, n, P, DstEnd(inner), SrcEnd(inner)) /\ Rail(u, m, P, DstEnd(inner), DstEnd(outer))
      /\ v[i].there.from[1] < v[i].there.to[1]
      /\ v[i].same = IsIdentity(inner[i]) /\ u[j].same = IsIdentity(outer[j])
    BY Rails
<1>3. /\ s = Value(v, n, SrcEnd(inner), i, b) /\ t = Value(v, n, SrcEnd(inner), x, at)
      /\ f = Value(u, m, DstEnd(outer), j, b) /\ g = Value(u, m, DstEnd(outer), y, at)
    <2>1. i \in 1..n + 1 /\ x \in 1..n + 1 /\ j \in 1..m + 1 /\ y \in 1..m + 1
        BY <1>1
    <2> QED BY <2>1, Rails
<1>4. /\ s \in Nat \X Nat /\ t \in Nat \X Nat /\ Le(s, t) /\ s[1] < t[1]
      /\ (i = x /\ v[i].same => SameLength([from |-> s, to |-> t], [from |-> b, to |-> at]))
    <2> DEFINE s_ == Value(v, n, SrcEnd(inner), i, b)
               t_ == Value(v, n, SrcEnd(inner), x, at)
    <2>1. /\ s_ \in Nat \X Nat /\ t_ \in Nat \X Nat /\ Le(s_, t_)
          /\ v[i].there.from[1] < v[i].there.to[1] => s_[1] < t_[1]
          /\ i = x /\ v[i].same => SameLength([from |-> s_, to |-> t_], [from |-> b, to |-> at])
        BY <1>1, <1>2, GroupRises
    <2> HIDE DEF v, n, s_, t_, s, t
    <2>2. s = s_ /\ t = t_
        BY <1>3 DEF s_, t_
    <2> QED BY <1>2, <2>1, <2>2
<1>5. /\ f \in Nat \X Nat /\ g \in Nat \X Nat /\ Le(f, g)
      /\ (j = y /\ u[j].same => SameLength([from |-> f, to |-> g], [from |-> b, to |-> at]))
    <2> DEFINE f_ == Value(u, m, DstEnd(outer), j, b)
               g_ == Value(u, m, DstEnd(outer), y, at)
    <2>1. /\ f_ \in Nat \X Nat /\ g_ \in Nat \X Nat /\ Le(f_, g_)
          /\ j = y /\ u[j].same => SameLength([from |-> f_, to |-> g_], [from |-> b, to |-> at])
        BY <1>1, <1>2, GroupRises
    <2> HIDE DEF u, m, f_, g_, f, g
    <2>2. f = f_ /\ g = g_
        BY <1>3 DEF f_, g_
    <2> QED BY <2>1, <2>2
<1>6. g \in Q
    BY <1>3, GroupTarget
<1>7. s = SrcEnd(mp) /\ f = DstEnd(mp) /\ f \in Q
    <2>1. s = SrcEnd(mp) /\ f = DstEnd(mp) /\ Table(mp, Nat \X Nat, Q)
        BY DEF Place
    <2>2. Origin \in Nat \X Nat
        BY DEF Origin
    <2> QED BY <1>1, <2>1, <2>2, EndsIn
<1>8. seg = Segment(Span(s, t), Span(f, g), IF same THEN "identity" ELSE Classify(Span(s, t), Span(f, g)),
                    Rules(inner, I) \cup Rules(outer, J), Cost(inner, I) + Cost(outer, J))
    <2>1. <<x, y>>[1] = x /\ <<x, y>>[2] = y
        OBVIOUS
    <2> DEFINE cut == <<x, y>>
    <2>2. cut[1] = x /\ cut[2] = y /\ CutAt(inner, outer, cut) = at
        BY <2>1
    <2> HIDE DEF cut
    <2>3. Grouped(inner, outer, i, j, b, cut) =
            LET at_ == CutAt(inner, outer, cut)
                src == Span(BackwardPoint(inner, i, b), BackwardPoint(inner, cut[1], at_))
                dst == Span(ForwardPoint(outer, j, b), ForwardPoint(outer, cut[2], at_))
                I_ == {k \in i..cut[1] : ~IsIdentity(inner[k])}
                J_ == {k \in j..cut[2] : ~IsIdentity(outer[k])}
            IN  Segment(src, dst, IF I_ = {} /\ J_ = {} THEN "identity" ELSE Classify(src, dst),
                        Rules(inner, I_) \cup Rules(outer, J_), Cost(inner, I_) + Cost(outer, J_))
        BY Zenon DEF Grouped
    <2>4. seg = Grouped(inner, outer, i, j, b, cut)
        BY DEF cut
    <2> QED BY <2>2, <2>3, <2>4
<1> DEFINE src == Span(s, t)
           dst == Span(f, g)
<1>9. src.from = s /\ src.to = t /\ dst.from = f /\ dst.to = g
    BY DEF Span
<1> HIDE DEF s, t, f, g, src, dst
<1>10. /\ seg.src = src /\ seg.dst = dst /\ seg.kind = (IF same THEN "identity" ELSE Classify(src, dst))
       /\ seg.rules = Rules(inner, I) \cup Rules(outer, J) /\ seg.cost = Cost(inner, I) + Cost(outer, J)
    <2> HIDE DEF I, J, same
    <2> QED BY <1>8 DEF Segment, src, dst
<1>11. ASSUME same
       PROVE  SameLength(src, dst) /\ seg.rules = {} /\ seg.cost = 0
    <2>1. I = {} /\ J = {}
        BY <1>11
    <2>2. seg.rules = {}
        BY <1>10, <2>1 DEF Rules
    <2>3. seg.cost = 0
        <3>1. Cost(inner, {}) = 0 /\ Cost(outer, {}) = 0
            BY EmptyCost
        <3>2. seg.cost = Cost(inner, {}) + Cost(outer, {})
            BY <1>10, <2>1
        <3> QED BY <3>1, <3>2
    <2>4. (\A k \in i..x : IsIdentity(inner[k])) /\ (\A k \in j..y : IsIdentity(outer[k]))
        BY <2>1
    <2>5. x = i /\ y = j
        BY <2>4 DEF CutInv
    <2>6. v[i].same /\ u[j].same
        BY <1>1, <1>2, <2>4
    <2>7. /\ SameLength([from |-> s, to |-> t], [from |-> b, to |-> at])
          /\ SameLength([from |-> f, to |-> g], [from |-> b, to |-> at])
        BY <1>4, <1>5, <2>5, <2>6
    <2>8. SameLength(src, dst)
        <3>1. t[1] - s[1] = at[1] - b[1] /\ t[2] - s[2] = at[2] - b[2]
            BY <2>7 DEF SameLength
        <3>2. g[1] - f[1] = at[1] - b[1] /\ g[2] - f[2] = at[2] - b[2]
            BY <2>7 DEF SameLength
        <3> QED BY <1>9, <3>1, <3>2 DEF SameLength
    <2> QED BY <2>2, <2>3, <2>8
<1>12. /\ Classify(src, dst) \in Kinds /\ Classify(src, dst) # "identity"
       /\ Classify(src, dst) = "delete" => dst.from[1] >= dst.to[1]
       /\ Classify(src, dst) = "expand" => dst.to[2] - dst.from[2] > src.to[2] - src.from[2]
       /\ Classify(src, dst) = "replace" => dst.from[1] < dst.to[1]
    BY <1>4, <1>5, <1>9, ClassifyRules
<1>13. Sound(seg, Nat \X Nat, Q)
    <2> HIDE DEF I, J, same
    <2>1. CASE same
        BY <1>4, <1>5, <1>6, <1>7, <1>9, <1>10, <1>11, <2>1 DEF Sound, Kinds
    <2>2. CASE ~same
        BY <1>4, <1>5, <1>6, <1>7, <1>9, <1>10, <1>12, <2>2 DEF Sound
    <2> QED BY <2>1, <2>2
<1>14. Nowhere \notin Ends(seg)
    <2>1. Ends(seg) = {s, t, f, g}
        BY <1>9, <1>10 DEF Ends
    <2>2. Nowhere \notin Nat \X Nat
        BY DEF Nowhere
    <2> QED BY <1>4, <1>5, <2>1, <2>2
<1> QED BY <1>7, <1>9, <1>10, <1>13, <1>14 DEF t, g

(* compose passes a group of segments.                                     *)
LEMMA GroupStep ==
    ASSUME NEW inner, NEW outer, NEW P, NEW Q, Joint(inner, outer, P, Q),
           NEW i, NEW j, NEW b, NEW mp, Place(inner, outer, P, Q, i, j, b, mp),
           ~(i > Len(inner) /\ j > Len(outer)),
           ~(i <= Len(inner) /\ IsEmpty(inner[i].dst))
    PROVE  \E i2, j2, b2, mp2 :
              /\ PassGroup(inner, outer, Standing(i, j, b, mp)) = Standing(i2, j2, b2, mp2)
              /\ Place(inner, outer, P, Q, i2, j2, b2, mp2) /\ i2 + j2 >= i + j + 1
<1> DEFINE n == Len(inner)
           m == Len(outer)
           v == BackView(inner)
           u == ForeView(outer)
<1>1. /\ n \in Nat /\ m \in Nat /\ P \in SUBSET (Nat \X Nat) /\ Q \in SUBSET (Nat \X Nat) /\ Ruler(P)
      /\ Nat \X Nat \in SUBSET (Nat \X Nat)
    BY JointSides DEF Joint
<1>2. /\ i \in 1..n /\ j \in 1..m /\ b[1] < inner[i].dst.to[1] /\ b[1] < outer[j].src.to[1]
      /\ CutInv(inner, outer, i, j, i, j)
    BY GoesOn
<1>3. PICK x \in i..n, y \in j..m :
              /\ NextCut(inner, outer, i, j) = <<x, y>>
              /\ CutInv(inner, outer, i, j, x, y) /\ MayCut(inner, outer, <<x, y>>)
    BY <1>2, CutFound
<1> DEFINE at == CutAt(inner, outer, <<x, y>>)
           seg == Grouped(inner, outer, i, j, b, <<x, y>>)
           i2 == IF inner[x].dst.to[1] <= at[1] THEN x + 1 ELSE x
           j2 == IF outer[y].src.to[1] <= at[1] THEN y + 1 ELSE y
           mp2 == AppendSegment(mp, seg)
<1>4. /\ at \in P
      /\ Group(v, n, P, DstEnd(inner), i, b, x, at)
      /\ Group(u, m, P, DstEnd(inner), j, b, y, at)
      /\ inner[x].dst.to[1] <= at[1] \/ outer[y].src.to[1] <= at[1]
    BY <1>2, <1>3, CutGroups
<1>5. /\ Sound(seg, Nat \X Nat, Q) /\ seg.src.from = SrcEnd(mp) /\ seg.dst.from = DstEnd(mp)
      /\ seg.src.to = BackwardPoint(inner, x, at) /\ seg.dst.to = ForwardPoint(outer, y, at)
      /\ Nowhere \notin Ends(seg)
    <2>1. at = CutAt(inner, outer, <<x, y>>) /\ seg = Grouped(inner, outer, i, j, b, <<x, y>>)
        OBVIOUS
    <2> HIDE DEF at, seg, i2, j2, mp2
    <2> QED BY <1>2, <1>3, <1>4, <2>1, GroupedSound, SMTT(30)
<1> HIDE DEF at, seg, i2, j2, mp2
<1>6. /\ x \in 1..n /\ y \in 1..m /\ x >= i /\ y >= j
      /\ i2 \in 1..n + 1 /\ j2 \in 1..m + 1 /\ i2 + j2 >= i + j + 1
    <2>1. x \in 1..n /\ y \in 1..m /\ x >= i /\ y >= j /\ i \in Nat /\ j \in Nat
        BY <1>1, <1>2, <1>3
    <2>2. i2 \in {x, x + 1} /\ j2 \in {y, y + 1} /\ (i2 = x + 1 \/ j2 = y + 1)
        BY <1>4 DEF i2, j2
    <2> QED BY <1>1, <2>1, <2>2
<1>7. /\ v[x].here = inner[x].dst /\ u[y].here = outer[y].src
      /\ Rail(v, n, P, DstEnd(inner), SrcEnd(inner)) /\ Rail(u, m, P, DstEnd(inner), DstEnd(outer))
    <2> HIDE DEF v, u, n, m
    <2>1. /\ Rail(v, n, P, DstEnd(inner), SrcEnd(inner)) /\ Rail(u, m, P, DstEnd(inner), DstEnd(outer))
          /\ \A k \in 1..n : v[k].here = inner[k].dst
          /\ \A k \in 1..m : u[k].here = outer[k].src
        BY Rails DEF v, u, n, m
    <2> QED BY <1>6, <2>1
<1>8. Standpoint(v, n, DstEnd(inner), i2, at) /\ BackwardPoint(inner, i2, at) = BackwardPoint(inner, x, at)
    <2>1. i2 = IF v[x].here.to[1] <= at[1] THEN x + 1 ELSE x
        BY <1>7 DEF i2
    <2>2. /\ Standpoint(v, n, DstEnd(inner), i2, at)
          /\ Value(v, n, SrcEnd(inner), i2, at) = Value(v, n, SrcEnd(inner), x, at)
        BY <1>1, <1>4, <1>7, <2>1, GroupEnds
    <2>3. x \in 1..n + 1
        BY <1>1, <1>6
    <2>4. /\ BackwardPoint(inner, i2, at) = Value(v, n, SrcEnd(inner), i2, at)
          /\ BackwardPoint(inner, x, at) = Value(v, n, SrcEnd(inner), x, at)
        BY <1>6, <2>3, Rails
    <2> QED BY <2>2, <2>4
<1>9. Standpoint(u, m, DstEnd(inner), j2, at) /\ ForwardPoint(outer, j2, at) = ForwardPoint(outer, y, at)
    <2>1. j2 = IF u[y].here.to[1] <= at[1] THEN y + 1 ELSE y
        BY <1>7 DEF j2
    <2>2. /\ Standpoint(u, m, DstEnd(inner), j2, at)
          /\ Value(u, m, DstEnd(outer), j2, at) = Value(u, m, DstEnd(outer), y, at)
        BY <1>1, <1>4, <1>7, <2>1, GroupEnds
    <2>3. y \in 1..m + 1
        BY <1>1, <1>6
    <2>4. /\ ForwardPoint(outer, j2, at) = Value(u, m, DstEnd(outer), j2, at)
          /\ ForwardPoint(outer, y, at) = Value(u, m, DstEnd(outer), y, at)
        BY <1>6, <2>3, Rails
    <2> QED BY <2>2, <2>4
<1>10. Table(mp2, Nat \X Nat, Q) /\ SrcEnd(mp2) = seg.src.to /\ DstEnd(mp2) = seg.dst.to
    <2>1. Table(mp, Nat \X Nat, Q)
        BY DEF Place
    <2>2. /\ Table(AppendSegment(mp, seg), Nat \X Nat, Q)
          /\ SrcEnd(AppendSegment(mp, seg)) = seg.src.to /\ DstEnd(AppendSegment(mp, seg)) = seg.dst.to
        <3> DEFINE A == Nat \X Nat
        <3>1. /\ A \in SUBSET (Nat \X Nat) /\ Q \in SUBSET (Nat \X Nat) /\ Table(mp, A, Q) /\ Sound(seg, A, Q)
              /\ seg.src.from = SrcEnd(mp) /\ seg.dst.from = DstEnd(mp)
            BY <1>1, <1>5, <2>1
        <3> HIDE DEF A
        <3>2. /\ Table(AppendSegment(mp, seg), A, Q)
              /\ SrcEnd(AppendSegment(mp, seg)) = seg.src.to /\ DstEnd(AppendSegment(mp, seg)) = seg.dst.to
            BY <3>1, AppendSegmentTile, ZenonT(30)
        <3> QED BY <3>2 DEF A
    <2> QED BY <2>2 DEF mp2
<1>11. Place(inner, outer, P, Q, i2, j2, at, mp2)
    BY <1>4, <1>5, <1>8, <1>9, <1>10 DEF Place
<1>12. PassGroup(inner, outer, Standing(i, j, b, mp)) = Standing(i2, j2, at, mp2)
    <2> DEFINE w == Standing(i, j, b, mp)
               cut == <<x, y>>
    <2>1. w.i = i /\ w.j = j /\ w.b = b /\ w.map = mp
        BY DEF Standing
    <2>2. cut[1] = x /\ cut[2] = y /\ <<w.i, w.j>>[1] = i /\ <<w.i, w.j>>[2] = j
        BY <2>1
    <2>3. NextCut(inner, outer, w.i, w.j) = cut /\ CutAt(inner, outer, cut) = at
          /\ Grouped(inner, outer, w.i, w.j, w.b, cut) = seg
        BY <1>3, <2>1 DEF at, seg
    <2> HIDE DEF w, cut
    <2>4. ~Exhausted(inner, outer, <<w.i, w.j>>) /\ ~Exhausted(inner, outer, cut)
        BY <1>1, <1>2, <1>6, <2>2 DEF Exhausted
    <2>5. ~IsEmpty(outer[w.j].src)
        <3>1. outer[j].src.from[1] \in Nat /\ outer[j].src.to[1] \in Nat /\ outer[j].src.from[1] < outer[j].src.to[1]
            BY <1>2, OuterParts
        <3> QED BY <2>1, <3>1 DEF IsEmpty, Byte
    <2>6. InnerEnd(inner, cut) = inner[x].dst.to /\ OuterEnd(outer, cut) = outer[y].src.to
        BY <2>2 DEF InnerEnd, OuterEnd
    <2>7. /\ (IF Byte(InnerEnd(inner, cut)) <= Byte(at) THEN cut[1] + 1 ELSE cut[1]) = i2
          /\ (IF Byte(OuterEnd(outer, cut)) <= Byte(at) THEN cut[2] + 1 ELSE cut[2]) = j2
        BY <2>2, <2>6 DEF i2, j2, Byte
    <2>8. PassGroup(inner, outer, w) =
            LET cut_ == NextCut(inner, outer, w.i, w.j)
                at_ == CutAt(inner, outer, cut_)
                seg_ == Grouped(inner, outer, w.i, w.j, w.b, cut_)
            IN  IF \/ Exhausted(inner, outer, <<w.i, w.j>>)
                   \/ IsEmpty(outer[w.j].src) \/ Exhausted(inner, outer, cut_) \/ Nowhere \in Ends(seg_)
                THEN Mismatch
                ELSE Standing(IF Byte(InnerEnd(inner, cut_)) <= Byte(at_) THEN cut_[1] + 1 ELSE cut_[1],
                              IF Byte(OuterEnd(outer, cut_)) <= Byte(at_) THEN cut_[2] + 1 ELSE cut_[2],
                              at_, AppendSegment(w.map, seg_))
        BY Zenon DEF PassGroup
    <2>9. PassGroup(inner, outer, w) = Standing(i2, j2, at, AppendSegment(mp, seg))
        BY <1>5, <2>1, <2>3, <2>4, <2>5, <2>7, <2>8
    <2> QED BY <2>9 DEF w, mp2
<1> QED BY <1>6, <1>11, <1>12

(* Every turn of compose keeps its place and, until both tables are used   *)
(* up, uses up a segment.                                                  *)
LEMMA WalkStep ==
    ASSUME NEW inner, NEW outer, NEW P, NEW Q, Joint(inner, outer, P, Q),
           NEW i, NEW j, NEW b, NEW mp, Place(inner, outer, P, Q, i, j, b, mp)
    PROVE  \E i2, j2, b2, mp2 :
              /\ Walk(inner, outer, Standing(i, j, b, mp)) = Standing(i2, j2, b2, mp2)
              /\ Place(inner, outer, P, Q, i2, j2, b2, mp2)
              /\ \/ i2 + j2 >= i + j + 1
                 \/ i2 = i /\ j2 = j /\ i > Len(inner) /\ j > Len(outer)
<1> DEFINE w == Standing(i, j, b, mp)
<1>1. w.ok = TRUE /\ w.i = i /\ w.j = j
    BY DEF Standing
<1>2. i \in Nat /\ j \in Nat /\ i \in 1..Len(inner) + 1 /\ j \in 1..Len(outer) + 1
      /\ Len(inner) \in Nat /\ Len(outer) \in Nat
    <2>1. Len(inner) \in Nat /\ Len(outer) \in Nat
        BY JointSides
    <2>2. (i = Len(inner) + 1 \/ i \in 1..Len(inner)) /\ (j = Len(outer) + 1 \/ j \in 1..Len(outer))
        BY DEF Place, Standpoint
    <2> QED BY <2>1, <2>2
<1>3. Walk(inner, outer, w) = IF i > Len(inner) /\ j > Len(outer) THEN w
                              ELSE IF i <= Len(inner) /\ IsEmpty(inner[i].dst) THEN PassDeleted(inner, outer, w)
                              ELSE PassGroup(inner, outer, w)
    <2> HIDE DEF w
    <2> QED BY <1>1 DEF Walk
<1>4. CASE i > Len(inner) /\ j > Len(outer)
    <2>1. Walk(inner, outer, w) = w
        BY <1>3, <1>4
    <2> QED BY <1>4, <2>1
<1>5. CASE ~(i > Len(inner) /\ j > Len(outer)) /\ i <= Len(inner) /\ IsEmpty(inner[i].dst)
    <2>1. Walk(inner, outer, w) = PassDeleted(inner, outer, w)
        BY <1>3, <1>5
    <2>2. i \in 1..Len(inner) /\ (i + 1) + j >= i + j + 1
        BY <1>2, <1>5
    <2>3. PICK mp2 : PassDeleted(inner, outer, w) = Standing(i + 1, j, b, mp2) /\ Place(inner, outer, P, Q, i + 1, j, b, mp2)
        BY <1>5, <2>2, DeletedStep
    <2> QED BY <2>1, <2>2, <2>3
<1>6. CASE ~(i > Len(inner) /\ j > Len(outer)) /\ ~(i <= Len(inner) /\ IsEmpty(inner[i].dst))
    <2>1. Walk(inner, outer, w) = PassGroup(inner, outer, w)
        BY <1>3, <1>6
    <2>2. PICK i2, j2, b2, mp2 :
              /\ PassGroup(inner, outer, w) = Standing(i2, j2, b2, mp2)
              /\ Place(inner, outer, P, Q, i2, j2, b2, mp2) /\ i2 + j2 >= i + j + 1
        BY <1>6, GroupStep
    <2> QED BY <2>1, <2>2
<1> QED BY <1>4, <1>5, <1>6

(* The loop of compose.                                                    *)
WalkRun(V, inner, outer) ==
    /\ V[0] = Standing(1, 1, Origin, <<>>)
    /\ \A k \in 1..(Len(inner) + Len(outer)) : V[k] = Walk(inner, outer, V[k - 1])
    /\ Compose(inner, outer) = V[(Len(inner) + Len(outer))]

(* compose returns the last value of its loop.                             *)
LEMMA WalkLoop ==
    ASSUME NEW inner, NEW outer, Len(inner) \in Nat, Len(outer) \in Nat, DstEnd(inner) = SrcEnd(outer)
    PROVE  \E V : WalkRun(V, inner, outer)
<1> DEFINE B(x) == Walk(inner, outer, x)
           E(g, m) == [k \in 0..m |-> IF k = 0 THEN Standing(1, 1, Origin, <<>>) ELSE B(g[k - 1])]
           T == {m \in Nat : \E g : g = E(g, m)}
           I == CHOOSE g : g = E(g, (Len(inner) + Len(outer)))
<1>1. (Len(inner) + Len(outer)) \in Nat
    OBVIOUS
<1>2. Compose(inner, outer) = I[(Len(inner) + Len(outer))]
    BY Zenon DEF Compose, Repeat
<1> HIDE DEF B
<1>3. 0 \in T
    <2>1. [k \in 0..0 |-> Standing(1, 1, Origin, <<>>)] = E([k \in 0..0 |-> Standing(1, 1, Origin, <<>>)], 0)
        OBVIOUS
    <2> HIDE DEF E
    <2> QED BY <2>1
<1>4. ASSUME NEW m \in Nat, m \in T PROVE m + 1 \in T
    <2>1. PICK g : g = E(g, m)
        BY <1>4
    <2> DEFINE h == [k \in 0..m + 1 |-> IF k = m + 1 THEN B(g[m]) ELSE g[k]]
    <2>2. \A k \in 0..m : g[k] = IF k = 0 THEN Standing(1, 1, Origin, <<>>) ELSE B(g[k - 1])
        BY <2>1
    <2>3. ASSUME NEW k \in 0..m + 1 PROVE h[k] = IF k = 0 THEN Standing(1, 1, Origin, <<>>) ELSE B(h[k - 1])
        <3>1. CASE k = m + 1
            <4>1. k # 0 /\ k - 1 = m /\ m \in 0..m + 1 /\ m # m + 1
                BY <3>1
            <4>2. h[k] = B(g[m]) /\ h[m] = g[m]
                BY <3>1, <4>1
            <4> HIDE DEF h
            <4> QED BY <4>1, <4>2
        <3>2. CASE k # m + 1
            <4>1. k \in 0..m /\ (k # 0 => k - 1 \in 0..m + 1 /\ k - 1 # m + 1)
                BY <3>2
            <4>2. h[k] = g[k] /\ (k # 0 => h[k - 1] = g[k - 1])
                BY <3>2, <4>1
            <4> HIDE DEF h
            <4> QED BY <2>2, <4>1, <4>2
        <3> QED BY <3>1, <3>2
    <2>4. h = E(h, m + 1)
        <3>1. h = [k \in 0..m + 1 |-> h[k]]
            OBVIOUS
        <3> HIDE DEF h
        <3> QED BY <2>3, <3>1
    <2> HIDE DEF E, h
    <2> QED BY <2>4
<1>5. \A m \in Nat : m \in T
    <2> HIDE DEF T
    <2> QED BY <1>3, <1>4, SetInduction
<1>6. I = E(I, (Len(inner) + Len(outer)))
    <2>1. \E g : g = E(g, (Len(inner) + Len(outer)))
        BY <1>1, <1>5
    <2> HIDE DEF E
    <2> QED BY <2>1, Zenon
<1>7. I[0] = Standing(1, 1, Origin, <<>>) /\ \A k \in 1..(Len(inner) + Len(outer)) : I[k] = B(I[k - 1])
    <2> HIDE DEF I
    <2>1. \A k \in 0..(Len(inner) + Len(outer)) : I[k] = IF k = 0 THEN Standing(1, 1, Origin, <<>>) ELSE B(I[k - 1])
        BY <1>6
    <2>2. 0 \in 0..(Len(inner) + Len(outer)) /\ \A k \in 1..(Len(inner) + Len(outer)) : k \in 0..(Len(inner) + Len(outer)) /\ k # 0
        BY <1>1
    <2> HIDE DEF E
    <2> QED BY <2>1, <2>2
<1> HIDE DEF I
<1>8. WalkRun(I, inner, outer)
    BY <1>2, <1>7, Zenon DEF B, WalkRun
<1> QED BY <1>8

(* compose: it does not fail when outer begins with the text that inner    *)
(* ends with, and makes a table from the source of inner to the result of  *)
(* outer, of sound segments that lie between characters.                   *)
THEOREM ComposeTable ==
    ASSUME NEW inner, NEW outer, NEW P, NEW Q, Joint(inner, outer, P, Q)
    PROVE  /\ Compose(inner, outer).ok = TRUE
           /\ Table(Compose(inner, outer).map, Nat \X Nat, Q)
           /\ SrcEnd(Compose(inner, outer).map) = SrcEnd(inner)
           /\ DstEnd(Compose(inner, outer).map) = DstEnd(outer)
<1> DEFINE n == Len(inner)
           m == Len(outer)
           N == n + m
           Pl(i, j, b, mp) == Place(inner, outer, P, Q, i, j, b, mp)
           W(w) == Walk(inner, outer, w)
           Done(i, j) == i > n /\ j > m
<1>1. /\ n \in Nat /\ m \in Nat /\ DstEnd(inner) = SrcEnd(outer) /\ Origin \in P /\ N \in Nat
      /\ P \in SUBSET (Nat \X Nat) /\ Ruler(P)
    BY JointSides DEF Joint
<1>2. PICK V : /\ V[0] = Standing(1, 1, Origin, <<>>)
               /\ \A k \in 1..N : V[k] = W(V[k - 1])
               /\ Compose(inner, outer) = V[N]
    <2>1. PICK V : WalkRun(V, inner, outer)
        BY <1>1, WalkLoop
    <2> QED BY <2>1 DEF WalkRun
<1>3. ASSUME NEW i, NEW j, NEW b, NEW mp, Pl(i, j, b, mp)
      PROVE  i \in 1..n + 1 /\ j \in 1..m + 1
    BY <1>1, <1>3 DEF Place, Standpoint
<1>4. ASSUME NEW i, NEW j, NEW b, NEW mp, Pl(i, j, b, mp)
      PROVE  \E i2, j2, b2, mp2 :
              /\ W(Standing(i, j, b, mp)) = Standing(i2, j2, b2, mp2)
              /\ Pl(i2, j2, b2, mp2)
              /\ i2 + j2 >= i + j + 1 \/ (i2 = i /\ j2 = j /\ Done(i, j))
    BY <1>4, WalkStep
<1>5. Pl(1, 1, Origin, <<>>)
    <2>1. Standpoint(BackView(inner), n, DstEnd(inner), 1, Origin) /\ BackwardPoint(inner, 1, Origin) = Origin
        <3>1. CASE n = 0
            <4>1. inner = <<>>
                BY <3>1, SeqParts DEF Joint, Table
            <4>2. SrcEnd(inner) = Origin /\ DstEnd(inner) = Origin
                BY <4>1 DEF SrcEnd, DstEnd
            <4> QED BY <3>1, <4>2 DEF Standpoint, BackwardPoint
        <3>2. CASE n # 0
            <4>1. 1 \in 1..n /\ inner # <<>> /\ ~(1 > n)
                BY <1>1, <3>2, SeqParts DEF Joint, Table
            <4>2. inner[1].src.from = Origin /\ inner[1].dst.from = Origin
                BY <4>1, Follows DEF Joint
            <4>3. BackView(inner)[1].here = inner[1].dst
                BY <4>1, Rails
            <4>4. BackwardPoint(inner, 1, Origin) = Across(inner[1].dst, inner[1].src, IsIdentity(inner[1]), Origin)
                BY <4>1, Zenon DEF BackwardPoint
            <4>5. Across(inner[1].dst, inner[1].src, IsIdentity(inner[1]), Origin) = inner[1].src.from
                BY <4>2, AcrossFrom
            <4> QED BY <4>1, <4>2, <4>3, <4>4, <4>5 DEF Standpoint
        <3> QED BY <3>1, <3>2
    <2>2. Standpoint(ForeView(outer), m, DstEnd(inner), 1, Origin) /\ ForwardPoint(outer, 1, Origin) = Origin
        <3>1. CASE m = 0
            <4>1. outer = <<>>
                BY <3>1, SeqParts DEF Joint, Table
            <4>2. SrcEnd(outer) = Origin /\ DstEnd(outer) = Origin
                BY <4>1 DEF SrcEnd, DstEnd
            <4> QED BY <1>1, <3>1, <4>2 DEF Standpoint, ForwardPoint
        <3>2. CASE m # 0
            <4>1. 1 \in 1..m /\ outer # <<>> /\ ~(1 > m)
                BY <1>1, <3>2, SeqParts DEF Joint, Table
            <4>2. outer[1].src.from = Origin /\ outer[1].dst.from = Origin
                BY <4>1, Follows DEF Joint
            <4>3. ForeView(outer)[1].here = outer[1].src
                BY <4>1, Rails
            <4>4. ForwardPoint(outer, 1, Origin) = Across(outer[1].src, outer[1].dst, IsIdentity(outer[1]), Origin)
                BY <4>1, Zenon DEF ForwardPoint
            <4>5. Across(outer[1].src, outer[1].dst, IsIdentity(outer[1]), Origin) = outer[1].dst.from
                BY <4>2, AcrossFrom
            <4> QED BY <4>1, <4>2, <4>3, <4>4, <4>5 DEF Standpoint
        <3> QED BY <3>1, <3>2
    <2>3. Table(<<>>, Nat \X Nat, Q) /\ SrcEnd(<<>>) = Origin /\ DstEnd(<<>>) = Origin
        BY EmptyTable
    <2> QED BY <1>1, <2>1, <2>2, <2>3 DEF Place
<1>6. ASSUME NEW i, NEW j, NEW b, NEW mp, Pl(i, j, b, mp), Done(i, j)
      PROVE  SrcEnd(mp) = SrcEnd(inner) /\ DstEnd(mp) = DstEnd(outer) /\ Table(mp, Nat \X Nat, Q)
    BY <1>6 DEF Place, BackwardPoint, ForwardPoint
<1> DEFINE At_(k) == \E i, j, b, mp : V[k] = Standing(i, j, b, mp) /\ Pl(i, j, b, mp)
                                      /\ (Done(i, j) \/ i + j >= 2 + k)
           T == {k \in Nat : k <= N => At_(k)}
<1> HIDE DEF N, Pl, W, n, m
<1>7. At_(0)
    BY <1>2, <1>5
<1>8. ASSUME NEW k \in Nat, k \in T PROVE k + 1 \in T
    <2> SUFFICES ASSUME k + 1 <= N PROVE At_(k + 1)
        OBVIOUS
    <2>1. k <= N /\ k + 1 \in 1..N /\ (k + 1) - 1 = k
        BY <1>1
    <2>2. PICK i, j, b, mp : V[k] = Standing(i, j, b, mp) /\ Pl(i, j, b, mp) /\ (Done(i, j) \/ i + j >= 2 + k)
        BY <1>8, <2>1
    <2>3. V[k + 1] = W(Standing(i, j, b, mp))
        BY <1>2, <2>1, <2>2
    <2>4. PICK i2, j2, b2, mp2 :
              /\ W(Standing(i, j, b, mp)) = Standing(i2, j2, b2, mp2)
              /\ Pl(i2, j2, b2, mp2)
              /\ i2 + j2 >= i + j + 1 \/ (i2 = i /\ j2 = j /\ Done(i, j))
        BY <1>4, <2>2
    <2>5. i \in Nat /\ j \in Nat /\ i2 \in Nat /\ j2 \in Nat
          /\ i <= n + 1 /\ j <= m + 1 /\ i2 <= n + 1 /\ j2 <= m + 1
        BY <1>1, <1>3, <2>2, <2>4
    <2>6. Done(i2, j2) \/ i2 + j2 >= 2 + (k + 1)
        <3>1. CASE Done(i, j)
            BY <1>1, <2>4, <2>5, <3>1
        <3>2. CASE ~Done(i, j)
            BY <2>2, <2>4, <2>5, <3>2
        <3> QED BY <3>1, <3>2
    <2> QED BY <2>3, <2>4, <2>6
<1>9. At_(N)
    <2>1. \A k \in Nat : k \in T
        <3>1. 0 \in T
            BY <1>7
        <3> HIDE DEF T
        <3> QED BY <1>8, <3>1, SetInduction
    <2> QED BY <1>1, <2>1
<1>10. PICK i, j, b, mp : V[N] = Standing(i, j, b, mp) /\ Pl(i, j, b, mp) /\ (Done(i, j) \/ i + j >= 2 + N)
    BY <1>9
<1>11. Done(i, j)
    BY <1>1, <1>3, <1>10 DEF N
<1>12. SrcEnd(mp) = SrcEnd(inner) /\ DstEnd(mp) = DstEnd(outer) /\ Table(mp, Nat \X Nat, Q)
    BY <1>6, <1>10, <1>11
<1>13. Compose(inner, outer).ok = TRUE /\ Compose(inner, outer).map = mp
    <2>1. Compose(inner, outer) = Standing(i, j, b, mp)
        BY <1>2, <1>10
    <2> QED BY <2>1 DEF Standing
<1> QED BY <1>12, <1>13

-----------------------------------------------------------------------------
(* A table into a text is a table into a longer one.                       *)
LEMMA TableGrows ==
    ASSUME NEW m, NEW P, NEW Q, NEW R, Q \subseteq R, Table(m, P, Q)
    PROVE  Table(m, P, R) /\ (Carries(m, P, Q) => Carries(m, P, R))
<1>1. ASSUME NEW k \in DOMAIN m PROVE Sound(m[k], P, R)
    <2>1. Sound(m[k], P, Q)
        BY DEF Table
    <2>2. m[k].dst.from \in R /\ m[k].dst.to \in R
        BY <2>1 DEF Sound
    <2> QED BY <2>1, <2>2 DEF Sound
<1>2. Carries(m, P, Q) => Carries(m, P, R)
    BY DEF Carries
<1> QED BY <1>1, <1>2 DEF Table

(* An identity segment takes the points of what it keeps to points.        *)
LEMMA KeepCarries ==
    ASSUME NEW t \in Seq(Chars), NEW p \in 0..Len(t), NEW q \in p..Len(t), NEW w \in Seq(Chars),
           NEW r \in Points(t), PointAt(t, p)[1] <= r[1], r[1] <= PointAt(t, q)[1]
    PROVE  Shift(r, PointAt(t, p), Size(w)) \in Points(w \o SubSeq(t, p + 1, q))
<1> DEFINE u == SubSeq(t, p + 1, q)
<1>1. Len(t) \in Nat /\ q \in 0..Len(t) /\ p \in Nat /\ q \in Nat /\ p <= q /\ q <= Len(t)
    BY LenProperties
<1>2. PICK k \in 0..Len(t) : r = PointAt(t, k)
    BY DEF Points
<1>3. PointAt(t, p)[1] \in Nat /\ PointAt(t, q)[1] \in Nat /\ r[1] \in Nat /\ r \in Nat \X Nat
      /\ PointAt(t, p) \in Nat \X Nat
    BY <1>1, <1>2, PointRules
<1>4. p <= k /\ k <= q
    <2>1. k < p => PointAt(t, k)[1] < PointAt(t, p)[1]
        BY <1>1, PointRules
    <2>2. q < k => PointAt(t, q)[1] < PointAt(t, k)[1]
        BY <1>1, PointRules
    <2> QED BY <1>1, <1>2, <1>3, <2>1, <2>2
<1>5. k \in p..Len(t) /\ k - p \in 0..(q - p) /\ k - p \in Nat
    BY <1>1, <1>4
<1>6. r = Move(PointAt(t, p), Size(SubSeq(t, p + 1, k))) /\ SubSeq(t, p + 1, k) \in Seq(Chars)
    BY <1>2, <1>5, PointStep
<1>7. u \in Seq(Chars) /\ Len(u) = q - p
    BY PointStep
<1>8. SubSeq(u, 1, k - p) = SubSeq(t, p + 1, k)
    <2>1. CASE k = p
        BY <1>1, <2>1, SubSeqEmpty
    <2>2. CASE k # p
        <3>1. /\ p + 1 \in 1..Len(t) /\ q \in p + 1 - 1..Len(t)
              /\ k - p \in 1..(q - p)
            BY <1>1, <1>4, <2>2
        <3>2. /\ u = [i \in 1..(q - p) |-> t[p + i]]
            BY <1>1
        <3>3. SubSeq(t, p + 1, k) = [i \in 1..(k - p) |-> t[p + i]]
            BY <1>1, <1>4
        <3>4. SubSeq(u, 1, k - p) = [i \in 1..(k - p) |-> u[i]]
            <4> HIDE DEF u
            <4> QED BY <1>1, <1>4, <1>5, <1>7
        <3>5. \A i \in 1..(k - p) : u[i] = t[p + i]
            BY <1>1, <1>4, <3>2
        <3> QED BY <3>3, <3>4, <3>5
    <2> QED BY <2>1, <2>2
<1>9. Move(Size(w), PointAt(u, k - p)) \in Points(w \o u)
    <2>1. k - p \in 0..Len(u)
        <3> HIDE DEF u
        <3> QED BY <1>5, <1>7
    <2> HIDE DEF u
    <2> QED BY <1>7, <2>1, PointsGrow
<1> DEFINE a == PointAt(t, p)
           d == Size(SubSeq(t, p + 1, k))
<1>10. PointAt(u, k - p) = d
    BY <1>8 DEF PointAt
<1>11. a \in Nat \X Nat /\ d \in Nat \X Nat /\ r = Move(a, d) /\ Size(w) \in Nat \X Nat
    BY <1>3, <1>6, SizeRules
<1> HIDE DEF a, d, u
<1>12. Shift(r, a, Size(w)) = Move(Size(w), d)
    BY <1>11 DEF Shift, Move
<1> QED BY <1>9, <1>10, <1>12 DEF a, u

(* The table a builder has made of the first p characters of t.            *)
Built(m, w, t, p) ==
    /\ w \in Seq(Chars)
    /\ Table(m, Points(t), Points(w)) /\ Carries(m, Points(t), Points(w))
    /\ SrcEnd(m) = PointAt(t, p) /\ DstEnd(m) = Size(w)

(* Over an identity segment a point is shifted alike from both ends.       *)
LEMMA ShiftSame ==
    ASSUME NEW r \in Nat \X Nat, NEW s, NEW t, SameLength(s, t),
           s.from \in Nat \X Nat, s.to \in Nat \X Nat, t.from \in Nat \X Nat, t.to \in Nat \X Nat
    PROVE  Shift(r, s.from, t.from) = Shift(r, s.to, t.to)
<1>1. /\ t.from[1] + r[1] - s.from[1] = t.to[1] + r[1] - s.to[1]
      /\ t.from[2] + r[2] - s.from[2] = t.to[2] + r[2] - s.to[2]
    BY DEF SameLength
<1> QED BY <1>1 DEF Shift

(* Two identity segments that become one take points to points.            *)
LEMMA ExtendCarries ==
    ASSUME NEW P \in SUBSET (Nat \X Nat), NEW Q \in SUBSET (Nat \X Nat), NEW l, Sound(l, P, Q), IsIdentity(l),
           NEW r \in P, r[1] <= l.src.to[1] => Shift(r, l.src.from, l.dst.from) \in Q,
           l.src.to[1] <= r[1] => Shift(r, l.src.to, l.dst.to) \in Q
    PROVE  Shift(r, l.src.from, l.dst.from) \in Q
<1>1. /\ l.src.from \in Nat \X Nat /\ l.dst.from \in Nat \X Nat
      /\ l.src.to \in Nat \X Nat /\ l.dst.to \in Nat \X Nat /\ r \in Nat \X Nat
    BY DEF Sound
<1>2. SameLength(l.src, l.dst)
    BY DEF Sound, IsIdentity
<1>3. Shift(r, l.src.from, l.dst.from) = Shift(r, l.src.to, l.dst.to)
    BY <1>1, <1>2, ShiftSame
<1> QED BY <1>1, <1>3

(* The two sides of what a call adds.                                      *)
LEMMA SidesOf ==
    ASSUME NEW t \in Seq(Chars), NEW p \in 0..Len(t), NEW q \in p..Len(t), p < q,
           NEW w \in Seq(Chars), NEW z \in Seq(Chars)
    PROVE  /\ Move(PointAt(t, p), Size(SubSeq(t, p + 1, q))) = PointAt(t, q)
           /\ Move(Size(w), Size(z)) = Size(w \o z)
           /\ PointAt(t, p) \in Points(t) /\ PointAt(t, q) \in Points(t)
           /\ Size(w) \in Points(w \o z) /\ Size(w \o z) \in Points(w \o z)
           /\ Le(PointAt(t, p), PointAt(t, q)) /\ PointAt(t, p)[1] < PointAt(t, q)[1]
           /\ Le(Size(w), Size(w \o z))
           /\ Points(t) \in SUBSET (Nat \X Nat) /\ Points(w \o z) \in SUBSET (Nat \X Nat)
           /\ Points(w) \subseteq Points(w \o z)
           /\ z = SubSeq(t, p + 1, q) =>
                SameLength([from |-> PointAt(t, p), to |-> PointAt(t, q)], [from |-> Size(w), to |-> Size(w \o z)])
<1>1. Len(t) \in Nat /\ p \in Nat /\ q \in 0..Len(t) /\ w \o z \in Seq(Chars)
    BY LenProperties, ConcatProperties
<1>2. Move(PointAt(t, p), Size(SubSeq(t, p + 1, q))) = PointAt(t, q) /\ SubSeq(t, p + 1, q) \in Seq(Chars)
    BY PointStep
<1>3. Move(Size(w), Size(z)) = Size(w \o z)
    BY SizeConcat
<1>4. PointAt(t, p) \in Points(t) /\ PointAt(t, q) \in Points(t)
    BY <1>1 DEF Points
<1>5. Points(w) \subseteq Points(w \o z) /\ Size(w) \in Points(w \o z) /\ Size(w \o z) \in Points(w \o z)
    BY <1>1, PointsGrow, PointsRuled
<1>6. Points(t) \in SUBSET (Nat \X Nat) /\ Points(w \o z) \in SUBSET (Nat \X Nat)
    BY <1>1, PointsRuled DEF Ruler
<1>7. PointAt(t, p)[1] < PointAt(t, q)[1]
    BY <1>1, PointRules
<1>8. /\ PointAt(t, p) \in Nat \X Nat /\ Size(SubSeq(t, p + 1, q)) \in Nat \X Nat
      /\ Size(w) \in Nat \X Nat /\ Size(z) \in Nat \X Nat
    BY <1>1, <1>2, PointRules, SizeRules
<1>9. ASSUME NEW a \in Nat \X Nat, NEW d \in Nat \X Nat
      PROVE  /\ Le(a, Move(a, d))
             /\ Move(a, d)[1] - a[1] = d[1] /\ Move(a, d)[2] - a[2] = d[2]
    BY DEF Le, Move
<1>10. Le(PointAt(t, p), PointAt(t, q)) /\ Le(Size(w), Size(w \o z))
    BY <1>2, <1>3, <1>8, <1>9
<1>11. ASSUME z = SubSeq(t, p + 1, q)
       PROVE  SameLength([from |-> PointAt(t, p), to |-> PointAt(t, q)], [from |-> Size(w), to |-> Size(w \o z)])
    <2>1. PointAt(t, q)[1] - PointAt(t, p)[1] = Size(z)[1] /\ PointAt(t, q)[2] - PointAt(t, p)[2] = Size(z)[2]
        BY <1>2, <1>8, <1>9, <1>11
    <2>2. Size(w \o z)[1] - Size(w)[1] = Size(z)[1] /\ Size(w \o z)[2] - Size(w)[2] = Size(z)[2]
        BY <1>3, <1>8, <1>9
    <2> QED BY <2>1, <2>2 DEF SameLength
<1> QED BY <1>2, <1>3, <1>4, <1>5, <1>6, <1>7, <1>10, <1>11

(* A call of the builder extends the table and the text.                   *)
LEMMA AddCallTable ==
    ASSUME NEW t \in Seq(Chars), NEW p \in 0..Len(t), NEW q \in p..Len(t), NEW m, NEW w, Built(m, w, t, p),
           NEW call, call.src = SubSeq(t, p + 1, q), call.dst \in Seq(Chars),
           call.op = "keep" => call.dst = call.src,
           NEW w2, w2 = IF call.src = <<>> THEN w ELSE w \o call.dst
    PROVE  Built(AddCall(m, call), w2, t, q)
<1>1. /\ w \in Seq(Chars) /\ Table(m, Points(t), Points(w)) /\ Carries(m, Points(t), Points(w))
      /\ SrcEnd(m) = PointAt(t, p) /\ DstEnd(m) = Size(w)
    BY DEF Built
<1>2. /\ call.src \in Seq(Chars) /\ Len(call.src) = q - p /\ (call.src = <<>> <=> Len(call.src) = 0)
      /\ p \in Nat /\ q \in Nat /\ p <= q
    <2>1. SubSeq(t, p + 1, q) \in Seq(Chars) /\ Len(SubSeq(t, p + 1, q)) = q - p
        BY PointStep
    <2>2. Len(t) \in Nat
        BY LenProperties
    <2>3. p \in Nat /\ q \in Nat /\ p <= q
        BY <2>2
    <2>4. call.src \in Seq(Chars) /\ Len(call.src) = q - p
        BY <2>1
    <2>5. call.src = <<>> <=> Len(call.src) = 0
        BY <2>4, EmptySeq
    <2> QED BY <2>3, <2>4, <2>5
<1>3. CASE call.src = <<>>
    <2>1. p = q
        BY <1>2, <1>3
    <2>2. AddCall(m, call) = m /\ w2 = w
        BY <1>3 DEF AddCall
    <2> QED BY <2>1, <2>2
<1>4. CASE call.src # <<>>
    <2> DEFINE z == call.dst
               a == PointAt(t, p)
               c == PointAt(t, q)
               f == Size(w)
               g == Size(w \o z)
               P == Points(t)
               Q == Points(w \o z)
               src == Span(a, c)
               dst == Span(f, g)
    <2>1. p < q /\ w2 = w \o z
        <3>1. p \in Nat /\ q \in Nat /\ p <= q /\ q - p # 0
            BY <1>2, <1>4
        <3>2. p < q
            BY <3>1
        <3> QED BY <1>4, <3>2
    <2>2. /\ Move(a, Size(call.src)) = c /\ Move(f, Size(z)) = g
          /\ a \in P /\ c \in P /\ f \in Q /\ g \in Q /\ Le(a, c) /\ a[1] < c[1] /\ Le(f, g)
          /\ P \in SUBSET (Nat \X Nat) /\ Q \in SUBSET (Nat \X Nat) /\ Points(w) \subseteq Q
          /\ z = call.src => SameLength([from |-> a, to |-> c], [from |-> f, to |-> g])
        <3> DEFINE y == SubSeq(t, p + 1, q)
        <3>1. z \in Seq(Chars) /\ w \in Seq(Chars)
            BY <1>1
        <3>2. /\ Move(a, Size(y)) = c /\ Move(f, Size(z)) = g
              /\ a \in P /\ c \in P /\ f \in Q /\ g \in Q /\ Le(a, c) /\ a[1] < c[1] /\ Le(f, g)
              /\ P \in SUBSET (Nat \X Nat) /\ Q \in SUBSET (Nat \X Nat) /\ Points(w) \subseteq Q
              /\ z = y => SameLength([from |-> a, to |-> c], [from |-> f, to |-> g])
            <4> HIDE DEF z
            <4> QED BY <2>1, <3>1, SidesOf
        <3> HIDE DEF a, c, f, g, P, Q
        <3> QED BY <3>2
    <2>3. w \o z \in Seq(Chars)
        BY <1>1, ConcatProperties
    <2>4. Table(m, P, Q) /\ Carries(m, P, Q) /\ SrcEnd(m) = a /\ DstEnd(m) = f
        BY <1>1, <2>2, TableGrows
    <2>5. AddCall(m, call) =
             IF call.op = "keep" THEN AppendSegment(m, Segment(src, dst, "identity", {}, 0))
             ELSE Append(m, Segment(src, dst, Classify(src, dst), {call.rule}, CharLen(src)))
        BY <1>1, <1>4, <2>2 DEF AddCall
    <2>6. src.from = a /\ src.to = c /\ dst.from = f /\ dst.to = g
        BY DEF Span
    <2> HIDE DEF src, dst, a, c, f, g, P, Q
    <2>7. CASE call.op = "keep"
        <3> DEFINE seg == Segment(src, dst, "identity", {}, 0)
                   m2 == AppendSegment(m, seg)
        <3>1. seg.src = src /\ seg.dst = dst /\ seg.kind = "identity" /\ seg.rules = {} /\ seg.cost = 0
            BY DEF Segment
        <3> HIDE DEF seg
        <3>2. SameLength(src, dst)
            BY <2>2, <2>6, <2>7 DEF SameLength
        <3>3. Sound(seg, P, Q)
            BY <2>2, <2>6, <3>1, <3>2 DEF Sound, Kinds
        <3>4. seg.src.from = SrcEnd(m) /\ seg.dst.from = DstEnd(m)
            BY <2>4, <2>6, <3>1
        <3>5. /\ Table(m2, P, Q) /\ SrcEnd(m2) = c /\ DstEnd(m2) = g
              /\ \A k \in DOMAIN m2 :
                    \/ k \in DOMAIN m /\ m2[k] = m[k]
                    \/ m2[k] = seg
                    \/ /\ m # <<>> /\ IsIdentity(seg) /\ IsIdentity(m[Len(m)])
                       /\ m2[k] = Extended(m[Len(m)], seg)
            <4>1. P \in SUBSET (Nat \X Nat) /\ Q \in SUBSET (Nat \X Nat) /\ Table(m, P, Q)
                BY <2>2, <2>4
            <4>2. seg.src.to = c /\ seg.dst.to = g
                BY <2>6, <3>1
            <4>3. /\ Table(m2, P, Q) /\ SrcEnd(m2) = seg.src.to /\ DstEnd(m2) = seg.dst.to
                  /\ Tiled(m2, m, seg)
                BY <3>3, <3>4, <4>1, AppendSegmentTile, ZenonT(30)
            <4> HIDE DEF m2
            <4> QED BY <4>2, <4>3 DEF Tiled
        <3> HIDE DEF m2
        <3>6. ASSUME NEW r \in P, a[1] <= r[1], r[1] <= c[1] PROVE Shift(r, a, f) \in Q
            <4>1. Shift(r, PointAt(t, p), Size(w)) \in Points(w \o SubSeq(t, p + 1, q))
                BY <1>1, <3>6, KeepCarries DEF P, a, c
            <4>2. SubSeq(t, p + 1, q) = z
                BY <2>7
            <4> QED BY <4>1, <4>2 DEF Q, a, f
        <3>7. Carries(m2, P, Q)
            <4> SUFFICES ASSUME NEW k \in DOMAIN m2, IsIdentity(m2[k]), NEW r \in P,
                                m2[k].src.from[1] <= r[1], r[1] <= m2[k].src.to[1]
                         PROVE  Shift(r, m2[k].src.from, m2[k].dst.from) \in Q
                BY DEF Carries
            <4>1. CASE k \in DOMAIN m /\ m2[k] = m[k]
                BY <2>4, <4>1 DEF Carries
            <4>2. CASE m2[k] = seg
                <5>1. m2[k].src.from = a /\ m2[k].src.to = c /\ m2[k].dst.from = f
                    BY <2>6, <3>1, <4>2
                <5> QED BY <3>6, <5>1
            <4>3. CASE m # <<>> /\ IsIdentity(m[Len(m)]) /\ m2[k] = Extended(m[Len(m)], seg)
                <5> DEFINE l == m[Len(m)]
                <5>1. /\ Extended(l, seg).src.from = l.src.from /\ Extended(l, seg).dst.from = l.dst.from
                      /\ Extended(l, seg).src.to = seg.src.to
                    BY DEF Extended, Segment, Span
                <5>2. m2[k].src.from = l.src.from /\ m2[k].dst.from = l.dst.from /\ m2[k].src.to = c
                    BY <2>6, <3>1, <4>3, <5>1
                <5>3. Len(m) \in DOMAIN m
                    BY <2>4, <4>3, SeqParts DEF Table
                <5>4. l.src.to = a /\ l.dst.to = f
                    BY <2>4, <4>3 DEF SrcEnd, DstEnd
                <5>5. Sound(l, P, Q) /\ IsIdentity(l)
                    BY <2>4, <4>3, <5>3 DEF Table
                <5>6. r[1] <= a[1] => Shift(r, l.src.from, l.dst.from) \in Q
                    BY <2>4, <5>2, <5>3, <5>4, <5>5 DEF Carries
                <5>7. a[1] <= r[1] => Shift(r, a, f) \in Q
                    BY <3>6, <5>2
                <5>8. Shift(r, l.src.from, l.dst.from) \in Q
                    <6> HIDE DEF l
                    <6> QED BY <2>2, <5>4, <5>5, <5>6, <5>7, ExtendCarries
                <5> QED BY <5>2, <5>8
            <4> QED BY <3>5, <4>1, <4>2, <4>3
        <3>8. AddCall(m, call) = m2
            BY <2>5, <2>7 DEF m2, seg
        <3> QED BY <2>1, <2>3, <3>5, <3>7, <3>8 DEF Built, P, Q, c, g
    <2>8. CASE call.op # "keep"
        <3> DEFINE seg == Segment(src, dst, Classify(src, dst), {call.rule}, CharLen(src))
                   m2 == Append(m, seg)
        <3>1. seg.src = src /\ seg.dst = dst /\ seg.kind = Classify(src, dst)
            BY DEF Segment
        <3> HIDE DEF seg
        <3>2. /\ Classify(src, dst) \in Kinds /\ Classify(src, dst) # "identity"
              /\ Classify(src, dst) = "delete" => dst.from[1] >= dst.to[1]
              /\ Classify(src, dst) = "expand" => dst.to[2] - dst.from[2] > src.to[2] - src.from[2]
              /\ Classify(src, dst) = "replace" => dst.from[1] < dst.to[1]
            <4>1. a \in Nat \X Nat /\ c \in Nat \X Nat /\ f \in Nat \X Nat /\ g \in Nat \X Nat
                BY <2>2
            <4> QED BY <2>6, <4>1, ClassifyRules
        <3>3. Sound(seg, P, Q)
            BY <2>2, <2>6, <3>1, <3>2 DEF Sound
        <3>4. seg.src.from = SrcEnd(m) /\ seg.dst.from = DstEnd(m)
            BY <2>4, <2>6, <3>1
        <3>5. Table(m2, P, Q) /\ SrcEnd(m2) = c /\ DstEnd(m2) = g
            BY <2>4, <2>6, <3>1, <3>3, <3>4, AppendTile
        <3>6. IsSeq(m)
            BY <2>4 DEF Table
        <3>7. /\ DOMAIN m = 1..Len(m) /\ DOMAIN m2 = 1..(Len(m) + 1) /\ Len(m) \in Nat
              /\ \A i \in 1..Len(m) : m2[i] = m[i]
              /\ m2[Len(m) + 1] = seg
            BY <3>6, AppendAny
        <3> HIDE DEF m2
        <3>8. Carries(m2, P, Q)
            <4>1. \A k \in DOMAIN m2 : (k \in DOMAIN m /\ m2[k] = m[k]) \/ m2[k] = seg
                BY <3>7
            <4>2. ~IsIdentity(seg)
                BY <3>1, <3>2 DEF IsIdentity
            <4> QED BY <2>4, <4>1, <4>2 DEF Carries
        <3>9. AddCall(m, call) = m2
            BY <2>5, <2>8 DEF m2, seg
        <3> QED BY <2>1, <2>3, <3>5, <3>8, <3>9 DEF Built, P, Q, c, g
    <2> QED BY <2>7, <2>8
<1> QED BY <1>3, <1>4

(* A turn of the builder.                                                  *)
AddTo(calls, b) ==
    LET call == calls[b.n + 1] IN
    [n |-> b.n + 1, map |-> AddCall(b.map, call),
     text |-> IF call.src = <<>> THEN b.text ELSE b.text \o call.dst]

(* The loop of the builder.                                                *)
BuildRun(V, calls) ==
    /\ V[0] = [n |-> 0, map |-> <<>>, text |-> <<>>]
    /\ \A k \in 1..Len(calls) : V[k] = AddTo(calls, V[k - 1])
    /\ Builder(calls) = V[Len(calls)]

(* finish returns the last value of the loop over the calls.               *)
LEMMA BuildLoop ==
    ASSUME NEW calls, Len(calls) \in Nat
    PROVE  \E V : BuildRun(V, calls)
<1> DEFINE B(x) == AddTo(calls, x)
           E(g, m) == [k \in 0..m |-> IF k = 0 THEN [n |-> 0, map |-> <<>>, text |-> <<>>] ELSE B(g[k - 1])]
           T == {m \in Nat : \E g : g = E(g, m)}
           I == CHOOSE g : g = E(g, Len(calls))
<1>1. Len(calls) \in Nat
    OBVIOUS
<1>2. Builder(calls) = I[Len(calls)]
    BY Zenon DEF Builder, Repeat, AddTo
<1> HIDE DEF B
<1>3. 0 \in T
    <2>1. [k \in 0..0 |-> [n |-> 0, map |-> <<>>, text |-> <<>>]] = E([k \in 0..0 |-> [n |-> 0, map |-> <<>>, text |-> <<>>]], 0)
        OBVIOUS
    <2> HIDE DEF E
    <2> QED BY <2>1
<1>4. ASSUME NEW m \in Nat, m \in T PROVE m + 1 \in T
    <2>1. PICK g : g = E(g, m)
        BY <1>4
    <2> DEFINE h == [k \in 0..m + 1 |-> IF k = m + 1 THEN B(g[m]) ELSE g[k]]
    <2>2. \A k \in 0..m : g[k] = IF k = 0 THEN [n |-> 0, map |-> <<>>, text |-> <<>>] ELSE B(g[k - 1])
        BY <2>1
    <2>3. ASSUME NEW k \in 0..m + 1 PROVE h[k] = IF k = 0 THEN [n |-> 0, map |-> <<>>, text |-> <<>>] ELSE B(h[k - 1])
        <3>1. CASE k = m + 1
            <4>1. k # 0 /\ k - 1 = m /\ m \in 0..m + 1 /\ m # m + 1
                BY <3>1
            <4>2. h[k] = B(g[m]) /\ h[m] = g[m]
                BY <3>1, <4>1
            <4> HIDE DEF h
            <4> QED BY <4>1, <4>2
        <3>2. CASE k # m + 1
            <4>1. k \in 0..m /\ (k # 0 => k - 1 \in 0..m + 1 /\ k - 1 # m + 1)
                BY <3>2
            <4>2. h[k] = g[k] /\ (k # 0 => h[k - 1] = g[k - 1])
                BY <3>2, <4>1
            <4> HIDE DEF h
            <4> QED BY <2>2, <4>1, <4>2
        <3> QED BY <3>1, <3>2
    <2>4. h = E(h, m + 1)
        <3>1. h = [k \in 0..m + 1 |-> h[k]]
            OBVIOUS
        <3> HIDE DEF h
        <3> QED BY <2>3, <3>1
    <2> HIDE DEF E, h
    <2> QED BY <2>4
<1>5. \A m \in Nat : m \in T
    <2> HIDE DEF T
    <2> QED BY <1>3, <1>4, SetInduction
<1>6. I = E(I, Len(calls))
    <2>1. \E g : g = E(g, Len(calls))
        BY <1>1, <1>5
    <2> HIDE DEF E
    <2> QED BY <2>1, Zenon
<1>7. I[0] = [n |-> 0, map |-> <<>>, text |-> <<>>] /\ \A k \in 1..Len(calls) : I[k] = B(I[k - 1])
    <2> HIDE DEF I
    <2>1. \A k \in 0..Len(calls) : I[k] = IF k = 0 THEN [n |-> 0, map |-> <<>>, text |-> <<>>] ELSE B(I[k - 1])
        BY <1>6
    <2>2. 0 \in 0..Len(calls) /\ \A k \in 1..Len(calls) : k \in 0..Len(calls) /\ k # 0
        BY <1>1
    <2> HIDE DEF E
    <2> QED BY <2>1, <2>2
<1> HIDE DEF I
<1>8. BuildRun(I, calls)
    BY <1>2, <1>7, Zenon DEF B, BuildRun
<1> QED BY <1>8

(* Calls that hand over the characters of t after the first a up to b.     *)
Handed(call, t, p, q) ==
    /\ p \in 0..Len(t) /\ q \in p..Len(t)
    /\ call.src = SubSeq(t, p + 1, q) /\ call.dst \in Seq(Chars)
    /\ call.op = "keep" => call.dst = call.src

Marked(pos, calls, t, a, b) ==
    /\ pos[0] = a /\ pos[Len(calls)] = b
    /\ \A k \in 1..Len(calls) : Handed(calls[k], t, pos[k - 1], pos[k])

Hands(calls, t, a, b) ==
    /\ IsSeq(calls) /\ a \in 0..Len(t) /\ b \in 0..Len(t)
    /\ \E pos : Marked(pos, calls, t, a, b)

(* finish: calls that hand over a whole text make a table from that text   *)
(* to the one they write.                                                  *)
THEOREM BuildTable ==
    ASSUME NEW t \in Seq(Chars), NEW calls, Hands(calls, t, 0, Len(t))
    PROVE  Built(BuildMap(calls), BuildText(calls), t, Len(t))
<1> DEFINE N == Len(calls)
           A(b) == AddTo(calls, b)
<1>1. Len(t) \in Nat /\ N \in Nat /\ DOMAIN calls = 1..N
    BY LenProperties, SeqParts DEF Hands
<1>2. PICK V : /\ V[0] = [n |-> 0, map |-> <<>>, text |-> <<>>]
               /\ \A k \in 1..N : V[k] = A(V[k - 1])
               /\ Builder(calls) = V[N]
    <2>1. PICK V : BuildRun(V, calls)
        BY <1>1, BuildLoop
    <2> QED BY <2>1 DEF BuildRun
<1>3. PICK pos : Marked(pos, calls, t, 0, Len(t))
    BY DEF Hands
<1>4. /\ pos[0] = 0 /\ pos[N] = Len(t)
      /\ \A k \in 1..N : Handed(calls[k], t, pos[k - 1], pos[k])
    BY <1>3 DEF Marked
<1> DEFINE At_(k) == \E m, w : V[k] = [n |-> k, map |-> m, text |-> w] /\ Built(m, w, t, pos[k])
           T == {k \in Nat : k <= N => At_(k)}
<1> HIDE DEF N
<1>5. At_(0)
    <2>1. <<>> \in Seq(Chars) /\ Size(<<>>) = Origin /\ PointAt(t, 0) = Origin
        BY EmptySeq, SizeRules, PointRules
    <2>2. Table(<<>>, Points(t), Points(<<>>)) /\ SrcEnd(<<>>) = Origin /\ DstEnd(<<>>) = Origin
        BY EmptyTable
    <2>3. Carries(<<>>, Points(t), Points(<<>>))
        BY DEF Carries
    <2>4. Built(<<>>, <<>>, t, pos[0])
        BY <1>4, <2>1, <2>2, <2>3 DEF Built
    <2> QED BY <1>2, <2>4
<1> HIDE DEF At_
<1>6. ASSUME NEW k \in Nat, k \in T PROVE k + 1 \in T
    <2> SUFFICES ASSUME k + 1 <= N PROVE At_(k + 1)
        OBVIOUS
    <2>1. k <= N /\ k + 1 \in 1..N /\ (k + 1) - 1 = k
        BY <1>1
    <2>2. PICK m, w : V[k] = [n |-> k, map |-> m, text |-> w] /\ Built(m, w, t, pos[k])
        BY <1>6, <2>1 DEF At_
    <2> DEFINE call == calls[k + 1]
               m2 == AddCall(m, call)
               w2 == IF call.src = <<>> THEN w ELSE w \o call.dst
    <2>3. V[k + 1] = A(V[k])
        BY <1>2, <2>1
    <2>4. A(V[k]) = [n |-> k + 1, map |-> m2, text |-> w2]
        <3> DEFINE v == V[k]
        <3>1. v.n = k /\ v.map = m /\ v.text = w
            BY <2>2
        <3> HIDE DEF v
        <3> QED BY <3>1 DEF AddTo, v
    <2>5. Handed(call, t, pos[k], pos[k + 1])
        BY <1>4, <2>1
    <2>6. Built(m2, w2, t, pos[k + 1])
        <3>1. /\ pos[k] \in 0..Len(t) /\ pos[k + 1] \in pos[k]..Len(t)
              /\ call.src = SubSeq(t, pos[k] + 1, pos[k + 1]) /\ call.dst \in Seq(Chars)
              /\ call.op = "keep" => call.dst = call.src
            BY <2>5 DEF Handed
        <3> HIDE DEF call
        <3> QED BY <2>2, <3>1, AddCallTable
    <2> HIDE DEF call, m2, w2
    <2> QED BY <2>3, <2>4, <2>6 DEF At_
<1>7. At_(N)
    <2>1. \A k \in Nat : k \in T
        <3>1. 0 \in T
            BY <1>5
        <3> HIDE DEF T
        <3> QED BY <1>6, <3>1, SetInduction
    <2> QED BY <1>1, <2>1
<1>8. PICK m, w : V[N] = [n |-> N, map |-> m, text |-> w] /\ Built(m, w, t, pos[N])
    BY <1>7 DEF At_
<1>9. BuildMap(calls) = m /\ BuildText(calls) = w
    BY <1>2, <1>8 DEF BuildMap, BuildText
<1> QED BY <1>4, <1>8, <1>9

-----------------------------------------------------------------------------
(* No call hands over nothing.                                             *)
LEMMA HandsNone ==
    ASSUME NEW t \in Seq(Chars), NEW a \in 0..Len(t)
    PROVE  Hands(<<>>, t, a, a)
<1>1. IsSeq(<<>>) /\ Len(<<>>) = 0
    BY EmptySeq DEF IsSeq
<1>2. Marked([k \in {0} |-> a], <<>>, t, a, a)
    BY <1>1 DEF Marked
<1> QED BY <1>1, <1>2 DEF Hands

(* One more call, from where the calls before it end.                      *)
LEMMA HandsAppend ==
    ASSUME NEW t \in Seq(Chars), NEW calls, NEW a, NEW b, Hands(calls, t, a, b),
           NEW call, NEW d, Handed(call, t, b, d)
    PROVE  Hands(Append(calls, call), t, a, d)
<1> DEFINE n == Len(calls)
           c2 == Append(calls, call)
<1>1. IsSeq(calls) /\ a \in 0..Len(t) /\ b \in 0..Len(t) /\ d \in 0..Len(t) /\ Len(t) \in Nat
    <2>1. Len(t) \in Nat
        BY LenProperties
    <2> QED BY <2>1 DEF Hands, Handed
<1>2. /\ IsSeq(c2) /\ n \in Nat /\ DOMAIN calls = 1..n /\ DOMAIN c2 = 1..(n + 1)
      /\ \A i \in 1..n : c2[i] = calls[i]
      /\ c2[n + 1] = call
    BY <1>1, AppendAny
<1> HIDE DEF c2, n
<1>3. Len(c2) = n + 1
    <2>1. DOMAIN c2 = 1..Len(c2) /\ Len(c2) \in Nat
        BY <1>2, SeqParts
    <2> QED BY <1>2, <2>1
<1>4. PICK pos : Marked(pos, calls, t, a, b)
    BY DEF Hands
<1>5. pos[0] = a /\ pos[n] = b /\ \A k \in 1..n : Handed(calls[k], t, pos[k - 1], pos[k])
    BY <1>4 DEF Marked, n
<1> DEFINE pos2 == [k \in 0..(n + 1) |-> IF k = n + 1 THEN d ELSE pos[k]]
<1>6. pos2[n + 1] = d /\ \A k \in 0..n : pos2[k] = pos[k]
    BY <1>2
<1> HIDE DEF pos2
<1>7. ASSUME NEW k \in 1..(n + 1) PROVE Handed(c2[k], t, pos2[k - 1], pos2[k])
    <2>1. CASE k = n + 1
        <3>1. k - 1 = n /\ n \in 0..n
            BY <1>2, <2>1
        <3> QED BY <1>2, <1>5, <1>6, <2>1, <3>1
    <2>2. CASE k # n + 1
        <3>1. k \in 1..n /\ k - 1 \in 0..n /\ k \in 0..n
            BY <1>2, <2>2
        <3> QED BY <1>2, <1>5, <1>6, <3>1
    <2> QED BY <2>1, <2>2
<1>8. Marked(pos2, c2, t, a, d)
    <2>1. pos2[0] = a
        BY <1>2, <1>5, <1>6
    <2> QED BY <1>3, <1>6, <1>7, <2>1 DEF Marked
<1> QED BY <1>1, <1>2, <1>8 DEF Hands, c2

(* The parts of a concatenation.                                           *)
LEMMA ConcatAny ==
    ASSUME NEW s, IsSeq(s), NEW u, IsSeq(u)
    PROVE  /\ IsSeq(s \o u) /\ Len(s) \in Nat /\ Len(u) \in Nat /\ Len(s \o u) = Len(s) + Len(u)
           /\ \A i \in 1..Len(s) : (s \o u)[i] = s[i]
           /\ \A i \in 1..Len(u) : (s \o u)[Len(s) + i] = u[i]
<1>1. PICK S : s \in Seq(S)
    BY DEF IsSeq
<1>2. PICK U : u \in Seq(U)
    BY DEF IsSeq
<1>3. s \in Seq(S \cup U) /\ u \in Seq(S \cup U)
    BY <1>1, <1>2, SeqMonotonic
<1>4. Len(s) \in Nat /\ Len(u) \in Nat
    BY <1>1, <1>2, LenProperties
<1>5. /\ s \o u \in Seq(S \cup U) /\ Len(s \o u) = Len(s) + Len(u)
      /\ \A i \in 1..Len(s) + Len(u) : (s \o u)[i] = IF i <= Len(s) THEN s[i] ELSE u[i - Len(s)]
    BY <1>3, ConcatProperties
<1>6. IsSeq(s \o u)
    BY <1>5 DEF IsSeq
<1>7. ASSUME NEW i \in 1..Len(s) PROVE (s \o u)[i] = s[i]
    <2>1. i \in 1..Len(s) + Len(u) /\ i <= Len(s)
        BY <1>4
    <2> QED BY <1>5, <2>1
<1>8. ASSUME NEW i \in 1..Len(u) PROVE (s \o u)[Len(s) + i] = u[i]
    <2>1. Len(s) + i \in 1..Len(s) + Len(u) /\ ~(Len(s) + i <= Len(s)) /\ (Len(s) + i) - Len(s) = i
        BY <1>4
    <2> QED BY <1>5, <2>1
<1> QED BY <1>4, <1>5, <1>6, <1>7, <1>8

(* Calls that go on where others end.                                      *)
LEMMA HandsConcat ==
    ASSUME NEW t \in Seq(Chars), NEW s, NEW a, NEW b, Hands(s, t, a, b), NEW u, NEW d, Hands(u, t, b, d)
    PROVE  Hands(s \o u, t, a, d)
<1> DEFINE n == Len(s)
           m == Len(u)
           c == s \o u
<1>1. IsSeq(s) /\ IsSeq(u) /\ a \in 0..Len(t) /\ d \in 0..Len(t)
    BY DEF Hands
<1>2. /\ IsSeq(c) /\ n \in Nat /\ m \in Nat /\ Len(c) = n + m
      /\ \A i \in 1..n : c[i] = s[i]
      /\ \A i \in 1..m : c[n + i] = u[i]
    BY <1>1, ConcatAny
<1>3. PICK p : Marked(p, s, t, a, b)
    BY DEF Hands
<1>4. PICK q : Marked(q, u, t, b, d)
    BY DEF Hands
<1>5. p[0] = a /\ p[n] = b /\ \A k \in 1..n : Handed(s[k], t, p[k - 1], p[k])
    BY <1>3 DEF Marked
<1>6. q[0] = b /\ q[m] = d /\ \A k \in 1..m : Handed(u[k], t, q[k - 1], q[k])
    BY <1>4 DEF Marked
<1> DEFINE pos == [k \in 0..(n + m) |-> IF k <= n THEN p[k] ELSE q[k - n]]
<1> HIDE DEF n, m, c
<1>7. /\ \A k \in 0..n : pos[k] = p[k]
      /\ \A k \in 1..m : pos[n + k] = q[k]
    <2>1. ASSUME NEW k \in 0..n PROVE pos[k] = p[k]
        <3>1. k \in 0..(n + m) /\ k <= n
            BY <1>2
        <3> QED BY <3>1
    <2>2. ASSUME NEW k \in 1..m PROVE pos[n + k] = q[k]
        <3>1. n + k \in 0..(n + m) /\ ~(n + k <= n) /\ (n + k) - n = k
            BY <1>2
        <3> QED BY <3>1
    <2> QED BY <2>1, <2>2
<1> HIDE DEF pos
<1>8. \A k \in 0..m : pos[n + k] = q[k]
    <2>1. pos[n + 0] = q[0]
        BY <1>2, <1>5, <1>6, <1>7
    <2> QED BY <1>2, <1>7, <2>1
<1>9. ASSUME NEW k \in 1..(n + m) PROVE Handed(c[k], t, pos[k - 1], pos[k])
    <2>1. CASE k <= n
        <3>1. k \in 1..n /\ k - 1 \in 0..n /\ k \in 0..n
            BY <1>2, <2>1
        <3> QED BY <1>2, <1>5, <1>7, <3>1
    <2>2. CASE ~(k <= n)
        <3>1. PICK i \in 1..m : k = n + i
            <4>1. k - n \in 1..m /\ k = n + (k - n)
                BY <1>2, <2>2
            <4> QED BY <4>1
        <3>2. k - 1 = n + (i - 1) /\ i - 1 \in 0..m /\ i \in 0..m
            BY <1>2, <3>1
        <3>3. c[k] = u[i] /\ pos[k] = q[i] /\ pos[k - 1] = q[i - 1]
            BY <1>2, <1>8, <3>1, <3>2
        <3> QED BY <1>6, <3>3
    <2> QED BY <2>1, <2>2
<1>10. Marked(pos, c, t, a, d)
    <2>1. pos[0] = a
        BY <1>2, <1>5, <1>7
    <2>2. pos[n + m] = d
        BY <1>2, <1>6, <1>8
    <2> QED BY <1>2, <1>9, <2>1, <2>2 DEF Marked
<1> QED BY <1>1, <1>2, <1>10 DEF Hands, c

(* A single call.                                                          *)
LEMMA HandsOne ==
    ASSUME NEW t \in Seq(Chars), NEW call, NEW a \in 0..Len(t), NEW b, Handed(call, t, a, b)
    PROVE  Hands(<<call>>, t, a, b) /\ <<call>> # <<>>
<1>1. Hands(<<>>, t, a, a)
    BY HandsNone
<1>2. Hands(Append(<<>>, call), t, a, b)
    BY <1>1, HandsAppend
<1>3. Append(<<>>, call) = <<call>>
    OBVIOUS
<1> QED BY <1>2, <1>3

(* The table of a text that is kept.                                       *)
LEMMA IdentityTable ==
    ASSUME NEW t \in Seq(Chars)
    PROVE  Built(IdentityMap(t), t, t, Len(t))
<1> DEFINE calls == <<Keep(t)>>
           A(b) == AddTo(calls, b)
           call == Keep(t)
           w2 == IF call.src = <<>> THEN <<>> ELSE <<>> \o call.dst
<1>1. Len(t) \in Nat /\ Len(calls) = 1 /\ calls[1] = call /\ 1 \in 1..1 /\ 1 - 1 = 0 /\ 0 + 1 = 1
    BY LenProperties
<1>2. call.src = t /\ call.dst = t
    BY DEF Keep, Call
<1>3. t = SubSeq(t, 0 + 1, Len(t)) /\ <<>> \o t = t
    <2>1. <<>> \o t = t
        BY ConcatEmptySeq
    <2>2. t = SubSeq(t, 1, Len(t))
        BY SubSeqFull
    <2> QED BY <1>1, <2>1, <2>2
<1>4. PICK V : /\ V[0] = [n |-> 0, map |-> <<>>, text |-> <<>>]
               /\ V[1] = A(V[0])
               /\ Builder(calls) = V[1]
    <2>1. PICK V : BuildRun(V, calls)
        <3>1. Len(calls) \in Nat
            BY <1>1
        <3> HIDE DEF calls
        <3> QED BY <3>1, BuildLoop
    <2> HIDE DEF calls
    <2> QED BY <1>1, <2>1 DEF BuildRun
<1>5. A(V[0]) = [n |-> 1, map |-> AddCall(<<>>, call), text |-> w2]
    <2> DEFINE v == V[0]
    <2>1. v.n = 0 /\ v.map = <<>> /\ v.text = <<>>
        BY <1>4
    <2> HIDE DEF v, calls, call
    <2> QED BY <1>1, <2>1 DEF AddTo, v
<1>6. IdentityMap(t) = AddCall(<<>>, call)
    <2> HIDE DEF call, w2, A
    <2>1. BuildMap(calls) = AddCall(<<>>, call)
        BY <1>4, <1>5 DEF BuildMap
    <2> QED BY <2>1 DEF IdentityMap, call
<1>7. Built(<<>>, <<>>, t, 0)
    <2>1. <<>> \in Seq(Chars) /\ Size(<<>>) = Origin /\ PointAt(t, 0) = Origin
        BY EmptySeq, SizeRules, PointRules
    <2>2. Table(<<>>, Points(t), Points(<<>>)) /\ SrcEnd(<<>>) = Origin /\ DstEnd(<<>>) = Origin
        BY EmptyTable
    <2>3. Carries(<<>>, Points(t), Points(<<>>))
        BY DEF Carries
    <2> QED BY <2>1, <2>2, <2>3 DEF Built
<1>8. w2 = t
    <2> HIDE DEF call
    <2> QED BY <1>2, <1>3
<1>9. Built(AddCall(<<>>, call), w2, t, Len(t))
    <2>1. 0 \in 0..Len(t) /\ Len(t) \in 0..Len(t)
        BY <1>1
    <2> HIDE DEF call
    <2>2. call.src = SubSeq(t, 0 + 1, Len(t)) /\ call.dst \in Seq(Chars) /\ (call.op = "keep" => call.dst = call.src)
        BY <1>2, <1>3
    <2> QED BY <1>7, <2>1, <2>2, AddCallTable
<1> QED BY <1>6, <1>8, <1>9
=============================================================================
