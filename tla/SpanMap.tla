------------------------------ MODULE SpanMap ------------------------------
(***************************************************************************)
(* The span table of rust_pii_transformer (src/span.rs): how a normalised  *)
(* text corresponds to its source.  A table is a sequence of segments that *)
(* tile both texts; a pass builds one, tables of successive passes are     *)
(* composed, and a span found in the normalised text is taken back to the  *)
(* source.                                                                 *)
(*                                                                         *)
(* A point is <<byte, char>>: both offsets are carried along, and the code *)
(* compares the bytes.  Rules are names; the four counters of a cost,      *)
(* which saturate at 65535, are one number.                                *)
(***************************************************************************)
EXTENDS Integers, Sequences, FiniteSetsExt

CONSTANT Width      \* Width[c]: the bytes of character c in UTF-8

ASSUME WidthAssumption == \A c \in DOMAIN Width : Width[c] \in Nat \ {0}

(* The value that n runs of a loop with this body make of start.           *)
Repeat(body(_), start, n) ==
    LET value[k \in 0..n] == IF k = 0 THEN start ELSE body(value[k - 1]) IN value[n]

-----------------------------------------------------------------------------
(* Points and spans.                                                       *)
Origin == <<0, 0>>
Nowhere == <<-1, -1>>       \* Err(SpanMapMismatch) of a point lookup
Move(p, q) == <<p[1] + q[1], p[2] + q[2]>>
Byte(p) == p[1]

Size(piece) == <<MapThenSumSet(LAMBDA k : Width[piece[k]], DOMAIN piece), Len(piece)>>
PointAt(text, n) == Size(SubSeq(text, 1, n))

Span(p, q) == [from |-> p, to |-> q]
EmptyAt(p) == Span(p, p)
IsEmpty(s) == Byte(s.from) >= Byte(s.to)
ByteLen(s) == s.to[1] - s.from[1]
CharLen(s) == s.to[2] - s.from[2]

(* classify *)
Classify(src, dst) ==
    IF IsEmpty(dst) THEN "delete" ELSE IF CharLen(dst) > CharLen(src) THEN "expand" ELSE "replace"

Segment(src, dst, kind, rules, cost) ==
    [src |-> src, dst |-> dst, kind |-> kind, rules |-> rules, cost |-> cost]

IsIdentity(seg) == seg.kind = "identity"

SrcEnd(map) == IF map = <<>> THEN Origin ELSE map[Len(map)].src.to
DstEnd(map) == IF map = <<>> THEN Origin ELSE map[Len(map)].dst.to

(* An identity segment next to an identity segment extends it.             *)
Extended(seg, next) ==
    Segment(Span(seg.src.from, next.src.to), Span(seg.dst.from, next.dst.to),
            seg.kind, seg.rules, seg.cost)

AppendSegment(segs, seg) ==
    IF segs # <<>> /\ IsIdentity(seg) /\ IsIdentity(segs[Len(segs)])
    THEN [segs EXCEPT ![Len(segs)] = Extended(@, seg)]
    ELSE Append(segs, seg)

-----------------------------------------------------------------------------
(* SpanMapBuilder: a pass hands over the text piece by piece, with keep,   *)
(* replace, numeral or absorb.  A call without source text does nothing.   *)
Call(op, src, dst, rule) == [op |-> op, src |-> src, dst |-> dst, rule |-> rule]
Keep(piece) == Call("keep", piece, piece, "none")
Replace(src, dst, rule) == Call("replace", src, dst, rule)
Numeral(src, dst, rule) == Call("numeral", src, dst, rule)
Absorb(src, rule) == Call("absorb", src, <<>>, rule)

AddCall(map, call) ==
    IF call.src = <<>> THEN map
    ELSE LET src == Span(SrcEnd(map), Move(SrcEnd(map), Size(call.src)))
             dst == Span(DstEnd(map), Move(DstEnd(map), Size(call.dst)))
         IN  IF call.op = "keep"
             THEN AppendSegment(map, Segment(src, dst, "identity", {}, 0))
             ELSE Append(map, Segment(src, dst, Classify(src, dst), {call.rule}, CharLen(src)))

(* finish: the table and the text that the calls describe.                 *)
Builder(calls) ==
    LET add(b) == LET call == calls[b.n + 1] IN
                  [n |-> b.n + 1, map |-> AddCall(b.map, call),
                   text |-> IF call.src = <<>> THEN b.text ELSE b.text \o call.dst]
    IN  Repeat(add, [n |-> 0, map |-> <<>>, text |-> <<>>], Len(calls))

BuildMap(calls) == Builder(calls).map
BuildText(calls) == Builder(calls).text

IdentityMap(text) == BuildMap(<<Keep(text)>>)

-----------------------------------------------------------------------------
(* backward_point and forward_point: the segment idx is in charge of p.    *)
Across(here, there, identity, p) ==
    IF Byte(p) = Byte(here.from) THEN there.from
    ELSE IF Byte(p) = Byte(here.to) THEN there.to
    ELSE IF identity /\ Byte(here.from) < Byte(p) /\ Byte(p) < Byte(here.to)
    THEN <<there.from[1] + p[1] - here.from[1], there.from[2] + p[2] - here.from[2]>>
    ELSE Nowhere

BackwardPoint(map, idx, p) ==
    IF idx > Len(map) THEN SrcEnd(map)
    ELSE Across(map[idx].dst, map[idx].src, IsIdentity(map[idx]), p)

ForwardPoint(map, idx, p) ==
    IF idx > Len(map) THEN DstEnd(map)
    ELSE Across(map[idx].src, map[idx].dst, IsIdentity(map[idx]), p)

-----------------------------------------------------------------------------
(* to_source: the source of a span of the normalised text.  Segments that  *)
(* only touch the span are left out.  Inside an identity segment the end   *)
(* of the span is mapped; any other segment is taken whole.                *)
Rules(map, K) == UNION {map[k].rules : k \in K}
Cost(map, K) == MapThenSumSet(LAMBDA k : map[k].cost, K)

(* Mutant of FirstCovered: a segment that ends where the span starts is    *)
(* taken in.                                                               *)
FirstTouched(map, p) == 1 + Cardinality({k \in DOMAIN map : Byte(map[k].dst.to) < Byte(p)})

(* partition_point: the segments before it come first, since both sides    *)
(* are in order.                                                           *)
FirstCovered(map, p) == 1 + Cardinality({k \in DOMAIN map : Byte(map[k].dst.to) <= Byte(p)})
LastCovered(map, p) == Cardinality({k \in DOMAIN map : Byte(map[k].dst.from) < Byte(p)})

ToSource(map, dst) ==
    LET lo == FirstCovered(map, dst.from)
        hi == LastCovered(map, dst.to)
        inLo == IsIdentity(map[lo]) /\ Byte(dst.from) > Byte(map[lo].dst.from)
        inHi == IsIdentity(map[hi]) /\ Byte(dst.to) < Byte(map[hi].dst.to)
        at == BackwardPoint(map, IF lo > Len(map) THEN Len(map) ELSE lo, dst.from)
    IN  IF map = <<>>
        THEN [span |-> EmptyAt(Origin), snapped |-> FALSE, rules |-> {}, cost |-> 0]
        ELSE IF lo > hi
        THEN [span |-> EmptyAt(IF at = Nowhere THEN SrcEnd(map) ELSE at),
              snapped |-> FALSE, rules |-> {}, cost |-> 0]
        ELSE [span |-> Span(IF inLo THEN BackwardPoint(map, lo, dst.from) ELSE map[lo].src.from,
                            IF inHi THEN BackwardPoint(map, hi, dst.to) ELSE map[hi].src.to),
              snapped |-> \/ ~inLo /\ Byte(dst.from) # Byte(map[lo].dst.from)
                          \/ ~inHi /\ Byte(dst.to) # Byte(map[hi].dst.to),
              rules |-> Rules(map, lo..hi), cost |-> Cost(map, lo..hi)]

-----------------------------------------------------------------------------
(* compose: inner takes A to B, outer takes B to C.  Both are walked from  *)
(* one point of B that may be cut on both sides to the next.               *)

(* A cut <<i, j>> is after segment i of inner or segment j of outer.  A    *)
(* boundary of one table may be used if the other has one there or an      *)
(* identity segment; otherwise the segments stay together.                 *)
Exhausted(inner, outer, cut) == cut[1] > Len(inner) \/ cut[2] > Len(outer)

InnerEnd(inner, cut) == inner[cut[1]].dst.to
OuterEnd(outer, cut) == outer[cut[2]].src.to

CutAt(inner, outer, cut) ==
    IF Byte(InnerEnd(inner, cut)) <= Byte(OuterEnd(outer, cut))
    THEN InnerEnd(inner, cut) ELSE OuterEnd(outer, cut)

MayCut(inner, outer, cut) ==
    LET ei == Byte(InnerEnd(inner, cut))
        ej == Byte(OuterEnd(outer, cut)) IN
    \/ ei = ej
    \/ ei < ej /\ IsIdentity(outer[cut[2]])
    \/ ei > ej /\ IsIdentity(inner[cut[1]])

Widen(inner, outer, cut) ==
    IF Exhausted(inner, outer, cut) \/ MayCut(inner, outer, cut) THEN cut
    ELSE IF Byte(InnerEnd(inner, cut)) < Byte(OuterEnd(outer, cut))
    THEN <<cut[1] + 1, cut[2]>>
    ELSE <<cut[1], cut[2] + 1>>

NextCut(inner, outer, i, j) ==
    LET widen(cut) == Widen(inner, outer, cut)
    IN  Repeat(widen, <<i, j>>, Len(inner) + Len(outer))

(* The segments inner[i..cut[1]] and outer[j..cut[2]], between b and at.   *)
Grouped(inner, outer, i, j, b, cut) ==
    LET at == CutAt(inner, outer, cut)
        src == Span(BackwardPoint(inner, i, b), BackwardPoint(inner, cut[1], at))
        dst == Span(ForwardPoint(outer, j, b), ForwardPoint(outer, cut[2], at))
        I == {k \in i..cut[1] : ~IsIdentity(inner[k])}
        J == {k \in j..cut[2] : ~IsIdentity(outer[k])}
    IN  Segment(src, dst, IF I = {} /\ J = {} THEN "identity" ELSE Classify(src, dst),
                Rules(inner, I) \cup Rules(outer, J), Cost(inner, I) + Cost(outer, J))

Ends(seg) == {seg.src.from, seg.src.to, seg.dst.from, seg.dst.to}

(* Mutant of PassOn: the rules and the cost are lost.                      *)
PassOnBare(seg, c) == Segment(seg.src, EmptyAt(c), "delete", {}, 0)

(* What inner deletes stays a segment of its own, so that a span next to   *)
(* it does not take it in.                                                 *)
PassOn(seg, c) == Segment(seg.src, EmptyAt(c), "delete", seg.rules, seg.cost)

(* The walk stands before inner[i] and outer[j], at the point b.           *)
Standing(i, j, b, map) == [ok |-> TRUE, i |-> i, j |-> j, b |-> b, map |-> map]

(* Err(SpanMapMismatch) *)
Mismatch == [ok |-> FALSE, i |-> 0, j |-> 0, b |-> Nowhere, map |-> <<>>]

PassDeleted(inner, outer, w) ==
    LET c == ForwardPoint(outer, w.j, w.b) IN
    IF c = Nowhere THEN Mismatch
    ELSE Standing(w.i + 1, w.j, w.b, Append(w.map, PassOn(inner[w.i], c)))

(* Segments that are used up are left; the others are identities.          *)
PassGroup(inner, outer, w) ==
    LET cut == NextCut(inner, outer, w.i, w.j)
        at == CutAt(inner, outer, cut)
        seg == Grouped(inner, outer, w.i, w.j, w.b, cut)
    IN  IF \/ Exhausted(inner, outer, <<w.i, w.j>>)
           \/ IsEmpty(outer[w.j].src) \/ Exhausted(inner, outer, cut) \/ Nowhere \in Ends(seg)
        THEN Mismatch
        ELSE Standing(IF Byte(InnerEnd(inner, cut)) <= Byte(at) THEN cut[1] + 1 ELSE cut[1],
                      IF Byte(OuterEnd(outer, cut)) <= Byte(at) THEN cut[2] + 1 ELSE cut[2],
                      at, AppendSegment(w.map, seg))

Walk(inner, outer, w) ==
    IF ~w.ok \/ (w.i > Len(inner) /\ w.j > Len(outer)) THEN w
    ELSE IF w.i <= Len(inner) /\ IsEmpty(inner[w.i].dst) THEN PassDeleted(inner, outer, w)
    ELSE PassGroup(inner, outer, w)

(* Every turn of the loop uses up a segment.                               *)
Compose(inner, outer) ==
    LET walk(w) == Walk(inner, outer, w) IN
    IF DstEnd(inner) # SrcEnd(outer) THEN Mismatch
    ELSE Repeat(walk, Standing(1, 1, Origin, <<>>), Len(inner) + Len(outer))

-----------------------------------------------------------------------------
(* validate *)
Contiguous(map) ==
    \A i \in DOMAIN map :
        /\ map[i].src.from = IF i = 1 THEN Origin ELSE map[i - 1].src.to
        /\ map[i].dst.from = IF i = 1 THEN Origin ELSE map[i - 1].dst.to

ValidSegment(seg) ==
    /\ \A s \in {seg.src, seg.dst} : ByteLen(s) >= 0 /\ CharLen(s) >= 0
    /\ ~IsEmpty(seg.src)
    /\ CASE seg.kind = "identity" ->
                /\ ByteLen(seg.src) = ByteLen(seg.dst) /\ CharLen(seg.src) = CharLen(seg.dst)
                /\ seg.rules = {} /\ seg.cost = 0
         [] seg.kind = "delete" -> IsEmpty(seg.dst)
         [] seg.kind = "expand" -> CharLen(seg.dst) > CharLen(seg.src)
         [] seg.kind = "replace" -> ~IsEmpty(seg.dst)

Valid(map) ==
    /\ Contiguous(map)
    /\ \A i \in DOMAIN map : ValidSegment(map[i])
=============================================================================
