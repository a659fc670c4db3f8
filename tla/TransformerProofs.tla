------------------------- MODULE TransformerProofs -------------------------
(***************************************************************************)
(* Proofs about the two transformers of text.                              *)
(*                                                                         *)
(* normalize (rust_pii_transformer) keeps a valid table of every text,     *)
(* whichever passes are switched on.                                       *)
(*                                                                         *)
(* Masking (rust_pii_transformer) is right for every text, every set of    *)
(* findings, however they overlap, and every policy set.                   *)
(*                                                                         *)
(* The chunks of Chunker (rust_markdown_transformer) cover every document, *)
(* carry the right heading paths and keep the limits, whatever those and   *)
(* the splitting levels are.  How many tokens a chunk has plays no part in *)
(* the first two.                                                          *)
(***************************************************************************)
EXTENDS Masking, Chunker, Normalization, SpanMapProofs, DataInduction, SequenceTheorems, TLAPS

(* Masking.                                                                *)

(* What the loop of mask_findings keeps: the cursor is the end of the last *)
(* finding applied, and no finding that is left begins before one that was *)
(* applied.                                                                *)
LoopInv ==
    /\ stage = "idle" => out = <<>> /\ applied = {} /\ skipped = {} /\ left = {} /\ cursor = 0
    /\ stage # "masked" => cursor = 0 \/ \E g \in applied : g.to = cursor
    /\ stage = "masking" => cursor <= length
    /\ \A g \in applied, f \in left : g.from <= f.from

(* Every finding lies within one that is still to be looked at or that has *)
(* been applied or skipped.                                                *)
Within(f, g) == g.from <= f.from /\ f.to <= g.to

CoverInv ==
    /\ stage = "idle" => found = {}
    /\ stage = "masked" => left = {}
    /\ \A f \in found : \E g \in left \cup applied \cup skipped : Within(f, g)

MaskInv ==
    /\ MaskTypeOK /\ LoopInv /\ OutsideUntouched /\ SkippedForCause /\ TokensHaveEntries
    /\ CoverInv

-----------------------------------------------------------------------------
(* The sequence of pieces, two longer.                                     *)
LEMMA TwoMore ==
    ASSUME NEW s \in Seq(Pieces), NEW a \in Pieces, NEW b \in Pieces
    PROVE  LET t == s \o <<a, b>> IN
           /\ t \in Seq(Pieces) /\ Len(t) = Len(s) + 2 /\ DOMAIN t = 1..(Len(s) + 2)
           /\ \A k \in 1..Len(s) : t[k] = s[k]
           /\ t[Len(s) + 1] = a /\ t[Len(s) + 2] = b
<1>1. <<a, b>> \in Seq(Pieces) /\ Len(<<a, b>>) = 2
  OBVIOUS
<1> QED
  BY <1>1

LEMMA FindingsTyped ==
    ASSUME NEW f \in Findings
    PROVE  f.from \in Nat /\ f.to \in Nat /\ f.at \in Nat /\ f.entity \in Entities
  BY MaskingAssumption

LEMMA MaskInitHolds == MaskInit => MaskInv
  BY DEF MaskInit, MaskInv, CoverInv, MaskTypeOK, LoopInv, OutsideUntouched, PiecesTile,
         OnlyFindingsReplaced, SkippedForCause, TokensHaveEntries

(* What drop_contained drops lies within a finding that it keeps: the      *)
(* widest of those that hold it.                                           *)
LEMMA DroppedIsWithin ==
    ASSUME NEW fs \in SUBSET Findings, IsFiniteSet(fs), NEW f \in fs
    PROVE  \E g \in DropContained(fs) : Within(f, g)
<1> DEFINE H == {g \in fs : Within(f, g)}
           room == [g \in H |-> (f.from - g.from) + (g.to - f.to)]
<1>1. \A g \in fs : g.from \in Nat /\ g.to \in Nat
  BY FindingsTyped
<1>2. IsFiniteSet(H) /\ f \in H
  <2>1. H \subseteq fs
    OBVIOUS
  <2> QED BY <1>1, <2>1, FS_Subset DEF Within
<1>3. \A g \in H : room[g] = (f.from - g.from) + (g.to - f.to) /\ room[g] \in Nat
  BY <1>1 DEF Within
<1>4. PICK i \in {0} \cup {room[g] : g \in H} : \A g \in H : room[g] <= i
  <2> HIDE DEF H, room
  <2> QED BY <1>2, <1>3, LargestExists
<1>5. PICK g \in H : \A h \in H : room[h] <= room[g]
  <2>1. CASE i \in {room[g] : g \in H}
    BY <1>4, <2>1
  <2>2. CASE i = 0
    <3>1. room[f] \in Nat /\ room[f] <= 0
      BY <1>2, <1>3, <1>4, <2>2
    <3>2. \A h \in H : room[h] <= room[f]
      BY <1>2, <1>3, <1>4, <2>2, <3>1
    <3> QED BY <1>2, <3>2
  <2> QED BY <1>4, <2>1, <2>2
<1>6. ASSUME NEW h \in fs, h.from <= g.from, g.to <= h.to, h.to - h.from > g.to - g.from
      PROVE  FALSE
  <2>1. h \in H
    BY <1>1, <1>6 DEF Within
  <2>2. room[h] <= room[g]
    BY <1>5, <2>1
  <2> QED BY <1>1, <1>3, <1>6, <2>1, <2>2
<1> QED BY <1>6 DEF DropContained, Swallowed

LEMMA BeginHolds ==
    ASSUME MaskInv, NEW n \in Lengths, NEW fs \in SUBSET Findings, NEW tokenize \in Policies,
           IsFiniteSet(fs), NEW given \in {fs, DropContained(fs)},
           BeginMask(n, fs, given, tokenize)
    PROVE  MaskInv'
<1>1. n \in Nat /\ tokenize \subseteq Entities /\ given \subseteq fs
  BY MaskingAssumption DEF DropContained
<1>2. ASSUME NEW f \in fs PROVE \E g \in given : Within(f, g)
  <2>1. Within(f, f)
    BY FindingsTyped DEF Within
  <2> QED BY <2>1, DroppedIsWithin
<1>3. CoverInv'
  BY <1>2 DEF BeginMask, CoverInv, Within
<1> QED
  BY <1>1, <1>3 DEF BeginMask, MaskInv, MaskTypeOK, LoopInv, OutsideUntouched, PiecesTile,
              OnlyFindingsReplaced, SkippedForCause, TokensHaveEntries

(* A finding is passed over because it does not fit or because an applied  *)
(* one, which begins no later, ends after its start.                       *)
LEMMA SkipHolds ==
    ASSUME MaskInv, NEW f \in left, SkipFinding(f)
    PROVE  MaskInv'
<1> USE DEF SkipFinding, IsNext, MaskInv
<1>1. f \in Findings /\ f.from \in Nat /\ f.to \in Nat
  BY FindingsTyped DEF MaskTypeOK
<1>2. MaskTypeOK'
  BY <1>1 DEF MaskTypeOK
<1>3. LoopInv'
  BY DEF LoopInv
<1>4. OutsideUntouched'
  BY DEF OutsideUntouched, PiecesTile, OnlyFindingsReplaced
<1>5. \/ f.to > length \/ f.from > f.to
      \/ \E g \in applied : g.from <= f.from /\ f.from < g.to
  <2>1. CASE f.from < cursor
    <3>1. PICK g \in applied : g.to = cursor
      BY <1>1, <2>1 DEF LoopInv, MaskTypeOK
    <3> QED
      BY <3>1, <2>1 DEF LoopInv
  <2> QED
    BY <2>1 DEF OutOfPlace
<1>6. SkippedForCause'
  BY <1>5 DEF SkippedForCause
<1>7. TokensHaveEntries'
  BY DEF TokensHaveEntries
<1>8. CoverInv'
  BY DEF CoverInv, Within
<1> QED
  BY <1>2, <1>3, <1>4, <1>6, <1>7, <1>8

(* A finding is applied: what lies before it is copied, and it gets a      *)
(* placeholder or a token.                                                 *)
LEMMA ApplyHolds ==
    ASSUME MaskInv, NEW f \in left, ApplyFinding(f)
    PROVE  MaskInv'
<1> USE DEF MaskInv
<1>1. f \in Findings /\ f.from \in Nat /\ f.to \in Nat /\ f.entity \in Entities
  BY FindingsTyped DEF MaskTypeOK
<1>2. cursor \in Nat /\ length \in Nat /\ out \in Seq(Pieces) /\ Len(out) \in Nat
      /\ entries \in Seq([from : Nat, to : Nat]) /\ Len(entries) \in Nat
  BY DEF MaskTypeOK
<1>3. stage = "masking" /\ cursor <= f.from /\ f.from <= f.to /\ f.to <= length
  BY <1>1, <1>2 DEF ApplyFinding, IsNext, OutOfPlace
<1>4. Copy(cursor, f.from) \in Pieces /\ Label(f) \in Pieces
      /\ Token(f, Len(entries) + 1) \in Pieces
  BY <1>1, <1>2 DEF Copy, Label, Token, Pieces
<1>5. PICK b \in Pieces :
        /\ out' = out \o <<Copy(cursor, f.from), b>>
        /\ b.kind # "copy" /\ b.from = f.from /\ b.to = f.to
        /\ \/ /\ b.kind = "label" /\ entries' = entries
           \/ /\ b.kind = "token" /\ b.entry = Len(entries) + 1
              /\ entries' = Append(entries, [from |-> f.from, to |-> f.to])
  <2>1. CASE f.entity \in policy
    BY <1>4, <2>1 DEF ApplyFinding, Token
  <2>2. CASE f.entity \notin policy
    BY <1>4, <2>2 DEF ApplyFinding, Label
  <2> QED
    BY <2>1, <2>2
<1> DEFINE n == Len(out)
<1>6. /\ out' \in Seq(Pieces) /\ Len(out') = n + 2 /\ DOMAIN out' = 1..(n + 2)
      /\ \A k \in 1..n : out'[k] = out[k]
      /\ out'[n + 1] = Copy(cursor, f.from) /\ out'[n + 2] = b
  BY <1>2, <1>4, <1>5, TwoMore
<1>7. DOMAIN out = 1..n
  BY <1>2
<1>8. /\ applied' = applied \cup {f} /\ left' = left \ {f} /\ cursor' = f.to
      /\ UNCHANGED <<stage, length, policy, found, skipped>>
  BY DEF ApplyFinding
<1>9. entries' \in Seq([from : Nat, to : Nat])
  <2>1. [from |-> f.from, to |-> f.to] \in [from : Nat, to : Nat]
    BY <1>1
  <2>2. \A e \in [from : Nat, to : Nat] : Append(entries, e) \in Seq([from : Nat, to : Nat])
    BY <1>2
  <2> QED
    BY <1>2, <1>5, <2>1, <2>2
<1>10. MaskTypeOK'
  BY <1>1, <1>6, <1>8, <1>9 DEF MaskTypeOK
<1>11. \A g \in left : f.from <= g.from
  <2> SUFFICES ASSUME NEW g \in left PROVE f.from <= g.from
    OBVIOUS
  <2>1. g.from \in Nat
    BY FindingsTyped DEF MaskTypeOK
  <2> QED
    BY <1>1, <2>1 DEF ApplyFinding, IsNext, NotAfter
<1>12. LoopInv'
  BY <1>3, <1>8, <1>11 DEF LoopInv
<1>13. PiecesTile'
  <2>1. (Copy(cursor, f.from)).from = cursor /\ (Copy(cursor, f.from)).to = f.from
    BY DEF Copy
  <2>2. out'[1].from = 0 /\ out' # <<>> /\ out'[Len(out')].to = cursor'
    <3>1. CASE n = 0
      BY <1>2, <1>5, <1>6, <1>7, <1>8, <2>1, <3>1 DEF OutsideUntouched, PiecesTile
    <3>2. CASE n # 0
      BY <1>2, <1>5, <1>6, <1>7, <1>8, <3>2 DEF OutsideUntouched, PiecesTile
    <3> QED
      BY <3>1, <3>2
  <2>3. \A k \in 1..(n + 2) : out'[k].from <= out'[k].to
    <3> TAKE k \in 1..(n + 2)
    <3>1. CASE k \in 1..n
      BY <1>6, <1>7, <3>1 DEF OutsideUntouched, PiecesTile
    <3>2. CASE k = n + 1
      BY <1>3, <1>6, <2>1, <3>2
    <3>3. CASE k = n + 2
      BY <1>3, <1>5, <1>6, <3>3
    <3> QED
      BY <1>2, <3>1, <3>2, <3>3
  <2>4. \A k \in 1..(n + 1) : out'[k + 1].from = out'[k].to
    <3> TAKE k \in 1..(n + 1)
    <3>1. CASE k \in 1..(n - 1)
      <4>1. k \in 1..n /\ k + 1 \in 1..n
        BY <1>2, <3>1
      <4> QED
        BY <1>6, <3>1, <4>1 DEF OutsideUntouched, PiecesTile
    <3>2. CASE k = n /\ n # 0
      <4>1. out # <<>> /\ n \in 1..n
        BY <1>2, <3>2
      <4> QED
        BY <1>6, <2>1, <3>2, <4>1 DEF OutsideUntouched, PiecesTile
    <3>3. CASE k = n + 1
      BY <1>2, <1>5, <1>6, <2>1, <3>3
    <3> QED
      BY <1>2, <3>1, <3>2, <3>3
  <2> QED
    BY <1>2, <1>6, <2>2, <2>3, <2>4 DEF PiecesTile
<1>14. OnlyFindingsReplaced'
  <2>1. \A k \in DOMAIN out' : out'[k].kind # "copy" =>
            \E g \in applied' : SamePlace(out'[k], g)
    <3> SUFFICES ASSUME NEW k \in 1..(n + 2), out'[k].kind # "copy"
                 PROVE  \E g \in applied' : SamePlace(out'[k], g)
      BY <1>6
    <3>1. CASE k \in 1..n
      BY <1>6, <1>7, <1>8, <3>1 DEF OutsideUntouched, OnlyFindingsReplaced
    <3>2. CASE k = n + 1
      BY <1>6, <3>2 DEF Copy
    <3>3. CASE k = n + 2
      BY <1>5, <1>6, <1>8, <3>3 DEF SamePlace
    <3>4. k \in 1..n \/ k = n + 1 \/ k = n + 2
      BY <1>2
    <3> QED
      BY <3>1, <3>2, <3>3, <3>4
  <2>2. \A g \in applied' : \E k \in DOMAIN out' : out'[k].kind # "copy" /\ SamePlace(out'[k], g)
    <3> TAKE g \in applied'
    <3>1. CASE g \in applied
      <4>1. PICK k \in 1..n : out[k].kind # "copy" /\ SamePlace(out[k], g)
        BY <1>7, <3>1 DEF OutsideUntouched, OnlyFindingsReplaced
      <4>2. k \in 1..(n + 2)
        BY <1>2
      <4> QED
        BY <1>6, <4>1, <4>2
    <3>2. CASE g = f
      <4>1. n + 2 \in 1..(n + 2)
        BY <1>2
      <4> QED
        BY <1>5, <1>6, <3>2, <4>1 DEF SamePlace
    <3> QED
      BY <1>8, <3>1, <3>2
  <2> QED
    BY <2>1, <2>2 DEF OnlyFindingsReplaced
<1>15. OutsideUntouched'
  BY <1>3, <1>8, <1>13, <1>14 DEF OutsideUntouched
<1>16. SkippedForCause'
  BY <1>8 DEF SkippedForCause
<1>17. TokensHaveEntries'
  <2> DEFINE old == 1..Len(entries)
  <2>1. /\ DOMAIN entries = old /\ old \subseteq DOMAIN entries'
        /\ \A e \in old : entries'[e] = entries[e]
        /\ \A e \in DOMAIN entries' : e \in old \/ (e = Len(entries) + 1 /\ b.kind = "token")
    <3>1. DOMAIN entries = old
      BY <1>2
    <3>2. CASE b.kind = "label" /\ entries' = entries
      BY <3>1, <3>2
    <3>3. CASE b.kind = "token" /\ entries' = Append(entries, [from |-> f.from, to |-> f.to])
      <4> DEFINE e == [from |-> f.from, to |-> f.to]
      <4>1. e \in [from : Nat, to : Nat]
        BY <1>1
      <4> HIDE DEF e
      <4>2. entries' = Append(entries, e)
        BY <3>3 DEF e
      <4>3. DOMAIN entries' = 1..(Len(entries) + 1) /\ \A i \in old : entries'[i] = entries[i]
        BY <1>2, <4>1, <4>2
      <4> QED
        BY <1>2, <3>1, <3>3, <4>3
    <3> QED
      BY <1>5, <3>2, <3>3
  <2>2. \A k \in DOMAIN out' : out'[k].kind = "token" =>
            out'[k].entry \in DOMAIN entries' /\ SamePlace(out'[k], entries'[out'[k].entry])
    <3> SUFFICES ASSUME NEW k \in 1..(n + 2), out'[k].kind = "token"
                 PROVE  out'[k].entry \in DOMAIN entries'
                        /\ SamePlace(out'[k], entries'[out'[k].entry])
      BY <1>6
    <3>1. CASE k \in 1..n
      BY <1>6, <1>7, <2>1, <3>1 DEF TokensHaveEntries
    <3>2. CASE k = n + 1
      BY <1>6, <3>2 DEF Copy
    <3>3. CASE k = n + 2
      <4>1. b.kind = "token"
        BY <1>6, <3>3
      <4>2. entries' = Append(entries, [from |-> f.from, to |-> f.to]) /\ b.entry = Len(entries) + 1
        BY <1>5, <4>1
      <4>3. b.entry \in DOMAIN entries' /\ entries'[b.entry] = [from |-> f.from, to |-> f.to]
        BY <1>2, <4>2
      <4> QED
        BY <1>5, <1>6, <3>3, <4>3 DEF SamePlace
    <3>4. k \in 1..n \/ k = n + 1 \/ k = n + 2
      BY <1>2
    <3> HIDE DEF MaskInv
    <3> QED
      BY <3>1, <3>2, <3>3, <3>4, Zenon
  <2>3. \A e \in DOMAIN entries' :
            \E k \in DOMAIN out' : out'[k].kind = "token" /\ out'[k].entry = e
    <3> TAKE e \in DOMAIN entries'
    <3>1. CASE e \in old
      <4>1. PICK k \in 1..n : out[k].kind = "token" /\ out[k].entry = e
        BY <1>7, <2>1, <3>1 DEF TokensHaveEntries
      <4>2. k \in 1..(n + 2)
        BY <1>2
      <4> QED
        BY <1>6, <4>1, <4>2
    <3>2. CASE e = Len(entries) + 1 /\ b.kind = "token"
      <4>1. n + 2 \in 1..(n + 2)
        BY <1>2
      <4> QED
        BY <1>5, <1>6, <3>2, <4>1
    <3> QED
      BY <2>1, <3>1, <3>2
  <2> QED
    BY <2>2, <2>3 DEF TokensHaveEntries
<1>18. CoverInv'
  BY DEF ApplyFinding, IsNext, CoverInv, Within
<1> QED
  BY <1>10, <1>12, <1>15, <1>16, <1>17, <1>18

(* The rest of the text is copied.                                         *)
LEMMA FinishHolds ==
    ASSUME MaskInv, FinishMask
    PROVE  MaskInv'
<1> USE DEF MaskInv
<1>1. cursor \in Nat /\ length \in Nat /\ out \in Seq(Pieces) /\ Len(out) \in Nat
  BY DEF MaskTypeOK
<1> DEFINE n == Len(out)
           c == Copy(cursor, length)
<1>2. c \in Pieces /\ c.kind = "copy" /\ c.from = cursor /\ c.to = length
  BY <1>1 DEF Copy, Pieces
<1>3. stage = "masking" /\ cursor <= length
  BY DEF FinishMask, LoopInv
<1>4. /\ out' = Append(out, c) /\ cursor' = length /\ stage' = "masked"
      /\ UNCHANGED <<length, policy, found, left, applied, skipped, entries>>
  BY DEF FinishMask
<1> HIDE DEF c
<1>5. /\ out' \in Seq(Pieces) /\ Len(out') = n + 1 /\ DOMAIN out' = 1..(n + 1)
      /\ \A k \in 1..n : out'[k] = out[k]
      /\ out'[n + 1] = c /\ DOMAIN out = 1..n
  BY <1>1, <1>2, <1>4
<1>6. MaskTypeOK'
  BY <1>1, <1>4, <1>5 DEF MaskTypeOK
<1>7. LoopInv'
  BY <1>4 DEF LoopInv
<1>8. PiecesTile'
  <2>1. out'[1].from = 0 /\ out' # <<>> /\ out'[Len(out')].to = cursor'
    <3>1. CASE n = 0
      BY <1>1, <1>2, <1>4, <1>5, <3>1 DEF OutsideUntouched, PiecesTile
    <3>2. CASE n # 0
      BY <1>1, <1>2, <1>4, <1>5, <3>2 DEF OutsideUntouched, PiecesTile
    <3> QED
      BY <3>1, <3>2
  <2>2. \A k \in 1..(n + 1) : out'[k].from <= out'[k].to
    <3>1. \A k \in 1..n : out[k].from <= out[k].to
      BY <1>5 DEF OutsideUntouched, PiecesTile
    <3> HIDE DEF MaskInv
    <3> TAKE k \in 1..(n + 1)
    <3>2. k \in 1..n \/ k = n + 1
      BY <1>1
    <3> QED
      BY <1>2, <1>3, <1>5, <3>1, <3>2
  <2>3. \A k \in 1..n : out'[k + 1].from = out'[k].to
    <3> TAKE k \in 1..n
    <3>1. CASE k \in 1..(n - 1)
      <4>1. k + 1 \in 1..n
        BY <1>1, <3>1
      <4> QED
        BY <1>5, <3>1, <4>1 DEF OutsideUntouched, PiecesTile
    <3>2. CASE k = n
      <4>1. out # <<>>
        BY <1>1, <3>2
      <4> QED
        BY <1>2, <1>5, <3>2, <4>1 DEF OutsideUntouched, PiecesTile
    <3> QED
      BY <1>1, <3>1, <3>2
  <2> QED
    BY <1>1, <1>5, <2>1, <2>2, <2>3 DEF PiecesTile
<1>9. OnlyFindingsReplaced'
  BY <1>1, <1>2, <1>4, <1>5 DEF OutsideUntouched, OnlyFindingsReplaced, SamePlace
<1>10. OutsideUntouched'
  BY <1>4, <1>8, <1>9 DEF OutsideUntouched
<1>11. SkippedForCause'
  BY <1>4 DEF SkippedForCause
<1>12. TokensHaveEntries'
  BY <1>1, <1>2, <1>4, <1>5 DEF TokensHaveEntries, SamePlace
<1>13. CoverInv'
  BY DEF FinishMask, CoverInv, Within
<1> QED
  BY <1>6, <1>7, <1>10, <1>11, <1>12, <1>13

-----------------------------------------------------------------------------
LEMMA MaskInvHolds == MaskSpec => []MaskInv
<1>1. MaskInv /\ [MaskNext]_mvars => MaskInv'
  <2> SUFFICES ASSUME MaskInv, [MaskNext]_mvars PROVE MaskInv'
    OBVIOUS
  <2>1. CASE UNCHANGED mvars
    BY <2>1 DEF mvars, MaskInv, CoverInv, Within, MaskTypeOK, LoopInv, OutsideUntouched, PiecesTile,
                OnlyFindingsReplaced, SkippedForCause, TokensHaveEntries
  <2>2. CASE MaskNext
    BY <2>2, BeginHolds, SkipHolds, ApplyHolds, FinishHolds DEF MaskNext, MaskStep
  <2> QED
    BY <2>1, <2>2
<1> QED
  BY <1>1, MaskInitHolds, PTL DEF MaskSpec

(* The findings, the pieces and the entries of mask_findings have their    *)
(* types, for every text and every set of findings.                        *)
THEOREM MaskTypes == MaskSpec => []MaskTypeOK
  BY MaskInvHolds, PTL DEF MaskInv

(* mask/mod.rs:11 for every set of findings, overlapping ones included:    *)
(* the result is the source text with the applied findings, and nothing    *)
(* else, replaced, and no byte is lost or doubled.                         *)
THEOREM NothingElseIsReplaced == MaskSpec => []OutsideUntouched
  BY MaskInvHolds, PTL DEF MaskInv

(* MaskOutput.skipped holds only findings outside the text and findings    *)
(* whose start lies inside one that was applied.                           *)
THEOREM SkipsHaveACause == MaskSpec => []SkippedForCause
  BY MaskInvHolds, PTL DEF MaskInv

(* For every finite set of findings, whatever drop_contained drops and     *)
(* whatever mask_findings skips: each finding lies within one that was     *)
(* applied or is listed as skipped, and what is skipped is so for a cause. *)
THEOREM NoFindingIsLost == MaskSpec => []NothingLeaks
<1>1. MaskInv => NothingLeaks
  BY DEF MaskInv, CoverInv, Within, NothingLeaks
<1> QED BY <1>1, MaskInvHolds, PTL

(* RestoreMap has exactly the entries of the tokens in the result, each    *)
(* with the place the token stands for.                                    *)
THEOREM EveryTokenCanBeRestored == MaskSpec => []TokensHaveEntries
  BY MaskInvHolds, PTL DEF MaskInv

-----------------------------------------------------------------------------
(* Chunker.                                                                *)

(* The path gets deeper from heading to heading.                           *)
Deepens(p) == \A m, n \in DOMAIN p : m < n => Level(p[m]) < Level(p[n])

PathInv == path \in Seq(Nat) /\ IsPathOf(path, done) /\ Deepens(path)

(* What has been gathered holds no splitting heading behind its first      *)
(* block, and it ends behind every chunk.                                  *)
CurInv ==
    /\ \A k \in (first + 1)..done : ~Splits(k)
    /\ IsSeq(chunks)
    /\ \A i \in DOMAIN chunks :
        /\ chunks[i].from \in 1..first /\ chunks[i].to \in 1..done
        /\ ~returned => chunks[i].to < done

(* A chunk has the path of its last block, or, closed by a heading that    *)
(* does not split, the path of that heading: what the code does with every *)
(* chunk, of which PathsTrue is the part that is meant to hold.            *)
PathTrue(i) ==
    LET c == chunks[i] IN
    \/ IsPathOf(c.path, c.to)
    \/ /\ c.to < done /\ IsHeading(c.to + 1) /\ ~Splits(c.to + 1)
       /\ IsPathOf(c.path, c.to + 1)

AllPaths == \A i \in DOMAIN chunks : PathTrue(i)

ChunkInv == TypeOK /\ PathInv /\ CurInv /\ ChunksCover /\ AllPaths

-----------------------------------------------------------------------------
LEMMA BlockTyped ==
    ASSUME TypeOK
    PROVE  /\ Len(doc) \in Nat /\ done \in Nat /\ first \in Nat
           /\ DOMAIN doc = 1..Len(doc) /\ \A k \in 1..Len(doc) : Level(k) \in Nat
<1>1. doc \in Seq([level : Nat, tokens : Nat])
  BY ChunkerAssumption DEF TypeOK
<1>2. Len(doc) \in Nat /\ DOMAIN doc = 1..Len(doc)
  BY <1>1
<1>3. done \in Nat /\ first \in Nat
  BY <1>2 DEF TypeOK
<1>4. \A k \in 1..Len(doc) : Level(k) \in Nat
  <2> DEFINE B == [level : Nat, tokens : Nat]
  <2>1. \A b \in B : b.level \in Nat
    OBVIOUS
  <2> HIDE DEF B
  <2>2. doc \in Seq(B)
    BY <1>1 DEF B
  <2>3. \A k \in 1..Len(doc) : doc[k] \in B
    BY <2>2
  <2> QED
    BY <2>1, <2>3 DEF Level
<1> QED
  BY <1>2, <1>3, <1>4

(* path_stack, popped and pushed, is the path of the next block.           *)
LEMMA PathStep ==
    ASSUME TypeOK, PathInv, done < Len(doc), NEW p, PathWith(done + 1, p)
    PROVE  p \in Seq(Nat) /\ IsPathOf(p, done + 1) /\ Deepens(p)
<1> DEFINE k == done + 1
<1>1. /\ done \in Nat /\ k \in 1..Len(doc) /\ Len(doc) \in Nat
      /\ \A j \in 1..k : j \in 1..Len(doc) /\ Level(j) \in Nat
  BY BlockTyped DEF TypeOK
<1>2. /\ path \in Seq(Nat) /\ Len(path) \in Nat /\ DOMAIN path = 1..Len(path)
      /\ \A m \in 1..Len(path) : path[m] \in Ancestors(done) /\ path[m] \in 1..done
      /\ \A j \in Ancestors(done) : \E m \in 1..Len(path) : path[m] = j
  BY DEF PathInv, IsPathOf, Ancestors
<1>3. CASE ~IsHeading(k)
  <2>1. p = path
    BY <1>3 DEF PathWith
  <2>2. Ancestors(k) = Ancestors(done)
    BY <1>1, <1>3 DEF Ancestors
  <2> QED
    BY <2>1, <2>2 DEF PathInv, IsPathOf
<1>4. CASE IsHeading(k)
  <2>1. PICK n \in 0..Len(path) : Popped(n, Level(k)) /\ p = Append(SubSeq(path, 1, n), k)
    BY <1>4 DEF PathWith
  <2>2. /\ p \in Seq(Nat) /\ Len(p) = n + 1 /\ DOMAIN p = 1..(n + 1)
        /\ \A m \in 1..n : p[m] = path[m]
        /\ p[n + 1] = k
    <3>1. /\ SubSeq(path, 1, n) \in Seq(Nat) /\ Len(SubSeq(path, 1, n)) = n
          /\ \A m \in 1..n : SubSeq(path, 1, n)[m] = path[m]
      BY <1>2
    <3> QED
      BY <1>1, <2>1, <3>1
  <2>3. \A m \in 1..n : m \in 1..Len(path) /\ Level(path[m]) < Level(k)
    <3> TAKE m \in 1..n
    <3>1. m \in 1..Len(path) /\ n \in 1..Len(path) /\ Level(path[n]) < Level(k)
      BY <1>2, <2>1 DEF Popped
    <3>2. Level(path[m]) \in Nat /\ Level(path[n]) \in Nat /\ Level(k) \in Nat
      BY <1>1, <1>2, <3>1
    <3>3. m < n => Level(path[m]) < Level(path[n])
      BY <1>2, <3>1 DEF PathInv, Deepens
    <3> QED
      BY <3>1, <3>2, <3>3
  <2>4. \A j \in Ancestors(done) : Level(j) < Level(k) => \E m \in 1..n : path[m] = j
    <3> SUFFICES ASSUME NEW j \in Ancestors(done), Level(j) < Level(k)
                 PROVE  \E m \in 1..n : path[m] = j
      OBVIOUS
    <3>1. PICK m \in 1..Len(path) : path[m] = j
      BY <1>2
    <3>2. Level(j) \in Nat /\ Level(k) \in Nat
      BY <1>1 DEF Ancestors
    <3>3. ~(m \in (n + 1)..Len(path))
      BY <2>1, <3>1, <3>2 DEF Popped
    <3>4. m \in 1..n
      BY <1>2, <3>3
    <3> QED
      BY <3>1, <3>4
  <2>5. \A j \in 1..k : j \in Ancestors(k) <=> (j = k \/ (j \in Ancestors(done) /\ Level(j) < Level(k)))
    <3> TAKE j \in 1..k
    <3>1. CASE j = k
      BY <1>1, <1>4, <3>1 DEF Ancestors
    <3>2. CASE j # k
      <4>1. j \in 1..done /\ k \in (j + 1)..k /\ (j + 1)..k = ((j + 1)..done) \cup {k}
        BY <1>1, <3>2
      <4>2. j \in Ancestors(done) => IsHeading(j)
        BY DEF Ancestors
      <4> QED
        BY <1>1, <1>4, <3>2, <4>1, <4>2 DEF Ancestors
    <3> QED
      BY <3>1, <3>2
  <2>6. /\ \A m \in DOMAIN p : p[m] \in Ancestors(k)
        /\ \A j \in Ancestors(k) : \E m \in DOMAIN p : p[m] = j
    <3>1. ASSUME NEW m \in DOMAIN p PROVE p[m] \in Ancestors(k)
      <4>1. CASE m = n + 1
        BY <1>1, <2>2, <2>5, <4>1
      <4>2. CASE m # n + 1
        <5>1. m \in 1..n
          BY <2>2, <4>2
        <5>2. path[m] \in Ancestors(done) /\ path[m] \in 1..k /\ Level(path[m]) < Level(k)
          BY <1>1, <1>2, <2>3, <5>1, SMTT(30)
        <5> QED
          BY <2>2, <2>5, <5>1, <5>2
      <4> QED
        BY <4>1, <4>2
    <3>2. ASSUME NEW j \in Ancestors(k) PROVE \E m \in DOMAIN p : p[m] = j
      <4>1. j \in 1..k
        BY DEF Ancestors
      <4>2. CASE j = k
        BY <2>2, <4>2
      <4>3. CASE j # k
        <5>1. PICK m \in 1..n : path[m] = j
          BY <2>4, <2>5, <4>1, <4>3
        <5>2. m \in DOMAIN p /\ p[m] = j
          BY <2>2, <5>1
        <5> QED
          BY <5>2
      <4> QED
        BY <4>2, <4>3
    <3> QED
      BY <3>1, <3>2
  <2>7. \A m, r \in DOMAIN p : m < r => p[m] < p[r] /\ Level(p[m]) < Level(p[r])
    <3> SUFFICES ASSUME NEW m \in 1..(n + 1), NEW r \in 1..(n + 1), m < r
                 PROVE  p[m] < p[r] /\ Level(p[m]) < Level(p[r])
      BY <2>2
    <3>1. m \in 1..n /\ m \in 1..Len(path) /\ p[m] = path[m]
      BY <1>2, <2>2
    <3>2. CASE r = n + 1
      BY <1>1, <1>2, <2>2, <2>3, <3>1, <3>2
    <3>3. CASE r # n + 1
      <4>1. r \in 1..n /\ r \in 1..Len(path) /\ p[r] = path[r]
        BY <1>2, <2>2, <3>3
      <4> QED
        BY <1>2, <3>1, <4>1 DEF PathInv, IsPathOf, Deepens
    <3> QED
      BY <3>2, <3>3
  <2> QED
    BY <2>2, <2>6, <2>7 DEF IsPathOf, Deepens
<1> QED
  BY <1>3, <1>4

(* Which headings a block lies under does not change.                      *)
LEMMA PathOfStays == doc' = doc => \A p, k : IsPathOf(p, k)' <=> IsPathOf(p, k)
  BY DEF IsPathOf, Ancestors, IsHeading, Level

(* A path that is right stays right while blocks are added.                *)
LEMMA PathsStay ==
    ASSUME TypeOK, CurInv, AllPaths, UNCHANGED <<doc, chunker, chunks>>,
           done' \in Nat, done <= done'
    PROVE  AllPaths'
<1>1. done \in Nat /\ \A i \in DOMAIN chunks : chunks[i].to \in Nat
  BY BlockTyped DEF CurInv
<1> SUFFICES ASSUME NEW i \in DOMAIN chunks PROVE PathTrue(i)'
  BY DEF AllPaths, PathTrue
<1>2. PathTrue(i) /\ chunks[i].to \in Nat
  BY <1>1 DEF AllPaths, PathTrue
<1>3. CASE IsPathOf(chunks[i].path, chunks[i].to)
  BY <1>3, PathOfStays DEF PathTrue
<1>4. CASE /\ chunks[i].to < done /\ IsHeading(chunks[i].to + 1) /\ ~Splits(chunks[i].to + 1)
           /\ IsPathOf(chunks[i].path, chunks[i].to + 1)
  <2>1. chunks[i].to < done'
    BY <1>1, <1>2, <1>4
  <2> QED
    BY <1>2, <1>4, <2>1, PathOfStays DEF PathTrue, Splits, IsHeading, Level
<1> QED
  BY <1>2, <1>3, <1>4 DEF PathTrue

(* Closing a chunk, with the path p of its last block or, if that is a     *)
(* heading that does not split, of the block after it: the chunks still    *)
(* tile what lies before c, and the next chunk can begin there.            *)
LEMMA CloseHolds ==
    ASSUME TypeOK, CurInv, ChunksCover, AllPaths, ~returned, NEW p, NEW t,
           UNCHANGED <<doc, chunker>>, done' \in 0..Len(doc), done <= done',
           chunks' = Closed(p, t), first' \in first..(done + 1),
           \/ IsPathOf(p, done)
           \/ done < done' /\ IsHeading(done + 1) /\ ~Splits(done + 1) /\ IsPathOf(p, done + 1)
    PROVE  /\ IsSeq(chunks')
           /\ \A i \in DOMAIN chunks' : chunks'[i].from \in 1..first' /\ chunks'[i].to \in 1..done
           /\ ChunksCover' /\ AllPaths'
<1> DEFINE n == Len(chunks)
           c == [from |-> first, to |-> done, path |-> p, tokens |-> t]
<1>1. /\ done \in Nat /\ first \in Nat /\ Len(doc) \in Nat /\ done' \in Nat /\ first' \in Nat
      /\ first \in 1..(done + 1) /\ done <= Len(doc) /\ DOMAIN doc = 1..Len(doc)
  BY BlockTyped DEF TypeOK
<1>2. n \in Nat /\ DOMAIN chunks = 1..n
  BY AppendAny DEF CurInv
<1>3. \A i \in 1..n : /\ chunks[i].from \in 1..first /\ chunks[i].to \in 1..done
                      /\ chunks[i].to < done
  BY <1>2 DEF CurInv
<1>6. ASSUME NEW i, NEW d, chunks'[i].path = d.path, chunks'[i].to = d.to, d.to \in Nat,
             \/ IsPathOf(d.path, d.to)
             \/ /\ d.to < done' /\ IsHeading(d.to + 1) /\ ~Splits(d.to + 1)
                /\ IsPathOf(d.path, d.to + 1)
      PROVE  PathTrue(i)'
  BY <1>6, PathOfStays DEF PathTrue, Splits, IsHeading, Level
<1>7. \A i \in 1..n :
        /\ chunks[i].to \in Nat
        /\ \/ IsPathOf(chunks[i].path, chunks[i].to)
           \/ /\ chunks[i].to < done' /\ IsHeading(chunks[i].to + 1) /\ ~Splits(chunks[i].to + 1)
              /\ IsPathOf(chunks[i].path, chunks[i].to + 1)
  <2> TAKE i \in 1..n
  <2>1. chunks[i].to \in Nat /\ (chunks[i].to < done => chunks[i].to < done')
    BY <1>1, <1>3
  <2>2. PathTrue(i)
    BY <1>2 DEF AllPaths, PathTrue
  <2> QED BY <2>1, <2>2 DEF PathTrue
<1>4. CASE ~Renders(first, done)
  <2>1. chunks' = chunks
    BY <1>4 DEF Closed
  <2>2. ChunksCover'
    <3>1. \A k \in DOMAIN doc : k < first' /\ doc[k].tokens > 0 => k < first
      <4> SUFFICES ASSUME NEW k \in 1..Len(doc), k < first', first <= k PROVE ~(doc[k].tokens > 0)
        BY <1>1
      <4>1. k \in first..done
        BY <1>1
      <4> QED
        BY <1>4, <4>1 DEF Renders
    <3>2. \A i \in 1..n, k \in 1..done' : Inside(k, chunks[i]) => k \in 1..done
      BY <1>1, <1>3 DEF Inside
    <3> QED
      BY <1>2, <2>1, <3>1, <3>2 DEF ChunksCover, Inside, Splits, IsHeading, Level
  <2>3. AllPaths'
    <3> SUFFICES ASSUME NEW i \in 1..n PROVE PathTrue(i)'
      BY <1>2, <2>1 DEF AllPaths, PathTrue
    <3> QED
      BY <1>6, <1>7, <2>1
  <2>4. \A i \in DOMAIN chunks' : chunks'[i].from \in 1..first' /\ chunks'[i].to \in 1..done
    BY <1>1, <1>2, <1>3, <2>1
  <2> QED
    BY <2>1, <2>2, <2>3, <2>4 DEF CurInv
<1>5. CASE Renders(first, done)
  <2>1. chunks' = Append(chunks, c) /\ first <= done
    BY <1>1, <1>5 DEF Closed, Renders
  <2>2. /\ IsSeq(chunks') /\ DOMAIN chunks' = 1..(n + 1)
        /\ \A i \in 1..n : chunks'[i] = chunks[i]
        /\ chunks'[n + 1] = c
    BY <2>1, AppendAny DEF CurInv
  <2>3. c.from = first /\ c.to = done /\ c.path = p
    OBVIOUS
  <2> HIDE DEF c
  <2>4. \A i \in 1..(n + 1) : i \in 1..n \/ i = n + 1
    BY <1>2
  <2>5. \A i \in DOMAIN chunks' : chunks'[i].from \in 1..first' /\ chunks'[i].to \in 1..done
    BY <1>1, <1>3, <2>1, <2>2, <2>3, <2>4
  <2>6. ChunksCover'
    <3>1. \A k \in DOMAIN doc : k < first' /\ doc[k].tokens > 0 =>
            \E i \in DOMAIN chunks' : Inside(k, chunks'[i])
      <4> SUFFICES ASSUME NEW k \in 1..Len(doc), k < first', doc[k].tokens > 0
                   PROVE  \E i \in 1..(n + 1) : Inside(k, chunks'[i])
        BY <1>1, <2>2
      <4>1. CASE k < first
        <5>1. PICK i \in 1..n : Inside(k, chunks[i])
          BY <1>1, <1>2, <4>1 DEF ChunksCover
        <5>2. i \in 1..(n + 1) /\ chunks'[i] = chunks[i]
          BY <1>2, <2>2
        <5> QED
          BY <5>1, <5>2
      <4>2. CASE first <= k
        <5>1. k <= done
          BY <1>1
        <5>2. n + 1 \in 1..(n + 1)
          BY <1>2
        <5> QED
          BY <2>2, <2>3, <4>2, <5>1, <5>2 DEF Inside
      <4> QED
        BY <1>1, <4>1, <4>2
    <3>2. \A i, j \in DOMAIN chunks' :
            i < j => chunks'[i].from <= chunks'[j].from /\ chunks'[i].to < chunks'[j].to
      <4> SUFFICES ASSUME NEW i \in 1..(n + 1), NEW j \in 1..(n + 1), i < j
                   PROVE  chunks'[i].from <= chunks'[j].from /\ chunks'[i].to < chunks'[j].to
        BY <2>2
      <4>1. i \in 1..n
        BY <1>2
      <4>2. CASE j \in 1..n
        BY <1>2, <2>2, <4>1, <4>2 DEF ChunksCover
      <4>3. CASE j = n + 1
        BY <1>1, <1>3, <2>2, <2>3, <4>1, <4>3
      <4> QED
        BY <2>4, <4>2, <4>3
    <3>3. \A i \in DOMAIN chunks', k \in 1..done' :
            Inside(k, chunks'[i]) /\ Splits(k) => k = chunks'[i].from
      <4> SUFFICES ASSUME NEW i \in 1..(n + 1), NEW k \in 1..done', Inside(k, chunks'[i]), Splits(k)
                   PROVE  k = chunks'[i].from
        BY <2>2
      <4>1. CASE i \in 1..n
        <5>1. chunks'[i] = chunks[i] /\ k \in 1..done
          BY <1>1, <1>3, <2>2, <4>1 DEF Inside
        <5> QED
          BY <1>2, <4>1, <5>1 DEF ChunksCover
      <4>2. CASE i = n + 1
        <5>1. first <= k /\ k <= done
          BY <2>2, <2>3, <4>2 DEF Inside
        <5>2. k \notin (first + 1)..done
          BY DEF CurInv
        <5> QED
          BY <1>1, <2>2, <2>3, <4>2, <5>1, <5>2
      <4> QED
        BY <2>4, <4>1, <4>2
    <3> QED
      BY <3>1, <3>2, <3>3 DEF ChunksCover, Inside, Splits, IsHeading, Level
  <2>7. AllPaths'
    <3> SUFFICES ASSUME NEW i \in 1..(n + 1) PROVE PathTrue(i)'
      BY <2>2 DEF AllPaths, PathTrue
    <3>1. CASE i \in 1..n
      BY <1>6, <1>7, <2>2, <3>1
    <3>2. CASE i = n + 1
      BY <1>1, <1>6, <2>2, <2>3, <3>2
    <3> QED
      BY <2>4, <3>1, <3>2
  <2> QED
    BY <2>2, <2>5, <2>6, <2>7
<1> QED
  BY <1>4, <1>5

-----------------------------------------------------------------------------
LEMMA InitHolds == Init => ChunkInv
<1> SUFFICES ASSUME Init PROVE ChunkInv
  OBVIOUS
<1>1. TypeOK /\ Len(doc) \in Nat
  <2>1. doc \in Seq([level : Nat, tokens : Nat])
    BY ChunkerAssumption DEF Init
  <2>2. Len(doc) \in Nat
    BY <2>1
  <2>3. 0 \in 0..Len(doc) /\ 1 \in 1..(0 + 1)
    BY <2>2
  <2>4. doc \in Documents /\ chunker \in Chunkers /\ returned = FALSE /\ done = 0 /\ first = 1
    BY DEF Init
  <2> QED
    BY <2>2, <2>3, <2>4 DEF TypeOK
<1>2. PathInv
  BY DEF Init, PathInv, IsPathOf, Ancestors, Deepens
<1>3. CurInv
  <2>1. chunks \in Seq({})
    BY DEF Init
  <2> QED
    BY <2>1 DEF Init, CurInv, IsSeq
<1>4. ChunksCover /\ AllPaths
  BY <1>1, BlockTyped DEF Init, ChunksCover, AllPaths
<1> QED
  BY <1>1, <1>2, <1>3, <1>4 DEF ChunkInv

(* A block is taken: the path is that of the block in any case.            *)
LEMMA BlockHolds ==
    ASSUME ChunkInv, TakeBlock
    PROVE  ChunkInv'
<1> DEFINE k == done + 1
<1>1. /\ ~returned /\ done < Len(doc) /\ done' = k /\ UNCHANGED <<doc, chunker, returned>>
      /\ PathWith(k, path')
  BY DEF TakeBlock, Split, Gather, Overflow
<1>2. TypeOK /\ PathInv /\ CurInv /\ ChunksCover /\ AllPaths
  BY DEF ChunkInv
<1>3. /\ done \in Nat /\ first \in Nat /\ Len(doc) \in Nat /\ k \in Nat /\ k \in 0..Len(doc)
      /\ first \in 1..(done + 1) /\ done <= done' /\ DOMAIN doc = 1..Len(doc)
  BY <1>1, <1>2, BlockTyped DEF TypeOK
<1>4. path' \in Seq(Nat) /\ IsPathOf(path', k) /\ Deepens(path')
  BY <1>1, <1>2, PathStep
<1>5. PathInv'
  BY <1>1, <1>4 DEF PathInv, IsPathOf, Ancestors, Deepens, IsHeading, Level
<1>6. CASE Split(k)
  <2>1. first' = k /\ chunks' = Closed(path, curTokens)
    BY <1>6 DEF Split
  <2>2. IsPathOf(path, done) /\ first' \in first..(done + 1) /\ done' \in 0..Len(doc)
    BY <1>1, <1>2, <1>3, <2>1 DEF PathInv
  <2>3. /\ IsSeq(chunks') /\ ChunksCover' /\ AllPaths'
        /\ \A i \in DOMAIN chunks' : chunks'[i].from \in 1..first' /\ chunks'[i].to \in 1..done
    BY <1>1, <1>2, <1>3, <2>1, <2>2, CloseHolds
  <2>4. TypeOK'
    BY <1>1, <1>2, <1>3, <2>1 DEF TypeOK
  <2>5. CurInv'
    BY <1>1, <1>3, <2>1, <2>3 DEF CurInv
  <2> QED
    BY <1>5, <2>3, <2>4, <2>5 DEF ChunkInv
<1>7. CASE Gather(k)
  <2>1. ~Splits(k) /\ UNCHANGED <<chunks, first>>
    BY <1>7 DEF Gather
  <2>2. TypeOK'
    BY <1>1, <1>2, <1>3, <2>1 DEF TypeOK
  <2>3. CurInv'
    <3>1. \A j \in (first + 1)..k : j \in (first + 1)..done \/ j = k
      BY <1>3
    <3>2. \A j \in (first + 1)..k : ~Splits(j)
      BY <1>2, <2>1, <3>1 DEF CurInv
    <3>3. (\A j \in (first + 1)..done : ~Splits(j))'
      BY <1>1, <2>1, <3>2 DEF Splits, IsHeading, Level
    <3> QED
      BY <1>1, <1>2, <1>3, <2>1, <3>3 DEF CurInv
  <2>4. ChunksCover'
    <3>1. \A i \in DOMAIN chunks, j \in 1..k : Inside(j, chunks[i]) => j \in 1..done
      BY <1>2, <1>3 DEF CurInv, Inside
    <3> QED
      BY <1>1, <1>2, <2>1, <3>1 DEF ChunksCover, Inside, Splits, IsHeading, Level
  <2>5. AllPaths'
    BY <1>1, <1>2, <1>3, <2>1, PathsStay
  <2> QED
    BY <1>5, <2>2, <2>3, <2>4, <2>5 DEF ChunkInv
<1>8. CASE Overflow(k)
  <2>1. /\ ~Splits(k) /\ first' \in first..(done + 1)
        /\ chunks' = Closed(path', Tokens(first, done))
    BY <1>8 DEF Overflow
  <2>2. \/ IsPathOf(path', done)
        \/ done < done' /\ IsHeading(done + 1) /\ ~Splits(done + 1) /\ IsPathOf(path', done + 1)
    <3>1. CASE IsHeading(k)
      BY <1>1, <1>3, <1>4, <2>1, <3>1
    <3>2. CASE ~IsHeading(k)
      BY <1>1, <1>2, <3>2 DEF PathWith, PathInv
    <3> QED
      BY <3>1, <3>2
  <2>3. /\ IsSeq(chunks') /\ ChunksCover' /\ AllPaths'
        /\ \A i \in DOMAIN chunks' : chunks'[i].from \in 1..first' /\ chunks'[i].to \in 1..done
    BY <1>1, <1>2, <1>3, <2>1, <2>2, CloseHolds
  <2>4. TypeOK'
    BY <1>1, <1>2, <1>3, <2>1 DEF TypeOK
  <2>5. CurInv'
    <3>0. PICK c \in first..(done + 1) : first' = c
      BY <2>1
    <3>1. \A j \in (c + 1)..k : j \in (first + 1)..done \/ j = k
      BY <1>3
    <3>2. \A j \in (c + 1)..k : ~Splits(j)
      BY <1>2, <2>1, <3>1 DEF CurInv
    <3>3. (\A j \in (first + 1)..done : ~Splits(j))'
      BY <1>1, <3>0, <3>2 DEF Splits, IsHeading, Level
    <3> QED
      BY <1>1, <1>3, <2>3, <3>3 DEF CurInv
  <2> QED
    BY <1>5, <2>3, <2>4, <2>5 DEF ChunkInv
<1> QED
  BY <1>6, <1>7, <1>8 DEF TakeBlock

LEMMA ReturnHolds ==
    ASSUME ChunkInv, Return
    PROVE  ChunkInv'
<1>1. /\ ~returned /\ done = Len(doc) /\ returned' = TRUE /\ first' = done + 1
      /\ chunks' = Closed(path, curTokens) /\ UNCHANGED <<doc, chunker, done, path>>
  BY DEF Return
<1>2. TypeOK /\ PathInv /\ CurInv /\ ChunksCover /\ AllPaths
  BY DEF ChunkInv
<1>3. done \in Nat /\ first \in Nat /\ Len(doc) \in Nat /\ first \in 1..(done + 1)
  BY <1>2, BlockTyped DEF TypeOK
<1>4. IsPathOf(path, done) /\ first' \in first..(done + 1) /\ done' \in 0..Len(doc) /\ done <= done'
  BY <1>1, <1>2, <1>3 DEF PathInv
<1>5. /\ IsSeq(chunks') /\ ChunksCover' /\ AllPaths'
      /\ \A i \in DOMAIN chunks' : chunks'[i].from \in 1..first' /\ chunks'[i].to \in 1..done
  BY <1>1, <1>2, <1>4, CloseHolds
<1>6. TypeOK'
  BY <1>1, <1>2, <1>3 DEF TypeOK
<1>7. PathInv'
  BY <1>1, <1>2 DEF PathInv, IsPathOf, Ancestors, Deepens, IsHeading, Level
<1>8. CurInv'
  BY <1>1, <1>3, <1>5 DEF CurInv
<1> QED
  BY <1>5, <1>6, <1>7, <1>8 DEF ChunkInv

LEMMA ChunkInvHolds == Spec => []ChunkInv
<1>1. ChunkInv /\ [Next]_vars => ChunkInv'
  <2> SUFFICES ASSUME ChunkInv, [Next]_vars PROVE ChunkInv'
    OBVIOUS
  <2>1. CASE UNCHANGED vars
    BY <2>1 DEF vars, ChunkInv, TypeOK, PathInv, CurInv, ChunksCover, AllPaths, PathTrue,
                IsPathOf, Ancestors, Deepens, Inside, Splits, IsHeading, Level
  <2> QED
    BY <2>1, BlockHolds, ReturnHolds DEF Next, Stop
<1> QED
  BY <1>1, InitHolds, PTL DEF Spec

(* The loop of chunk_with stays inside the document, and cur is a run of   *)
(* the blocks it has seen.                                                 *)
THEOREM TypeIsKept == Spec => []TypeOK
  BY ChunkInvHolds, PTL DEF ChunkInv

(* chunk_with loses no block, keeps the order of the document and begins a *)
(* chunk at every splitting heading, for every document, limit and overlap *)
(* (README.md:345).                                                        *)
THEOREM NoBlockIsLost == Spec => []ChunksCover
  BY ChunkInvHolds, PTL DEF ChunkInv

(* The heading_path of a chunk that no heading without a split has closed  *)
(* holds exactly the headings its last block lies under: the stack that    *)
(* pops and pushes (chunker.rs:120-127) is right for every order of        *)
(* heading levels.                                                         *)
THEOREM PathsAreAncestors == Spec => []PathsTrue
<1>1. ChunkInv => PathsTrue
  BY DEF ChunkInv, AllPaths, PathTrue, PathsTrue
<1> QED BY <1>1, ChunkInvHolds, PTL

-----------------------------------------------------------------------------
(* The limits of the chunker.  Tokens is a sum over a set of blocks.       *)
Weights == [k \in DOMAIN doc |-> doc[k].tokens]

LEMMA TokensAreSum ==
    ASSUME TypeOK, NEW a \in Nat \ {0}, NEW b \in 0..Len(doc)
    PROVE  Tokens(a, b) = SumOf(Weights, a..b) /\ a..b \subseteq DOMAIN doc /\ IsFiniteSet(a..b)
<1> DEFINE S == a..b
           N(T, F) == doc[CHOOSE x \in T : TRUE].tokens + F[T \ {CHOOSE x \in T : TRUE}]
           E(F) == [T \in SUBSET S |-> IF T = {} THEN 0 ELSE N(T, F)]
           W(F) == [T \in SUBSET S |->
                      IF T = {} THEN 0 ELSE Weights[Taken(T)] + F[T \ {Taken(T)}]]
           I == CHOOSE F : F = E(F)
<1>1. S \subseteq DOMAIN doc
  BY BlockTyped
<1>2. IsFiniteSet(S)
  <2>1. a \in Int /\ b \in Int
    BY BlockTyped
  <2> QED BY <2>1, FS_Interval
<1>3. ASSUME NEW F PROVE E(F) = W(F)
  <2>1. ASSUME NEW T \in SUBSET S, T # {}
        PROVE  N(T, F) = Weights[Taken(T)] + F[T \ {Taken(T)}]
    <3>1. Taken(T) \in DOMAIN doc
      BY <1>1, <2>1, TakenIsIn
    <3>2. Weights[Taken(T)] = doc[Taken(T)].tokens
      BY <3>1 DEF Weights
    <3>3. N(T, F) = doc[Taken(T)].tokens + F[T \ {Taken(T)}]
      BY Zenon DEF Taken
    <3> HIDE DEF N
    <3> QED BY <3>2, <3>3
  <2> HIDE DEF N, S
  <2> QED BY <2>1
<1>4. \E F : F = E(F)
  <2>1. PICK F : Sums(F, Weights, S)
    BY <1>2, SumsExist
  <2>2. F = W(F)
    BY <2>1, Zenon DEF Sums
  <2>3. F = E(F)
    <3> HIDE DEF E, W
    <3> QED BY <1>3, <2>2
  <2> QED BY <2>3, Zenon
<1>5. I = E(I)
  <2> HIDE DEF E
  <2> QED BY <1>4, Zenon
<1>6. Sums(I, Weights, S)
  <2>1. I = W(I)
    <3> HIDE DEF E, W, I
    <3> QED BY <1>3, <1>5
  <2> HIDE DEF I
  <2> QED BY <2>1, Zenon DEF Sums
<1>7. Tokens(a, b) = I[S]
  BY Zenon DEF Tokens, MapThenSumSet, MapThenFoldSet
<1>8. I[S] = SumOf(Weights, S)
  <2>1. S \in SUBSET S
    OBVIOUS
  <2> HIDE DEF I, S, E, W, N, Weights
  <2> QED BY <1>2, <1>6, <2>1, SumIs, ZenonT(30)
<1> QED BY <1>1, <1>2, <1>7, <1>8

(* How the tokens of a run of blocks change with its ends.                 *)
LEMMA TokenRules ==
    ASSUME TypeOK, NEW a \in Nat \ {0}, NEW b \in 0..Len(doc)
    PROVE  /\ Tokens(a, b) \in Nat
           /\ a > b => Tokens(a, b) = 0
           /\ a <= b => doc[b].tokens \in Nat /\ Tokens(a, b) = Tokens(a, b - 1) + doc[b].tokens
           /\ \A c \in Nat \ {0}, d \in 0..b : a <= c => Tokens(c, d) <= Tokens(a, b)
<1>1. Tokens(a, b) = SumOf(Weights, a..b) /\ a..b \subseteq DOMAIN doc /\ IsFiniteSet(a..b)
  BY TokensAreSum
<1>2. \A k \in DOMAIN doc : Weights[k] = doc[k].tokens /\ doc[k].tokens \in Nat
  <2> DEFINE B == [level : Nat, tokens : Nat]
  <2>1. \A x \in B : x.tokens \in Nat
    OBVIOUS
  <2> HIDE DEF B
  <2>2. doc \in Seq(B)
    BY ChunkerAssumption DEF TypeOK, B
  <2>3. \A k \in DOMAIN doc : doc[k] \in B
    BY <2>2
  <2> QED BY <2>1, <2>3 DEF Weights
<1>3. \A k \in a..b : Weights[k] \in Nat /\ Weights[k] \in Int
  BY <1>1, <1>2
<1>4. /\ SumOf(Weights, a..b) \in Nat
      /\ \A T \in SUBSET (a..b) : SumOf(Weights, T) <= SumOf(Weights, a..b)
  BY <1>1, <1>3, SumGrows
<1>5. /\ SumOf(Weights, {}) = 0
      /\ \A x \in a..b : SumOf(Weights, a..b) = Weights[x] + SumOf(Weights, (a..b) \ {x})
  <2> DEFINE S == a..b
  <2>1. IsFiniteSet(S) /\ \A k \in S : Weights[k] \in Int
    BY <1>1, <1>3
  <2> HIDE DEF S
  <2>2. /\ SumOf(Weights, {}) = 0
        /\ \A x \in S : SumOf(Weights, S) = Weights[x] + SumOf(Weights, S \ {x})
    BY <2>1, SumRules, ZenonT(30)
  <2> QED BY <2>2 DEF S
<1>b. b \in Nat /\ Len(doc) \in Nat
  BY BlockTyped
<1>6. a > b => Tokens(a, b) = 0
  <2> SUFFICES ASSUME a > b PROVE Tokens(a, b) = 0
    OBVIOUS
  <2>1. a..b = {}
    BY <1>b
  <2> QED BY <1>1, <1>5, <2>1
<1>7. ASSUME a <= b
      PROVE  doc[b].tokens \in Nat /\ Tokens(a, b) = Tokens(a, b - 1) + doc[b].tokens
  <2>1. b \in a..b /\ (a..b) \ {b} = a..(b - 1) /\ b - 1 \in 0..Len(doc)
    BY <1>7, <1>b
  <2>2. Tokens(a, b - 1) = SumOf(Weights, a..(b - 1)) /\ Tokens(a, b - 1) \in Nat
    <3>1. Tokens(a, b - 1) = SumOf(Weights, a..(b - 1))
      BY <2>1, TokensAreSum
    <3>2. SumOf(Weights, a..(b - 1)) \in Nat
      <4>1. a..(b - 1) \subseteq DOMAIN doc /\ IsFiniteSet(a..(b - 1))
        BY <2>1, TokensAreSum
      <4>2. \A k \in a..(b - 1) : Weights[k] \in Nat
        BY <1>2, <4>1
      <4> QED BY <4>1, <4>2, SumGrows
    <3> QED BY <3>1, <3>2
  <2>3. SumOf(Weights, a..b) = Weights[b] + SumOf(Weights, a..(b - 1))
    BY <1>5, <2>1
  <2>4. Weights[b] = doc[b].tokens /\ doc[b].tokens \in Nat
    BY <1>1, <1>2, <2>1
  <2> QED BY <1>1, <2>2, <2>3, <2>4
<1>8. ASSUME NEW c \in Nat \ {0}, NEW d \in 0..b, a <= c PROVE Tokens(c, d) <= Tokens(a, b)
  <2>1. c..d \in SUBSET (a..b) /\ d \in 0..Len(doc)
    BY <1>8, <1>b
  <2>2. Tokens(c, d) = SumOf(Weights, c..d)
    BY <2>1, TokensAreSum
  <2> QED BY <1>1, <1>4, <2>1, <2>2
<1> QED BY <1>1, <1>4, <1>6, <1>7, <1>8

LEMMA TokensStay == doc' = doc => \A a, b : Tokens(a, b)' = Tokens(a, b)
  BY ZenonT(30) DEF Tokens, MapThenSumSet, MapThenFoldSet

(* One chunk keeps the limits, and so does cur when it is closed: it       *)
(* counts its tokens, has more than max_tokens only with its last block,   *)
(* and holds what was carried into it.                                     *)
KeptAt(i) ==
    LET c == chunks[i] IN
    /\ c.tokens = Tokens(c.from, c.to)
    /\ c.tokens > chunker.max =>
        ~Renders(c.from, c.to - 1) \/ (i > 1 /\ chunks[i - 1].to = c.to - 1)
    /\ c.to < done /\ ~Splits(c.to + 1) => c.tokens + doc[c.to + 1].tokens > chunker.max
    /\ i > 1 /\ c.from <= chunks[i - 1].to =>
        Tokens(c.from + 1, chunks[i - 1].to) < chunker.overlap

CurKept ==
    LET n == Len(chunks) IN
    /\ curTokens = Tokens(first, done)
    /\ first <= done /\ curTokens > chunker.max =>
        ~Renders(first, done - 1) \/ (n > 0 /\ chunks[n].to = done - 1)
    /\ n > 0 /\ first <= chunks[n].to => Tokens(first + 1, chunks[n].to) < chunker.overlap

AllKept == \A i \in DOMAIN chunks : KeptAt(i)

LimitInv == CurKept /\ AllKept

(* A chunk keeps the limits while blocks are added behind the next one.    *)
LEMMA KeptStays ==
    ASSUME NEW i, KeptAt(i), chunks'[i] = chunks[i], i > 1 => chunks'[i - 1] = chunks[i - 1],
           UNCHANGED <<doc, chunker>>, done' = done \/ chunks[i].to < done
    PROVE  KeptAt(i)'
<1>1. \A a, b : Tokens(a, b)' = Tokens(a, b)
  BY TokensStay
<1> QED BY <1>1 DEF KeptAt, Renders, Splits, IsHeading, Level

(* cur is closed, before a block that does not fit if it is none that      *)
(* splits, and the next begins behind c: its limits are kept, and so are   *)
(* those of all chunks.                                                    *)
LEMMA CloseKeeps ==
    ASSUME TypeOK, CurInv, LimitInv, ~returned, NEW p, UNCHANGED <<doc, chunker>>,
           chunks' = Closed(p, Tokens(first, done)), done' \in {done, done + 1}, done' <= Len(doc),
           done < done' /\ ~Splits(done + 1) /\ first <= done =>
               Tokens(first, done) + doc[done + 1].tokens > chunker.max
    PROVE  /\ AllKept'
           /\ \/ chunks' = chunks /\ ~Renders(first, done)
              \/ Len(chunks') > 0 /\ chunks'[Len(chunks')].to = done
<1> DEFINE c == [from |-> first, to |-> done, path |-> p, tokens |-> Tokens(first, done)]
<1>n. PICK n \in Nat : n = Len(chunks)
  BY AppendAny DEF CurInv
<1>1. done \in Nat /\ first \in Nat /\ first \in 1..(done + 1) /\ Len(doc) \in Nat /\ done' \in Nat
  BY BlockTyped DEF TypeOK
<1>2. n \in Nat /\ DOMAIN chunks = 1..n
  BY <1>n, AppendAny DEF CurInv
<1>3. \A i \in 1..n : KeptAt(i) /\ chunks[i].to < done
  BY <1>2 DEF CurInv, LimitInv, AllKept, KeptAt
<1>4. CASE ~Renders(first, done)
  <2>1. chunks' = chunks
    BY <1>4 DEF Closed
  <2>2. ASSUME NEW i \in 1..n PROVE KeptAt(i)'
    BY <1>3, <2>1, KeptStays
  <2>3. AllKept'
    BY <1>2, <2>1, <2>2 DEF AllKept, KeptAt
  <2> QED BY <1>4, <2>1, <2>3
<1>5. CASE Renders(first, done)
  <2>1. chunks' = Append(chunks, c) /\ first <= done
    BY <1>1, <1>5 DEF Closed, Renders
  <2>2. /\ IsSeq(chunks') /\ DOMAIN chunks' = 1..(n + 1)
        /\ \A i \in 1..n : chunks'[i] = chunks[i]
        /\ chunks'[n + 1] = c
    BY <1>n, <2>1, AppendAny DEF CurInv
  <2>l. Len(chunks') = n + 1
    <3>1. Len(chunks') \in Nat /\ DOMAIN chunks' = 1..Len(chunks')
      BY <2>2, AppendAny
    <3> QED BY <1>2, <2>2, <3>1
  <2>3. c.from = first /\ c.to = done /\ c.tokens = Tokens(first, done)
    OBVIOUS
  <2> HIDE DEF c
  <2>4. ASSUME NEW i \in 1..n PROVE KeptAt(i)'
    <3>1. chunks'[i] = chunks[i] /\ (i > 1 => chunks'[i - 1] = chunks[i - 1])
      BY <1>2, <2>2
    <3> QED BY <1>3, <3>1, KeptStays
  <2>5. KeptAt(n + 1)'
    <3>1. \A a, b : Tokens(a, b)' = Tokens(a, b)
      BY TokensStay
    <3>2. n > 0 => chunks'[n] = chunks[n] /\ (n + 1) - 1 = n
      BY <1>2, <2>2
    <3>3. /\ first <= done /\ Tokens(first, done) > chunker.max =>
               ~Renders(first, done - 1) \/ (n > 0 /\ chunks[n].to = done - 1)
          /\ n > 0 /\ first <= chunks[n].to => Tokens(first + 1, chunks[n].to) < chunker.overlap
      BY <1>n DEF LimitInv, CurKept
    <3>4. n + 1 > 1 <=> n > 0
      BY <1>2
    <3>5. done < done' /\ ~Splits(done + 1) =>
            Tokens(first, done) + doc[done + 1].tokens > chunker.max
      BY <2>1
    <3> QED BY <2>1, <2>2, <2>3, <3>1, <3>2, <3>3, <3>4, <3>5
            DEF KeptAt, Renders, Splits, IsHeading, Level
  <2>6. \A i \in 1..(n + 1) : KeptAt(i)'
    <3>1. \A i \in 1..(n + 1) : i \in 1..n \/ i = n + 1
      BY <1>2
    <3> QED BY <2>4, <2>5, <3>1
  <2>7. AllKept'
    BY <2>2, <2>6 DEF AllKept, KeptAt
  <2>8. Len(chunks') > 0 /\ chunks'[Len(chunks')].to = done
    BY <1>2, <2>2, <2>3, <2>l
  <2> QED BY <2>7, <2>8
<1> QED BY <1>4, <1>5

(* A block is taken: cur is closed and begun anew, or grows.               *)
LEMMA BlockKeeps ==
    ASSUME ChunkInv, LimitInv, TakeBlock, ChunkInv'
    PROVE  LimitInv'
<1>k. PICK k \in Nat : k = done + 1
  BY BlockTyped DEF ChunkInv
<1>1. /\ TypeOK /\ CurInv /\ ~returned /\ done < Len(doc) /\ done' = k
      /\ UNCHANGED <<doc, chunker, returned>>
  BY <1>k DEF ChunkInv, TakeBlock
<1>2. /\ done \in Nat /\ first \in Nat /\ first \in 1..k /\ Len(doc) \in Nat
      /\ k \in 1..Len(doc) /\ done = k - 1 /\ done \in 0..Len(doc) /\ k \in 0..Len(doc)
  BY <1>1, <1>k, BlockTyped DEF TypeOK
<1>3. /\ curTokens = Tokens(first, done)
      /\ first <= done /\ curTokens > chunker.max =>
          ~Renders(first, done - 1) \/ (Len(chunks) > 0 /\ chunks[Len(chunks)].to = done - 1)
      /\ Len(chunks) > 0 /\ first <= chunks[Len(chunks)].to =>
          Tokens(first + 1, chunks[Len(chunks)].to) < chunker.overlap
  BY DEF LimitInv, CurKept
<1>4. \A a, b : Tokens(a, b)' = Tokens(a, b)
  BY <1>1, TokensStay
<1>5. ASSUME NEW a \in 1..k
      PROVE  /\ Tokens(a, k) = Tokens(a, done) + doc[k].tokens
             /\ Tokens(a, k) \in Nat /\ Tokens(a, done) \in Nat /\ doc[k].tokens \in Nat
  BY <1>1, <1>2, TokenRules
<1>6. chunker.max \in Nat /\ chunker.overlap \in Nat
  BY <1>1, ChunkerAssumption DEF TypeOK
<1>7. Len(chunks) \in Nat /\ DOMAIN chunks = 1..Len(chunks)
      /\ \A i \in 1..Len(chunks) : chunks[i].to \in 1..done /\ chunks[i].to < done
  BY <1>1, AppendAny DEF CurInv
<1>8. CASE Split(k)
  <2>1. Splits(k) /\ first' = k /\ curTokens' = doc[k].tokens /\ chunks' = Closed(path, curTokens)
    BY <1>8 DEF Split
  <2>2. AllKept' /\ (\/ chunks' = chunks /\ ~Renders(first, done)
                     \/ Len(chunks') > 0 /\ chunks'[Len(chunks')].to = done)
    <3>1. chunks' = Closed(path, Tokens(first, done)) /\ Splits(done + 1)
      BY <1>3, <1>k, <2>1
    <3>2. done' \in {done, done + 1} /\ done' <= Len(doc)
      BY <1>1, <1>2, <1>k
    <3> QED BY <1>1, <3>1, <3>2, CloseKeeps
  <2>3. curTokens' = Tokens(k, k)
    <3>1. Tokens(k, done) = 0
      <4>1. k \in Nat \ {0} /\ k > done
        BY <1>2
      <4> QED BY <1>1, <1>2, <4>1, TokenRules
    <3>2. k \in 1..k
      BY <1>2
    <3> QED BY <1>5, <2>1, <3>1, <3>2
  <2>4. ~Renders(k, k - 1)
    BY <1>2 DEF Renders
  <2>5. ~(k <= chunks'[Len(chunks')].to) \/ ~(Len(chunks') > 0)
    <3>1. CASE chunks' = chunks
      BY <1>2, <1>7, <3>1
    <3>2. CASE chunks'[Len(chunks')].to = done
      BY <1>2, <3>2
    <3> QED BY <2>2, <3>1, <3>2
  <2>6. CurKept'
    BY <1>1, <1>4, <2>1, <2>3, <2>4, <2>5 DEF CurKept, Renders
  <2> QED BY <2>2, <2>6 DEF LimitInv
<1>9. CASE Gather(k)
  <2>1. Fits(k) /\ curTokens' = curTokens + doc[k].tokens /\ UNCHANGED <<chunks, first>>
    BY <1>9 DEF Gather
  <2>2. curTokens' = Tokens(first, k)
    BY <1>2, <1>3, <1>5, <2>1
  <2>3. curTokens' > chunker.max => ~Renders(first, k - 1)
    <3>1. CASE first <= done
      <4>1. curTokens' <= chunker.max /\ curTokens' \in Nat
        BY <1>2, <1>5, <2>1, <2>2, <3>1 DEF Fits
      <4> QED BY <1>6, <4>1
    <3>2. CASE ~(first <= done)
      BY <1>2, <3>2 DEF Renders
    <3> QED BY <3>1, <3>2
  <2>4. CurKept'
    BY <1>1, <1>3, <1>4, <2>1, <2>2, <2>3 DEF CurKept, Renders
  <2>5. ASSUME NEW i \in 1..Len(chunks) PROVE KeptAt(i)'
    <3>1. KeptAt(i) /\ chunks[i].to < done
      BY <1>7 DEF LimitInv, AllKept, KeptAt
    <3> QED BY <1>1, <2>1, <3>1, KeptStays
  <2>6. AllKept'
    BY <1>7, <2>1, <2>5 DEF AllKept, KeptAt
  <2> QED BY <2>4, <2>6 DEF LimitInv
<1>10. CASE Overflow(k)
  <2>1. ~Splits(k) /\ ~Fits(k) /\ chunks' = Closed(path', Tokens(first, done))
    BY <1>10 DEF Overflow
  <2>2. PICK c \in first..(done + 1) :
          CarriedFrom(c) /\ first' = c /\ curTokens' = Tokens(c, done) + doc[k].tokens
    BY <1>10 DEF Overflow
  <2>3. c \in 1..k /\ c \in Nat /\ first <= c
    BY <1>2, <2>2
  <2>4. AllKept' /\ (\/ chunks' = chunks /\ ~Renders(first, done)
                     \/ Len(chunks') > 0 /\ chunks'[Len(chunks')].to = done)
    <3>1. Tokens(first, done) + doc[done + 1].tokens > chunker.max
      <4>1. ~(Tokens(first, done) + doc[k].tokens <= chunker.max)
        BY <1>3, <2>1 DEF Fits
      <4>2. first \in 1..k
        BY <1>2
      <4> QED BY <1>5, <1>6, <1>k, <4>1, <4>2
    <3>2. done' \in {done, done + 1} /\ done' <= Len(doc)
      BY <1>1, <1>2, <1>k
    <3>3. \E p : chunks' = Closed(p, Tokens(first, done))
      BY <2>1
    <3> QED BY <1>1, <3>1, <3>2, <3>3, CloseKeeps
  <2>5. curTokens' = Tokens(c, k)
    BY <1>5, <2>2, <2>3
  <2>6. ~Renders(c, k - 1) \/ (Len(chunks') > 0 /\ chunks'[Len(chunks')].to = k - 1)
    <3>1. CASE ~Renders(first, done)
      <4>1. \A j \in c..(k - 1) : j \in first..done
        BY <1>2, <2>3
      <4> QED BY <3>1, <4>1 DEF Renders
    <3> QED BY <1>2, <2>4, <3>1
  <2>7. ASSUME Len(chunks') > 0, c <= chunks'[Len(chunks')].to
        PROVE  Tokens(c + 1, chunks'[Len(chunks')].to) < chunker.overlap
    <3>c. c <= done => Tokens(c + 1, done) < chunker.overlap
      <4>1. c <= done => c + 1 \in (c + 1)..(done + 1)
        BY <1>2, <2>3
      <4> QED BY <2>2, <4>1 DEF CarriedFrom
    <3>1. CASE chunks'[Len(chunks')].to = done
      BY <2>7, <3>1, <3>c
    <3>2. CASE chunks' = chunks
      <4> DEFINE e == chunks[Len(chunks)].to
      <4>1. e \in 1..done /\ c <= e /\ Len(chunks) > 0
        BY <1>7, <2>7, <3>2
      <4> HIDE DEF e
      <4>2. e \in 0..done /\ c <= done /\ c + 1 \in Nat \ {0} /\ e \in 0..Len(doc)
        BY <1>2, <2>3, <4>1
      <4>3. Tokens(c + 1, e) <= Tokens(c + 1, done)
        <5> DEFINE a == c + 1
        <5>1. a \in Nat \ {0} /\ a <= a
          BY <2>3
        <5> HIDE DEF a
        <5>2. \A x \in Nat \ {0}, d \in 0..done : a <= x => Tokens(x, d) <= Tokens(a, done)
          BY <1>1, <1>2, <5>1, TokenRules
        <5>3. Tokens(a, e) <= Tokens(a, done)
          BY <4>2, <5>1, <5>2
        <5> QED BY <5>3 DEF a
      <4>4. Tokens(c + 1, e) \in Nat /\ Tokens(c + 1, done) \in Nat
        BY <1>1, <1>2, <4>2, TokenRules
      <4>5. Tokens(c + 1, e) < chunker.overlap
        BY <1>6, <3>c, <4>2, <4>3, <4>4
      <4> QED BY <3>2, <4>5 DEF e
    <3> QED BY <2>4, <3>1, <3>2
  <2>8. CurKept'
    BY <1>1, <1>4, <2>2, <2>5, <2>6, <2>7 DEF CurKept, Renders
  <2> QED BY <2>4, <2>8 DEF LimitInv
<1> QED BY <1>k, <1>8, <1>9, <1>10 DEF TakeBlock

LEMMA ReturnKeeps ==
    ASSUME ChunkInv, LimitInv, Return
    PROVE  LimitInv'
<1>1. /\ TypeOK /\ CurInv /\ ~returned /\ done = Len(doc) /\ first' = done + 1 /\ curTokens' = 0
      /\ UNCHANGED <<doc, chunker, done>> /\ chunks' = Closed(path, curTokens)
  BY DEF ChunkInv, Return
<1>2. done \in Nat /\ done + 1 \in Nat \ {0} /\ done \in 0..Len(doc) /\ first \in Nat
  BY <1>1, BlockTyped
<1>3. AllKept' /\ (\/ chunks' = chunks /\ ~Renders(first, done)
                   \/ Len(chunks') > 0 /\ chunks'[Len(chunks')].to = done)
  <2>1. chunks' = Closed(path, Tokens(first, done))
    BY <1>1 DEF LimitInv, CurKept
  <2>2. done' \in {done, done + 1} /\ done' <= Len(doc) /\ ~(done < done')
    BY <1>1, <1>2
  <2> QED BY <1>1, <2>1, <2>2, CloseKeeps
<1>4. Tokens(done + 1, done) = 0
  BY <1>1, <1>2, TokenRules
<1>5. \A a, b : Tokens(a, b)' = Tokens(a, b)
  BY <1>1, TokensStay
<1>6. ~(done + 1 <= chunks'[Len(chunks')].to) \/ ~(Len(chunks') > 0)
  <2>1. Len(chunks) \in Nat /\ \A i \in 1..Len(chunks) : chunks[i].to \in 1..done
    BY <1>1, AppendAny DEF CurInv
  <2> QED BY <1>2, <1>3, <2>1
<1>7. CurKept'
  BY <1>1, <1>2, <1>4, <1>5, <1>6 DEF CurKept
<1> QED BY <1>3, <1>7 DEF LimitInv

(* token_count is right, a chunk that takes a block behind text of its own *)
(* stays within max_tokens, no chunk is closed while the next block would  *)
(* fit, and the overlap is no longer than overlap_tokens asks for          *)
(* (chunker.rs:135-217), for every document and every setting.             *)
THEOREM LimitsAreKept == Spec => []LimitsKept
<1>1. Init => LimitInv
  <2> SUFFICES ASSUME Init PROVE LimitInv
    OBVIOUS
  <2>1. TypeOK /\ done = 0 /\ first = 1 /\ curTokens = 0 /\ chunks = <<>>
    BY InitHolds DEF ChunkInv, Init
  <2>2. Tokens(1, 0) = 0
    <3>1. 1 \in Nat \ {0} /\ 0 \in 0..Len(doc) /\ 1 > 0
      BY <2>1, BlockTyped
    <3> QED BY <2>1, <3>1, TokenRules
  <2>3. Len(<<>>) = 0 /\ DOMAIN <<>> = {}
    OBVIOUS
  <2> QED BY <2>1, <2>2, <2>3 DEF LimitInv, CurKept, AllKept
<1>2. ChunkInv /\ ChunkInv' /\ LimitInv /\ [Next]_vars => LimitInv'
  <2> SUFFICES ASSUME ChunkInv, ChunkInv', LimitInv, [Next]_vars PROVE LimitInv'
    OBVIOUS
  <2>1. CASE UNCHANGED vars
    <3>1. \A a, b : Tokens(a, b)' = Tokens(a, b)
      BY <2>1, TokensStay DEF vars
    <3>2. CurKept'
      BY <2>1, <3>1 DEF vars, LimitInv, CurKept, Renders
    <3>3. ASSUME NEW i \in DOMAIN chunks PROVE KeptAt(i)'
      <4>1. KeptAt(i)
        BY DEF LimitInv, AllKept, KeptAt
      <4> QED BY <2>1, <4>1, KeptStays DEF vars
    <3>4. AllKept'
      BY <2>1, <3>3 DEF vars, AllKept, KeptAt
    <3> QED BY <3>2, <3>4 DEF LimitInv
  <2> QED BY <2>1, BlockKeeps, ReturnKeeps DEF Next, Stop
<1>3. ChunkInv /\ LimitInv => LimitsKept
  <2> SUFFICES ASSUME ChunkInv, LimitInv, NEW i \in DOMAIN chunks
               PROVE  LET c == chunks[i]
                          behindOwn == i = 1 \/ chunks[i - 1].to < c.to - 1 \/ chunker.overlap = 0
                      IN  /\ c.tokens = Tokens(c.from, c.to)
                          /\ Renders(c.from, c.to - 1) /\ behindOwn => c.tokens <= chunker.max
                          /\ c.to < done /\ ~Splits(c.to + 1) =>
                              c.tokens + doc[c.to + 1].tokens > chunker.max
                          /\ i > 1 /\ c.from <= chunks[i - 1].to =>
                              Tokens(c.from + 1, chunks[i - 1].to) < chunker.overlap
    BY DEF LimitsKept
  <2> DEFINE c == chunks[i]
             b == chunks[i - 1]
  <2>1. KeptAt(i) /\ TypeOK /\ CurInv
    BY DEF LimitInv, AllKept, ChunkInv
  <2>2. DOMAIN chunks = 1..Len(chunks) /\ Len(chunks) \in Nat /\ i \in Nat
    BY <2>1, AppendAny DEF CurInv
  <2>3. /\ c.from \in Nat \ {0} /\ c.to \in Nat /\ c.to \in 0..Len(doc)
        /\ i > 1 => b.to \in Nat /\ b.to \in 0..Len(doc)
    <3>1. done \in Nat /\ first \in Nat /\ Len(doc) \in Nat /\ done <= Len(doc)
      BY <2>1, BlockTyped DEF TypeOK
    <3>2. i > 1 => i - 1 \in DOMAIN chunks
      BY <2>2
    <3>3. \A m \in DOMAIN chunks : chunks[m].from \in 1..first /\ chunks[m].to \in 1..done
      BY <2>1 DEF CurInv
    <3> QED BY <3>1, <3>2, <3>3
  <2>4. c.tokens \in Nat /\ chunker.max \in Nat
    <3>1. c.tokens = Tokens(c.from, c.to)
      BY <2>1 DEF KeptAt
    <3>2. Tokens(c.from, c.to) \in Nat
      BY <2>1, <2>3, TokenRules
    <3> QED BY <2>1, <3>1, <3>2, ChunkerAssumption DEF TypeOK
  <2>5. ASSUME Renders(c.from, c.to - 1), i = 1 \/ b.to < c.to - 1 \/ chunker.overlap = 0,
               c.tokens > chunker.max
        PROVE  FALSE
    <3>1. i > 1 /\ b.to = c.to - 1
      BY <2>1, <2>5 DEF KeptAt
    <3>2. c.from <= b.to
      <4>1. PICK m \in c.from..(c.to - 1) : TRUE
        BY <2>5 DEF Renders
      <4> QED BY <2>3, <3>1, <4>1
    <3>3. chunker.overlap = 0
      BY <2>3, <2>5, <3>1
    <3>4. Tokens(c.from + 1, b.to) < 0
      BY <2>1, <3>1, <3>2, <3>3 DEF KeptAt
    <3>5. Tokens(c.from + 1, b.to) \in Nat
      <4>1. c.from + 1 \in Nat \ {0} /\ b.to \in 0..Len(doc)
        BY <2>3, <3>1
      <4> QED BY <2>1, <4>1, TokenRules
    <3> QED BY <3>4, <3>5
  <2> QED BY <2>1, <2>4, <2>5 DEF KeptAt
<1> QED BY <1>1, <1>2, <1>3, ChunkInvHolds, PTL DEF Spec

-----------------------------------------------------------------------------
(* The end of a run exists, and the run is inside the text.                *)
LEMMA EndOfRun ==
    ASSUME NEW t \in Seq(Chars), NEW i \in 1..Len(t) + 1, NEW S
    PROVE  /\ EndOf(t, i, S) \in i..Len(t) + 1 /\ ~In(t, EndOf(t, i, S), S)
           /\ \A k \in i..EndOf(t, i, S) - 1 : In(t, k, S)
<1> DEFINE T == {k \in Nat : k >= i /\ ~In(t, k, S)}
           O(e) == ~In(t, e, S) /\ \A k \in i..e - 1 : In(t, k, S)
<1>1. Len(t) \in Nat /\ DOMAIN t = 1..Len(t) /\ i \in Nat
    BY LenProperties
<1>2. Len(t) + 1 \in T
    <2>1. Len(t) + 1 \notin DOMAIN t /\ Len(t) + 1 \in Nat /\ Len(t) + 1 >= i
        BY <1>1
    <2> QED BY <2>1 DEF In
<1>3. PICK e \in T : \A k \in T : e <= k
    <2>1. T \in SUBSET Nat /\ T # {}
        BY <1>2
    <2> HIDE DEF T
    <2> QED BY <2>1, LeastNat
<1>4. e \in i..Len(t) + 1 /\ ~In(t, e, S)
    BY <1>1, <1>2, <1>3
<1>5. \A k \in i..e - 1 : In(t, k, S)
    <2> SUFFICES ASSUME NEW k \in i..e - 1, ~In(t, k, S) PROVE FALSE
        OBVIOUS
    <2>1. k \in Nat /\ k >= i /\ k < e
        BY <1>1, <1>3
    <2>2. k \in T
        BY <2>1
    <2> QED BY <1>3, <2>1, <2>2
<1>6. \E x \in i..Len(t) + 1 : O(x)
    BY <1>4, <1>5
<1>7. EndOf(t, i, S) = CHOOSE x \in i..Len(t) + 1 : O(x)
    BY Zenon DEF EndOf
<1> HIDE DEF O
<1>8. EndOf(t, i, S) \in i..Len(t) + 1 /\ O(EndOf(t, i, S))
    BY <1>6, <1>7, Zenon
<1> QED BY <1>8 DEF O

(* What a pass finds at i lies inside the text, and its calls hand over    *)
(* what it goes past.                                                      *)
FindOk(f, t, i) ==
    /\ f.len \in Nat /\ i + f.len <= Len(t) + 1
    /\ f.calls # <<>> => Hands(f.calls, t, i - 1, i + f.len - 1)

(* A find without calls.                                                   *)
LEMMA NothingFound ==
    ASSUME NEW t \in Seq(Chars), NEW i \in 1..Len(t), NEW n \in Nat, i + n <= Len(t) + 1
    PROVE  FindOk(Nothing(n), t, i)
BY DEF FindOk, Nothing

(* A call for a piece of the text, other than keep.                        *)
LEMMA PieceHanded ==
    ASSUME NEW t \in Seq(Chars), NEW i \in 1..Len(t), NEW n \in Nat, i + n <= Len(t) + 1,
           NEW op, op # "keep", NEW dst \in Seq(Chars), NEW rule
    PROVE  Handed(Call(op, Piece(t, i, n), dst, rule), t, i - 1, i + n - 1)
<1>1. Len(t) \in Nat /\ (i - 1) + 1 = i /\ i - 1 \in 0..Len(t) /\ i + n - 1 \in i - 1..Len(t)
    BY LenProperties
<1> DEFINE c == Call(op, Piece(t, i, n), dst, rule)
<1>2. c.src = SubSeq(t, i, i + n - 1) /\ c.dst = dst /\ c.op = op
    BY DEF Call, Piece
<1> HIDE DEF c
<1>3. SubSeq(t, (i - 1) + 1, i + n - 1) = SubSeq(t, i, i + n - 1)
    BY <1>1
<1>4. Handed(c, t, i - 1, i + n - 1)
    BY <1>1, <1>2, <1>3 DEF Handed
<1> QED BY <1>4 DEF c

(* A find with one call for the piece it goes past.                        *)
LEMMA OneFound ==
    ASSUME NEW t \in Seq(Chars), NEW i \in 1..Len(t), NEW n \in Nat, i + n <= Len(t) + 1,
           NEW op, op # "keep", NEW dst \in Seq(Chars), NEW rule
    PROVE  FindOk(Found(n, <<Call(op, Piece(t, i, n), dst, rule)>>), t, i)
<1> DEFINE c == Call(op, Piece(t, i, n), dst, rule)
           f == Found(n, <<c>>)
<1>1. Handed(c, t, i - 1, i + n - 1)
    BY PieceHanded
<1>2. i - 1 \in 0..Len(t)
    BY LenProperties
<1> HIDE DEF c
<1>3. Hands(<<c>>, t, i - 1, i + n - 1)
    BY <1>1, <1>2, HandsOne
<1>4. f.len = n /\ f.calls = <<c>>
    BY DEF Found
<1> HIDE DEF f
<1>5. FindOk(f, t, i)
    BY <1>3, <1>4 DEF FindOk
<1> QED BY <1>5 DEF f, c

(* The piece of one character.                                             *)
LEMMA OnePiece ==
    ASSUME NEW t \in Seq(Chars), NEW i \in 1..Len(t)
    PROVE  Piece(t, i, 1) = <<t[i]>> /\ i + 1 <= Len(t) + 1
<1>1. Len(t) \in Nat /\ DOMAIN t = 1..Len(t) /\ i + 1 - 1 = i
    BY LenProperties
<1>2. SubSeq(t, i, i) = <<t[i]>>
    <2> DEFINE s == SubSeq(t, i, i)
               u == <<t[i]>>
    <2>1. t[i] \in Chars /\ i \in Int /\ \A k \in i..i : t[k] \in Chars
        BY <1>1, ElementOfSeq
    <2>2. s \in Seq(Chars) /\ Len(s) = 1 /\ s[1] = t[i]
        <3>1. /\ s \in Seq(Chars) /\ Len(s) = (IF i <= i THEN i - i + 1 ELSE 0)
              /\ \A k \in 1..i - i + 1 : s[k] = t[i + k - 1]
            BY <2>1, SubSeqProperties
        <3> HIDE DEF s
        <3>2. i - i + 1 = 1 /\ i + 1 - 1 = i /\ i <= i /\ 1 \in 1..1
            BY <2>1
        <3> QED BY <3>1, <3>2
    <2>3. u \in Seq(Chars) /\ Len(u) = 1 /\ u[1] = t[i]
        BY <2>1
    <2> HIDE DEF s, u
    <2>4. \A k \in 1..Len(s) : s[k] = u[k]
        BY <2>2, <2>3
    <2>5. s = u
        BY <2>2, <2>3, <2>4, SeqEqual
    <2> QED BY <2>5 DEF s, u
<1> QED BY <1>1, <1>2 DEF Piece

(* The characters that passes write have a width.                          *)
LEMMA LetterSeq ==
    ASSUME NEW c \in Alphabet
    PROVE  c \in Chars /\ <<c>> \in Seq(Chars)
BY AlphabetAssumption DEF Chars

(* compose_at of nfc.rs.                                                   *)
LEMMA NfcFinds ==
    ASSUME NEW t \in Seq(Chars), NEW i \in 1..Len(t)
    PROVE  FindOk(NfcAt(t, i), t, i)
<1> DEFINE A == In(t, i, {"lead"}) /\ In(t, i + 1, {"vowel"}) /\ In(t, i + 2, {"trail"})
           B == In(t, i, {"lead"}) /\ In(t, i + 1, {"vowel"}) /\ ~In(t, i + 2, {"trail"})
           C == In(t, i, {"i2", "yo"}) /\ In(t, i + 1, {"trail"})
           a == Found(3, <<Replace(Piece(t, i, 3), <<"i1">>, "nfc")>>)
           b == Found(2, <<Replace(Piece(t, i, 2), <<"i2">>, "nfc")>>)
           c == Found(2, <<Replace(Piece(t, i, 2), <<WithTrail(t[i])>>, "nfc")>>)
<1>1. Len(t) \in Nat /\ DOMAIN t = 1..Len(t) /\ i \in Nat
    BY LenProperties
<1>2. NfcAt(t, i) = CASE A -> a [] B -> b [] C -> c [] OTHER -> Nothing(1)
    BY Zenon DEF NfcAt
<1>3. A => FindOk(a, t, i)
    <2> SUFFICES ASSUME A PROVE FindOk(a, t, i)
        OBVIOUS
    <2>1. i + 3 <= Len(t) + 1
        BY <1>1 DEF In
    <2>2. <<"i1">> \in Seq(Chars)
        BY LetterSeq DEF Alphabet, Wide
    <2> QED BY <2>1, <2>2, OneFound DEF Replace
<1>4. B => FindOk(b, t, i)
    <2> SUFFICES ASSUME B PROVE FindOk(b, t, i)
        OBVIOUS
    <2>1. i + 2 <= Len(t) + 1
        BY <1>1 DEF In
    <2>2. <<"i2">> \in Seq(Chars)
        BY LetterSeq DEF Alphabet, Wide
    <2> QED BY <2>1, <2>2, OneFound DEF Replace
<1>5. C => FindOk(c, t, i)
    <2> SUFFICES ASSUME C PROVE FindOk(c, t, i)
        OBVIOUS
    <2>1. i + 2 <= Len(t) + 1
        BY <1>1 DEF In
    <2>2. WithTrail(t[i]) \in Alphabet
        BY DEF WithTrail, Alphabet, Wide
    <2>3. <<WithTrail(t[i])>> \in Seq(Chars)
        BY <2>2, LetterSeq
    <2> HIDE DEF c
    <2> QED BY <2>1, <2>3, OneFound DEF Replace, c
<1>6. FindOk(Nothing(1), t, i)
    BY <1>1, NothingFound
<1> HIDE DEF A, B, C, a, b, c
<1>7. (NfcAt(t, i) = a /\ A) \/ (NfcAt(t, i) = b /\ B) \/ (NfcAt(t, i) = c /\ C) \/ NfcAt(t, i) = Nothing(1)
    BY <1>2, Zenon
<1> QED BY <1>3, <1>4, <1>5, <1>6, <1>7

(* fold_char of fold.rs.                                                   *)
LEMMA FoldFinds ==
    ASSUME NEW t \in Seq(Chars), NEW i \in 1..Len(t)
    PROVE  FindOk(FoldAt(t, i), t, i)
<1> DEFINE a == Found(1, <<Replace(<<t[i]>>, <<"digit">>, "fold")>>)
           b == Found(1, <<Replace(<<t[i]>>, <<"hyphen">>, "fold")>>)
<1>1. Len(t) \in Nat /\ Piece(t, i, 1) = <<t[i]>> /\ i + 1 <= Len(t) + 1
    BY LenProperties, OnePiece
<1>2. FindOk(a, t, i)
    <2>1. <<"digit">> \in Seq(Chars)
        BY LetterSeq DEF Alphabet, Narrow
    <2>2. FindOk(Found(1, <<Call("replace", Piece(t, i, 1), <<"digit">>, "fold")>>), t, i)
        BY <1>1, <2>1, OneFound
    <2> QED BY <1>1, <2>2 DEF Replace
<1>3. FindOk(b, t, i)
    <2>1. <<"hyphen">> \in Seq(Chars)
        BY LetterSeq DEF Alphabet, Narrow
    <2>2. FindOk(Found(1, <<Call("replace", Piece(t, i, 1), <<"hyphen">>, "fold")>>), t, i)
        BY <1>1, <2>1, OneFound
    <2> QED BY <1>1, <2>2 DEF Replace
<1>4. FindOk(Nothing(1), t, i)
    BY <1>1, NothingFound
<1>5. FoldAt(t, i) = CASE t[i] = "wide_digit" -> a [] t[i] = "wide_hyphen" -> b [] OTHER -> Nothing(1)
    BY Zenon DEF FoldAt
<1> HIDE DEF a, b
<1>6. FoldAt(t, i) = a \/ FoldAt(t, i) = b \/ FoldAt(t, i) = Nothing(1)
    BY <1>5, Zenon
<1> QED BY <1>2, <1>3, <1>4, <1>6

(* lookalike.rs.                                                           *)
LEMMA LookalikeFinds ==
    ASSUME NEW t \in Seq(Chars), NEW i \in 1..Len(t)
    PROVE  FindOk(LookalikeAt(t, i), t, i)
<1> DEFINE a == Found(1, <<Replace(<<"O">>, <<"digit">>, "lookalike")>>)
<1>1. Len(t) \in Nat /\ Piece(t, i, 1) = <<t[i]>> /\ i + 1 <= Len(t) + 1
    BY LenProperties, OnePiece
<1>2. t[i] = "O" => FindOk(a, t, i)
    <2>1. <<"digit">> \in Seq(Chars)
        BY LetterSeq DEF Alphabet, Narrow
    <2>2. FindOk(Found(1, <<Call("replace", Piece(t, i, 1), <<"digit">>, "lookalike")>>), t, i)
        BY <1>1, <2>1, OneFound
    <2> QED BY <1>1, <2>2 DEF Replace
<1>3. FindOk(Nothing(1), t, i)
    BY <1>1, NothingFound
<1> HIDE DEF a
<1> QED BY <1>2, <1>3 DEF LookalikeAt, a

(* hangul.rs: the digits are written for the whole run.                    *)
LEMMA HangulFinds ==
    ASSUME NEW t \in Seq(Chars), NEW i \in 1..Len(t)
    PROVE  FindOk(HangulAt(t, i), t, i)
<1> DEFINE z == EndOf(t, i, Numerals)
           e == RunEnd(t, i)
           run == Piece(t, i, e - i)
           n == Digits(run)
           dst == [k \in 1..n |-> "digit"]
           a == Found(e - i, <<Numeral(run, dst, "hangul")>>)
<1>1. Len(t) \in Nat /\ i \in Nat /\ i \in 1..Len(t) + 1
    BY LenProperties
<1>2. z \in i..Len(t) + 1
    BY <1>1, EndOfRun
<1>3. e \in i..Len(t) + 1
    <2>1. e = IF z - i > 1 /\ t[z - 1] = "i2" /\ In(t, z, {"yo"}) THEN z - 1 ELSE z
        BY DEF RunEnd
    <2> HIDE DEF z, e
    <2> QED BY <1>1, <1>2, <2>1
<1> HIDE DEF z, e
<1>4. e - i \in Nat /\ i + (e - i) <= Len(t) + 1 /\ i + (e - i) = e
    BY <1>1, <1>3
<1>5. FindOk(Nothing(1), t, i) /\ FindOk(Nothing(e - i), t, i)
    BY <1>1, <1>4, NothingFound
<1>6. n \in Nat
    <2>1. Len(run) \in Nat
        <3>1. Len(t) \in Nat /\ DOMAIN t = 1..Len(t) /\ \A k \in 1..Len(t) : t[k] \in Chars
            BY LenProperties, ElementOfSeq
        <3>2. i \in Int /\ i + (e - i) - 1 \in Int /\ \A k \in i..i + (e - i) - 1 : t[k] \in Chars
            BY <1>1, <1>3, <1>4, <3>1
        <3>3. run \in Seq(Chars)
            BY <3>2, SubSeqProperties DEF Piece
        <3> HIDE DEF run
        <3> QED BY <3>3, LenProperties
    <2> HIDE DEF run
    <2>2. Digits(run) = Len(run) \/ Digits(run) = 0 \/ Digits(run) = 3
        <3> DEFINE units == {k \in DOMAIN run : run[k] = "hundred"}
                   X == units = {}
                   Y == units = DOMAIN run
                   Z == \E k \in 1..Len(run) - 1 : run[k] \in NumeralDigits /\ run[k + 1] \in NumeralDigits
        <3>1. Digits(run) = CASE X -> Len(run) [] Y -> 0 [] Z -> 0 [] OTHER -> 3
            BY Zenon DEF Digits
        <3> HIDE DEF X, Y, Z
        <3> QED BY <3>1, Zenon
    <2> QED BY <2>1, <2>2
<1>7. dst \in Seq(Chars)
    <2>1. "digit" \in Chars
        BY LetterSeq DEF Alphabet, Narrow
    <2> HIDE DEF n
    <2>2. dst \in [1..n -> Chars]
        BY <2>1
    <2> QED BY <1>6, <2>2
<1> HIDE DEF n, dst
<1>8. FindOk(a, t, i)
    BY <1>4, <1>7, OneFound DEF Numeral
<1> HIDE DEF run, a
<1>9. HangulAt(t, i) = Nothing(1) \/ HangulAt(t, i) = a \/ HangulAt(t, i) = Nothing(e - i)
    BY DEF HangulAt, a, e, n, run, dst
<1> QED BY <1>5, <1>8, <1>9

(* A turn of absorb_run.                                                   *)
AbsorbTurn(t, e, r) ==
    IF r.at >= e THEN r
    ELSE LET g == EndOf(t, r.at, {t[r.at]}) IN
         [at |-> g, calls |-> Append(r.calls, Absorb(Piece(t, r.at, g - r.at), t[r.at]))]

(* The loop of absorb_run.                                                 *)
AbsorbLoopRun(V, t, i, e) ==
    /\ V[0] = [at |-> i, calls |-> <<>>]
    /\ \A k \in 1..(e - i) : V[k] = AbsorbTurn(t, e, V[k - 1])
    /\ AbsorbRun(t, i, e) = V[(e - i)].calls

(* absorb_run is the last value of its loop.                               *)
LEMMA AbsorbLoop ==
    ASSUME NEW t, NEW i, NEW e, e - i \in Nat
    PROVE  \E V : AbsorbLoopRun(V, t, i, e)
<1> DEFINE B(x) == AbsorbTurn(t, e, x)
           E(g, m) == [k \in 0..m |-> IF k = 0 THEN [at |-> i, calls |-> <<>>] ELSE B(g[k - 1])]
           T == {m \in Nat : \E g : g = E(g, m)}
           I == CHOOSE g : g = E(g, (e - i))
<1>1. (e - i) \in Nat
    OBVIOUS
<1>2. AbsorbRun(t, i, e) = I[(e - i)].calls
    BY Zenon DEF AbsorbRun, Repeat, AbsorbTurn
<1> HIDE DEF B
<1>3. 0 \in T
    <2>1. [k \in 0..0 |-> [at |-> i, calls |-> <<>>]] = E([k \in 0..0 |-> [at |-> i, calls |-> <<>>]], 0)
        OBVIOUS
    <2> HIDE DEF E
    <2> QED BY <2>1
<1>4. ASSUME NEW m \in Nat, m \in T PROVE m + 1 \in T
    <2>1. PICK g : g = E(g, m)
        BY <1>4
    <2> DEFINE h == [k \in 0..m + 1 |-> IF k = m + 1 THEN B(g[m]) ELSE g[k]]
    <2>2. \A k \in 0..m : g[k] = IF k = 0 THEN [at |-> i, calls |-> <<>>] ELSE B(g[k - 1])
        BY <2>1
    <2>3. ASSUME NEW k \in 0..m + 1 PROVE h[k] = IF k = 0 THEN [at |-> i, calls |-> <<>>] ELSE B(h[k - 1])
        <3>1. CASE k = m + 1
            <4>1. k # 0 /\ k - 1 = m /\ m \in 0..m + 1 /\ m # m + 1
                BY <3>1
            <4>2. h[k] = B(g[m]) /\ h[m] = g[m]
                BY <3>1, <4>1
            <4> HIDE DEF h
            <4> QED BY <4>1, <4>2
        <3>2. CASE k # m + 1
            <4>1. k \in 0..m /\ (k # 0 => k - 1 \in 0..m + 1 /\ k - 1 # m + 1)
                BY <3>2
            <4>2. h[k] = g[k] /\ (k # 0 => h[k - 1] = g[k - 1])
                BY <3>2, <4>1
            <4> HIDE DEF h
            <4> QED BY <2>2, <4>1, <4>2
        <3> QED BY <3>1, <3>2
    <2>4. h = E(h, m + 1)
        <3>1. h = [k \in 0..m + 1 |-> h[k]]
            OBVIOUS
        <3> HIDE DEF h
        <3> QED BY <2>3, <3>1
    <2> HIDE DEF E, h
    <2> QED BY <2>4
<1>5. \A m \in Nat : m \in T
    <2> HIDE DEF T
    <2> QED BY <1>3, <1>4, SetInduction
<1>6. I = E(I, (e - i))
    <2>1. \E g : g = E(g, (e - i))
        BY <1>1, <1>5
    <2> HIDE DEF E
    <2> QED BY <2>1, Zenon
<1>7. I[0] = [at |-> i, calls |-> <<>>] /\ \A k \in 1..(e - i) : I[k] = B(I[k - 1])
    <2> HIDE DEF I
    <2>1. \A k \in 0..(e - i) : I[k] = IF k = 0 THEN [at |-> i, calls |-> <<>>] ELSE B(I[k - 1])
        BY <1>6
    <2>2. 0 \in 0..(e - i) /\ \A k \in 1..(e - i) : k \in 0..(e - i) /\ k # 0
        BY <1>1
    <2> HIDE DEF E
    <2> QED BY <2>1, <2>2
<1> HIDE DEF I
<1>8. AbsorbLoopRun(I, t, i, e)
    BY <1>2, <1>7, Zenon DEF B, AbsorbLoopRun
<1> QED BY <1>8

(* separator.rs: the calls of absorb_run take up the whole run, stretch by *)
(* stretch.                                                                *)
LEMMA SeparatorFinds ==
    ASSUME NEW t \in Seq(Chars), NEW i \in 1..Len(t)
    PROVE  FindOk(SeparatorAt(t, i), t, i)
<1> DEFINE e == EndOf(t, i, Separators)
           N == e - i
           A(r) == AbsorbTurn(t, e, r)
<1>1. Len(t) \in Nat /\ DOMAIN t = 1..Len(t) /\ i \in Nat /\ i \in 1..Len(t) + 1
    BY LenProperties
<1>2. /\ e \in i..Len(t) + 1 /\ ~In(t, e, Separators)
      /\ \A k \in i..e - 1 : In(t, k, Separators)
    BY <1>1, EndOfRun
<1> HIDE DEF e
<1>3. N \in Nat /\ i + N <= Len(t) + 1 /\ i + N = e /\ e \in Nat
    BY <1>1, <1>2
<1>4. FindOk(Nothing(1), t, i) /\ FindOk(Nothing(N), t, i)
    <2> HIDE DEF N
    <2> QED BY <1>1, <1>3, NothingFound
<1>5. PICK V : /\ V[0] = [at |-> i, calls |-> <<>>]
               /\ \A k \in 1..N : V[k] = A(V[k - 1])
               /\ AbsorbRun(t, i, e) = V[N].calls
    <2>1. PICK V : AbsorbLoopRun(V, t, i, e)
        BY <1>3, AbsorbLoop
    <2> QED BY <2>1 DEF AbsorbLoopRun
<1> DEFINE Go(k, at, calls) ==
                /\ V[k] = [at |-> at, calls |-> calls]
                /\ at \in i..e /\ at >= i + k /\ Hands(calls, t, i - 1, at - 1)
           At_(k) == \E at, calls : Go(k, at, calls)
           T == {k \in Nat : k <= N => At_(k)}
<1>6. At_(0)
    <2>1. i - 1 \in 0..Len(t)
        BY <1>1
    <2>2. Hands(<<>>, t, i - 1, i - 1)
        BY <2>1, HandsNone
    <2>3. i \in i..e /\ i >= i + 0
        BY <1>1, <1>2
    <2>4. Go(0, i, <<>>)
        BY <1>5, <2>2, <2>3
    <2> HIDE DEF Go
    <2> QED BY <2>4
<1>7. ASSUME NEW k \in Nat, k + 1 <= N, NEW at, NEW calls, Go(k, at, calls) PROVE At_(k + 1)
    <2>1. k + 1 \in 1..N /\ (k + 1) - 1 = k
        <3> HIDE DEF Go, N
        <3> QED BY <1>3, <1>7
    <2>2. V[k + 1] = A(V[k])
        BY <1>5, <2>1
    <2> DEFINE v == V[k]
    <2>3. v.at = at /\ v.calls = calls /\ v = [at |-> at, calls |-> calls]
        BY <1>7
    <2>4. at \in i..e /\ at >= i + k /\ Hands(calls, t, i - 1, at - 1) /\ at \in Nat
        BY <1>1, <1>7
    <2> HIDE DEF v
    <2>5. CASE at >= e
        <3>1. A(v) = v
            BY <2>3, <2>5 DEF AbsorbTurn
        <3>2. at >= i + (k + 1)
            BY <1>1, <1>3, <1>7, <2>4, <2>5
        <3>3. Go(k + 1, at, calls)
            BY <2>2, <2>3, <2>4, <3>1, <3>2 DEF v
        <3> HIDE DEF Go
        <3> QED BY <3>3
    <2>6. CASE ~(at >= e)
        <3> DEFINE g == EndOf(t, at, {t[at]})
                   call == Absorb(Piece(t, at, g - at), t[at])
                   c2 == Append(calls, call)
        <3>1. at \in i..e - 1 /\ at \in 1..Len(t) /\ at \in 1..Len(t) + 1 /\ at < e
            BY <1>1, <1>2, <2>4, <2>6
        <3>2. /\ g \in at..Len(t) + 1 /\ ~In(t, g, {t[at]})
              /\ \A x \in at..g - 1 : In(t, x, {t[at]})
            BY <3>1, EndOfRun
        <3>3. A(v) = [at |-> g, calls |-> c2]
            BY <2>3, <2>6 DEF AbsorbTurn
        <3> HIDE DEF g
        <3>4. g # at
            BY <1>1, <3>1, <3>2 DEF In
        <3>5. g <= e
            <4> SUFFICES ASSUME g > e PROVE FALSE
                BY <1>1, <1>3, <3>2
            <4>1. e \in at..g - 1
                BY <1>1, <1>3, <3>1, <3>2
            <4>2. e \in DOMAIN t /\ t[e] = t[at]
                BY <3>2, <4>1 DEF In
            <4>3. t[at] \in Separators
                BY <1>2, <3>1 DEF In
            <4> QED BY <1>2, <4>2, <4>3 DEF In
        <3>6. g - at \in Nat /\ at + (g - at) <= Len(t) + 1 /\ at + (g - at) - 1 = g - 1
              /\ g \in i..e /\ g >= i + (k + 1)
            BY <1>1, <1>2, <1>3, <2>4, <3>1, <3>2, <3>4, <3>5
        <3>7. Handed(call, t, at - 1, g - 1)
            <4>1. <<>> \in Seq(Chars)
                BY EmptySeq
            <4>2. Handed(Call("absorb", Piece(t, at, g - at), <<>>, t[at]), t, at - 1, at + (g - at) - 1)
                BY <3>1, <3>6, <4>1, PieceHanded
            <4> QED BY <3>6, <4>2 DEF Absorb
        <3> HIDE DEF call
        <3>8. Hands(c2, t, i - 1, g - 1)
            BY <2>4, <3>7, HandsAppend
        <3>9. Go(k + 1, g, c2)
            BY <2>2, <3>3, <3>6, <3>8 DEF v
        <3> HIDE DEF Go, c2
        <3> QED BY <3>9
    <2> QED BY <2>5, <2>6
<1> HIDE DEF Go, N
<1>8. At_(N)
    <2>1. 0 \in T
        BY <1>6
    <2>2. ASSUME NEW k \in Nat, k \in T PROVE k + 1 \in T
        <3>1. k + 1 <= N => k <= N
            BY <1>3
        <3> QED BY <1>7, <2>2, <3>1
    <2>3. \A k \in Nat : k \in T
        <3> HIDE DEF T
        <3> QED BY <2>1, <2>2, SetInduction
    <2> QED BY <1>3, <2>3
<1>9. PICK at, calls : Go(N, at, calls)
    BY <1>8
<1>10. AbsorbRun(t, i, e) = calls /\ Hands(calls, t, i - 1, e - 1)
    <2>1. V[N] = [at |-> at, calls |-> calls] /\ at \in i..e /\ at >= i + N /\ Hands(calls, t, i - 1, at - 1)
        BY <1>9 DEF Go
    <2>2. at = e
        BY <1>1, <1>3, <2>1
    <2> QED BY <1>5, <2>1, <2>2
<1>11. FindOk(Found(N, AbsorbRun(t, i, e)), t, i)
    <2> DEFINE f == Found(N, AbsorbRun(t, i, e))
    <2>1. f.len = N /\ f.calls = calls
        BY <1>10 DEF Found
    <2>2. i + N - 1 = e - 1
        BY <1>3
    <2> HIDE DEF f
    <2>3. FindOk(f, t, i)
        BY <1>3, <1>10, <2>1, <2>2 DEF FindOk
    <2> QED BY <2>3 DEF f
<1>12. \/ SeparatorAt(t, i) = Nothing(1) \/ SeparatorAt(t, i) = Found(N, AbsorbRun(t, i, e))
       \/ SeparatorAt(t, i) = Nothing(N)
    BY DEF SeparatorAt, e, N
<1> QED BY <1>4, <1>11, <1>12

(* The finds of every pass.                                                *)
LEMMA AtFinds ==
    ASSUME NEW t \in Seq(Chars), NEW i \in 1..Len(t),
           NEW name \in {"nfc", "fold", "hangul", "lookalike", "separator"}
    PROVE  FindOk(At(name, t, i), t, i)
<1>1. CASE name = "nfc"
    <2>1. At(name, t, i) = NfcAt(t, i)
        BY <1>1 DEF At
    <2> QED BY <2>1, NfcFinds
<1>2. CASE name = "fold"
    <2>1. At(name, t, i) = FoldAt(t, i)
        BY <1>2 DEF At
    <2> QED BY <2>1, FoldFinds
<1>3. CASE name = "hangul"
    <2>1. At(name, t, i) = HangulAt(t, i)
        BY <1>3 DEF At
    <2> QED BY <2>1, HangulFinds
<1>4. CASE name = "lookalike"
    <2>1. At(name, t, i) = LookalikeAt(t, i)
        BY <1>4 DEF At
    <2> QED BY <2>1, LookalikeFinds
<1>5. CASE name = "separator"
    <2>1. At(name, t, i) = SeparatorAt(t, i)
        BY <1>5 DEF At
    <2> QED BY <2>1, SeparatorFinds
<1> QED BY <1>1, <1>2, <1>3, <1>4, <1>5

(* What is kept between two positions of the text is handed over.          *)
LEMMA KeepHanded ==
    ASSUME NEW t \in Seq(Chars), NEW f \in 1..Len(t) + 1, NEW a \in f..Len(t) + 1
    PROVE  /\ Handed(Keep(SubSeq(t, f, a - 1)), t, f - 1, a - 1)
           /\ f - 1 \in 0..Len(t) /\ a - 1 \in 0..Len(t)
<1>1. Len(t) \in Nat /\ DOMAIN t = 1..Len(t)
    BY LenProperties
<1>2. (f - 1) + 1 = f /\ f - 1 \in 0..Len(t) /\ a - 1 \in f - 1..Len(t) /\ a - 1 \in 0..Len(t)
    BY <1>1
<1> DEFINE s == SubSeq(t, f, a - 1)
           c == Keep(s)
<1>3. s \in Seq(Chars)
    <2>1. f \in Int /\ a - 1 \in Int /\ \A k \in f..a - 1 : t[k] \in Chars
        <3>1. ASSUME NEW k \in f..a - 1 PROVE t[k] \in Chars
            <4>1. k \in 1..Len(t)
                BY <1>1
            <4> QED BY <4>1, ElementOfSeq
        <3> QED BY <1>1, <3>1
    <2> QED BY <2>1, SubSeqProperties
<1>4. SubSeq(t, (f - 1) + 1, a - 1) = s
    BY <1>2
<1> HIDE DEF s
<1>5. c.src = s /\ c.dst = s
    BY DEF Keep, Call
<1> HIDE DEF c
<1>6. Handed(c, t, f - 1, a - 1)
    BY <1>2, <1>3, <1>4, <1>5 DEF Handed
<1> QED BY <1>2, <1>6 DEF c, s

(* The loop of apply.                                                      *)
PassRun(V, name, t) ==
    /\ V[0] = [at |-> 1, flushed |-> 1, calls |-> <<>>]
    /\ \A k \in 1..Len(t) : V[k] = Apply(name, t, V[k - 1])
    /\ PassCalls(name, t) = Append(V[Len(t)].calls, Keep(SubSeq(t, V[Len(t)].flushed, Len(t))))

(* apply ends with the last value of its loop.                             *)
LEMMA PassLoop ==
    ASSUME NEW name, NEW t, Len(t) \in Nat
    PROVE  \E V : PassRun(V, name, t)
<1> DEFINE B(x) == Apply(name, t, x)
           E(g, m) == [k \in 0..m |-> IF k = 0 THEN [at |-> 1, flushed |-> 1, calls |-> <<>>] ELSE B(g[k - 1])]
           T == {m \in Nat : \E g : g = E(g, m)}
           I == CHOOSE g : g = E(g, Len(t))
<1>1. Len(t) \in Nat
    OBVIOUS
<1>2. PassCalls(name, t) = Append(I[Len(t)].calls, Keep(SubSeq(t, I[Len(t)].flushed, Len(t))))
    BY Zenon DEF PassCalls, Repeat
<1> HIDE DEF B
<1>3. 0 \in T
    <2>1. [k \in 0..0 |-> [at |-> 1, flushed |-> 1, calls |-> <<>>]] = E([k \in 0..0 |-> [at |-> 1, flushed |-> 1, calls |-> <<>>]], 0)
        OBVIOUS
    <2> HIDE DEF E
    <2> QED BY <2>1
<1>4. ASSUME NEW m \in Nat, m \in T PROVE m + 1 \in T
    <2>1. PICK g : g = E(g, m)
        BY <1>4
    <2> DEFINE h == [k \in 0..m + 1 |-> IF k = m + 1 THEN B(g[m]) ELSE g[k]]
    <2>2. \A k \in 0..m : g[k] = IF k = 0 THEN [at |-> 1, flushed |-> 1, calls |-> <<>>] ELSE B(g[k - 1])
        BY <2>1
    <2>3. ASSUME NEW k \in 0..m + 1 PROVE h[k] = IF k = 0 THEN [at |-> 1, flushed |-> 1, calls |-> <<>>] ELSE B(h[k - 1])
        <3>1. CASE k = m + 1
            <4>1. k # 0 /\ k - 1 = m /\ m \in 0..m + 1 /\ m # m + 1
                BY <3>1
            <4>2. h[k] = B(g[m]) /\ h[m] = g[m]
                BY <3>1, <4>1
            <4> HIDE DEF h
            <4> QED BY <4>1, <4>2
        <3>2. CASE k # m + 1
            <4>1. k \in 0..m /\ (k # 0 => k - 1 \in 0..m + 1 /\ k - 1 # m + 1)
                BY <3>2
            <4>2. h[k] = g[k] /\ (k # 0 => h[k - 1] = g[k - 1])
                BY <3>2, <4>1
            <4> HIDE DEF h
            <4> QED BY <2>2, <4>1, <4>2
        <3> QED BY <3>1, <3>2
    <2>4. h = E(h, m + 1)
        <3>1. h = [k \in 0..m + 1 |-> h[k]]
            OBVIOUS
        <3> HIDE DEF h
        <3> QED BY <2>3, <3>1
    <2> HIDE DEF E, h
    <2> QED BY <2>4
<1>5. \A m \in Nat : m \in T
    <2> HIDE DEF T
    <2> QED BY <1>3, <1>4, SetInduction
<1>6. I = E(I, Len(t))
    <2>1. \E g : g = E(g, Len(t))
        BY <1>1, <1>5
    <2> HIDE DEF E
    <2> QED BY <2>1, Zenon
<1>7. I[0] = [at |-> 1, flushed |-> 1, calls |-> <<>>] /\ \A k \in 1..Len(t) : I[k] = B(I[k - 1])
    <2> HIDE DEF I
    <2>1. \A k \in 0..Len(t) : I[k] = IF k = 0 THEN [at |-> 1, flushed |-> 1, calls |-> <<>>] ELSE B(I[k - 1])
        BY <1>6
    <2>2. 0 \in 0..Len(t) /\ \A k \in 1..Len(t) : k \in 0..Len(t) /\ k # 0
        BY <1>1
    <2> HIDE DEF E
    <2> QED BY <2>1, <2>2
<1> HIDE DEF I
<1>8. PassRun(I, name, t)
    BY <1>2, <1>7, Zenon DEF B, PassRun
<1> QED BY <1>8

(* A pass hands over the whole text.                                       *)
LEMMA PassHands ==
    ASSUME NEW t \in Seq(Chars), NEW name \in {"nfc", "fold", "hangul", "lookalike", "separator"}
    PROVE  Hands(PassCalls(name, t), t, 0, Len(t))
<1> DEFINE N == Len(t)
           A(l) == Apply(name, t, l)
<1>1. N \in Nat
    BY LenProperties
<1>2. PICK V : /\ V[0] = [at |-> 1, flushed |-> 1, calls |-> <<>>]
               /\ \A k \in 1..N : V[k] = A(V[k - 1])
               /\ PassCalls(name, t) = Append(V[N].calls, Keep(SubSeq(t, V[N].flushed, N)))
    <2>1. PICK V : PassRun(V, name, t)
        BY <1>1, PassLoop
    <2> QED BY <2>1 DEF PassRun
<1> DEFINE Go(k, at, f, calls) ==
                /\ V[k] = [at |-> at, flushed |-> f, calls |-> calls]
                /\ at \in 1..N + 1 /\ f \in 1..N + 1 /\ f <= at /\ Hands(calls, t, 0, f - 1)
           At_(k) == \E at, f, calls : Go(k, at, f, calls)
           T == {k \in Nat : k <= N => At_(k)}
<1>3. At_(0)
    <2>1. 1 - 1 = 0 /\ 0 \in 0..Len(t) /\ 1 \in 1..N + 1 /\ 1 <= 1
        BY <1>1
    <2>2. Hands(<<>>, t, 0, 1 - 1)
        BY <2>1, HandsNone
    <2>3. Go(0, 1, 1, <<>>)
        BY <1>2, <2>1, <2>2
    <2> HIDE DEF Go
    <2> QED BY <2>3
<1>4. ASSUME NEW k \in Nat, k + 1 <= N, NEW at, NEW f, NEW calls, Go(k, at, f, calls)
      PROVE  At_(k + 1)
    <2>1. k + 1 \in 1..N /\ (k + 1) - 1 = k
        BY <1>1, <1>4
    <2>2. V[k + 1] = A(V[k])
        BY <1>2, <2>1
    <2> DEFINE v == V[k]
    <2>3. v.at = at /\ v.flushed = f /\ v.calls = calls /\ v = [at |-> at, flushed |-> f, calls |-> calls]
        BY <1>4
    <2>4. at \in 1..N + 1 /\ f \in 1..N + 1 /\ f <= at /\ Hands(calls, t, 0, f - 1)
        BY <1>4
    <2> HIDE DEF v
    <2>5. CASE at > N
        <3>1. A(v) = v
            BY <2>3, <2>5 DEF Apply
        <3>2. Go(k + 1, at, f, calls)
            BY <2>2, <2>3, <2>4, <3>1 DEF v
        <3> HIDE DEF Go
        <3> QED BY <3>2
    <2>6. CASE ~(at > N)
        <3> DEFINE g == At(name, t, at)
                   kept == Keep(SubSeq(t, f, at - 1))
                   c2 == calls \o <<kept>> \o g.calls
        <3>1. at \in 1..Len(t) /\ f \in 1..Len(t) + 1 /\ at \in f..Len(t) + 1
            BY <1>1, <2>4, <2>6
        <3>2. FindOk(g, t, at)
            BY <3>1, AtFinds
        <3>3. Handed(kept, t, f - 1, at - 1) /\ f - 1 \in 0..Len(t)
            BY <3>1, KeepHanded
        <3>4. A(v) = IF g.calls = <<>> THEN [at |-> at + g.len, flushed |-> f, calls |-> calls]
                     ELSE [at |-> at + g.len, flushed |-> at + g.len, calls |-> c2]
            <4> HIDE DEF N
            <4>1. ~(v.at > Len(t))
                BY <2>3, <2>6 DEF N
            <4> QED BY <2>3, <4>1, Zenon DEF Apply
        <3> HIDE DEF g, kept
        <3>5. g.len \in Nat /\ at + g.len \in 1..N + 1 /\ f <= at + g.len
            BY <1>1, <2>4, <3>1, <3>2 DEF FindOk
        <3>6. CASE g.calls = <<>>
            <4>1. Go(k + 1, at + g.len, f, calls)
                BY <2>2, <2>4, <3>4, <3>5, <3>6 DEF v
            <4> HIDE DEF Go
            <4> QED BY <4>1
        <3>7. CASE g.calls # <<>>
            <4>1. Hands(g.calls, t, at - 1, at + g.len - 1)
                BY <3>2, <3>7 DEF FindOk
            <4>2. Hands(<<kept>>, t, f - 1, at - 1)
                BY <3>3, HandsOne
            <4>3. Hands(calls \o <<kept>>, t, 0, at - 1)
                BY <2>4, <4>2, HandsConcat
            <4>4. Hands(c2, t, 0, at + g.len - 1)
                BY <4>1, <4>3, HandsConcat
            <4> HIDE DEF c2
            <4>5. at + g.len <= at + g.len
                BY <1>1, <3>5
            <4>6. V[k + 1] = [at |-> at + g.len, flushed |-> at + g.len, calls |-> c2]
                BY <2>2, <3>4, <3>7 DEF v
            <4> DEFINE d == at + g.len
            <4>7. V[k + 1] = [at |-> d, flushed |-> d, calls |-> c2] /\ d \in 1..N + 1 /\ d <= d
                BY <3>5, <4>5, <4>6
            <4>8. Hands(c2, t, 0, d - 1)
                <5>1. d - 1 = at + g.len - 1
                    BY <1>1, <3>1, <3>5
                <5> QED BY <4>4, <5>1
            <4> HIDE DEF d
            <4>9. Go(k + 1, d, d, c2)
                BY <4>7, <4>8
            <4> HIDE DEF Go
            <4> QED BY <4>9
        <3> QED BY <3>6, <3>7
    <2> QED BY <2>5, <2>6
<1> HIDE DEF Go, N
<1>5. At_(N)
    <2>1. 0 \in T
        BY <1>3
    <2>2. ASSUME NEW k \in Nat, k \in T PROVE k + 1 \in T
        <3>1. k + 1 <= N => k <= N
            BY <1>1
        <3> QED BY <1>4, <2>2, <3>1
    <2>3. \A k \in Nat : k \in T
        <3> HIDE DEF T
        <3> QED BY <2>1, <2>2, SetInduction
    <2> QED BY <1>1, <2>3
<1>6. PICK at, f, calls : Go(N, at, f, calls)
    BY <1>5
<1>7. /\ V[N].calls = calls /\ V[N].flushed = f
      /\ f \in 1..N + 1 /\ Hands(calls, t, 0, f - 1)
    BY <1>6 DEF Go
<1>8. Handed(Keep(SubSeq(t, f, N)), t, f - 1, N)
    <2>1. f \in 1..Len(t) + 1 /\ Len(t) + 1 \in f..Len(t) + 1 /\ (Len(t) + 1) - 1 = N
        BY <1>1, <1>7 DEF N
    <2>2. Handed(Keep(SubSeq(t, f, (Len(t) + 1) - 1)), t, f - 1, (Len(t) + 1) - 1)
        BY <2>1, KeepHanded
    <2> QED BY <2>1, <2>2
<1>9. Hands(Append(calls, Keep(SubSeq(t, f, N))), t, 0, N)
    BY <1>7, <1>8, HandsAppend
<1> QED BY <1>2, <1>7, <1>9 DEF N

-----------------------------------------------------------------------------
(* The inductive invariant: the table is made of sound segments that tile  *)
(* the source and end, in the text, between two of its characters.         *)
Mapped ==
    /\ source \in Seq(Chars) /\ text \in Seq(Chars) /\ pass \in Nat \ {0} /\ failed = FALSE
    /\ Table(map, Nat \X Nat, Points(text))
    /\ SrcEnd(map) = Size(source) /\ DstEnd(map) = Size(text)

(* The invariant says more than validate and the ends.                     *)
LEMMA MappedIsValid == Mapped => MapIsValid
<1> SUFFICES ASSUME Mapped PROVE MapIsValid
    OBVIOUS
<1>1. Points(text) \in SUBSET (Nat \X Nat) /\ Nat \X Nat \in SUBSET (Nat \X Nat)
    BY PointsRuled DEF Mapped, Ruler
<1>2. Valid(map)
    BY <1>1, TableIsValid DEF Mapped
<1> QED BY <1>2 DEF Mapped, MapIsValid

(* The table of the source itself.                                         *)
LEMMA MappedAtFirst == NormInit => Mapped
<1> SUFFICES ASSUME NormInit PROVE Mapped
    OBVIOUS
<1>1. source \in Seq(Chars)
    <2>1. PICK in \in Inputs : source = in.text
        BY DEF NormInit
    <2>2. in.text \in Seq(Alphabet)
        BY InputsAssumption
    <2> QED BY <2>1, <2>2, AlphabetAssumption, SeqMonotonic DEF Chars
<1>2. pass = 1 /\ text = source /\ map = IdentityMap(source) /\ failed = FALSE
    BY DEF NormInit
<1>3. Built(IdentityMap(source), source, source, Len(source))
    BY <1>1, IdentityTable
<1>4. Table(map, Nat \X Nat, Points(text))
    <2>1. Table(map, Points(source), Points(source)) /\ Points(source) \subseteq Nat \X Nat
        BY <1>1, <1>2, <1>3, PointsRuled DEF Built, Ruler
    <2> QED BY <1>2, <2>1 DEF Table, Sound
<1>5. SrcEnd(map) = Size(source) /\ DstEnd(map) = Size(text)
    BY <1>1, <1>2, <1>3, PointRules DEF Built
<1> QED BY <1>1, <1>2, <1>4, <1>5 DEF Mapped

(* A pass: the text is handed over, the builder's table is sound, and      *)
(* compose joins it to the table so far.                                   *)
LEMMA MappedByPass ==
    ASSUME Mapped, NEW name \in {"nfc", "fold", "hangul", "lookalike", "separator"}
    PROVE  LET calls == PassCalls(name, text)
               composed == Compose(map, BuildMap(calls)) IN
           /\ BuildText(calls) \in Seq(Chars) /\ composed.ok = TRUE
           /\ Table(composed.map, Nat \X Nat, Points(BuildText(calls)))
           /\ SrcEnd(composed.map) = Size(source) /\ DstEnd(composed.map) = Size(BuildText(calls))
<1> DEFINE calls == PassCalls(name, text)
           outer == BuildMap(calls)
           w == BuildText(calls)
           P == Points(text)
           Q == Points(w)
<1>1. text \in Seq(Chars) /\ Table(map, Nat \X Nat, P) /\ DstEnd(map) = Size(text) /\ SrcEnd(map) = Size(source)
    BY DEF Mapped
<1>2. Hands(calls, text, 0, Len(text))
    BY <1>1, PassHands
<1> HIDE DEF calls
<1>3. Built(outer, w, text, Len(text))
    BY <1>1, <1>2, BuildTable
<1> HIDE DEF outer, w
<1>4. w \in Seq(Chars) /\ Table(outer, P, Q) /\ Carries(outer, P, Q) /\ SrcEnd(outer) = Size(text)
      /\ DstEnd(outer) = Size(w)
    BY <1>1, <1>3, PointRules DEF Built
<1>5. Ruler(P) /\ Origin \in P /\ Origin \in Q /\ Q \subseteq Nat \X Nat
    BY <1>1, <1>4, PointsRuled DEF Ruler
<1> HIDE DEF P, Q
<1>6. Joint(map, outer, P, Q)
    BY <1>1, <1>4, <1>5 DEF Joint
<1>7. /\ Compose(map, outer).ok = TRUE
      /\ Table(Compose(map, outer).map, Nat \X Nat, Q)
      /\ SrcEnd(Compose(map, outer).map) = SrcEnd(map)
      /\ DstEnd(Compose(map, outer).map) = DstEnd(outer)
    BY <1>6, ComposeTable
<1> QED BY <1>1, <1>4, <1>7 DEF calls, outer, w, Q

(* normalize keeps a valid table of the whole text: whatever the source    *)
(* and the passes switched on, compose succeeds at every pass and the      *)
(* table tiles the source and the normalised text, segment by segment.     *)
THEOREM TablesStayValid == NormSpec => []MapIsValid
<1>1. NormInit => Mapped
    BY MappedAtFirst
<1>2. Mapped /\ [RunPass]_nvars => Mapped'
    <2> SUFFICES ASSUME Mapped, [RunPass]_nvars PROVE Mapped'
        OBVIOUS
    <2>1. CASE UNCHANGED nvars
        BY <2>1 DEF Mapped, nvars
    <2>2. CASE RunPass
        <3> DEFINE name == Passes[pass]
                   calls == PassCalls(name, text)
                   composed == Compose(map, BuildMap(calls))
        <3>1. pass \in 1..5 /\ name \in {"nfc", "fold", "hangul", "lookalike", "separator"}
            BY <2>2 DEF Mapped, RunPass, Passes
        <3>2. pass' = pass + 1 /\ source' = source /\ pass' \in Nat \ {0} /\ source' \in Seq(Chars)
            BY <2>2 DEF RunPass, Mapped
        <3>3. CASE UNCHANGED <<text, map, failed>>
            BY <3>2, <3>3 DEF Mapped
        <3>4. CASE text' = BuildText(calls) /\ map' = composed.map /\ failed' = ~composed.ok
            <4>1. /\ BuildText(calls) \in Seq(Chars) /\ composed.ok = TRUE
                  /\ Table(composed.map, Nat \X Nat, Points(BuildText(calls)))
                  /\ SrcEnd(composed.map) = Size(source)
                  /\ DstEnd(composed.map) = Size(BuildText(calls))
                BY <3>1, MappedByPass
            <4> HIDE DEF calls, composed, name
            <4>2. failed' = FALSE
                BY <3>4, <4>1
            <4> QED BY <3>2, <3>4, <4>1, <4>2 DEF Mapped
        <3> QED
            <4> HIDE DEF calls, composed
            <4> QED BY <2>2, <3>3, <3>4 DEF RunPass, calls, composed
    <2> QED BY <2>1, <2>2
<1>3. Mapped => MapIsValid
    BY MappedIsValid
<1> QED BY <1>1, <1>2, <1>3, PTL DEF NormSpec
=============================================================================
