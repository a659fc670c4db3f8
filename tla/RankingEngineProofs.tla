------------------------ MODULE RankingEngineProofs ------------------------
(***************************************************************************)
(* Proofs about RankingEngine, for inputs, configurations and capacities   *)
(* of any size.  The pool: the slab and the heap stay consistent, the      *)
(* memory is bounded by the capacity, and the pool is the best of what was *)
(* read, whatever the order of arrival.  The choice: greedy and repair     *)
(* keep every bound, nothing that fits is left out, and the margin is not  *)
(* negative.  The accounts: no candidate disappears.                       *)
(***************************************************************************)
EXTENDS RankingEngine, DataInduction, SequenceTheorems, TLAPS

(* What the heap orders by.                                                *)
Key(c) == admission_value(eng, item[c])
Id(c) == item[c].id

(* Every slot leads to a candidate that was read, and to no other slot's.  *)
SlotsLead ==
    \A s \in heap : /\ s.index \in 1..Len(slab)
                    /\ Staged(s) \in Read
                    /\ s = Slot(Staged(s), s.index)
SlotsApart == \A s, t \in heap : s # t => s.index # t.index /\ Staged(s) # Staged(t)

(* Positions are empty exactly when they are free, and the others are      *)
(* those of the slots.  There is at most one free position, and only when  *)
(* the heap is full: a position is freed only by an eviction or a refusal. *)
Positions ==
    /\ \A i \in 1..Len(slab) : slab[i] = None <=> (Len(free) = 1 /\ free[1] = i)
    /\ \A i \in 1..Len(slab) : slab[i] # None => \E s \in heap : s.index = i
    /\ Len(free) <= 1
    /\ Len(free) = 1 => free[1] \in 1..Len(slab) /\ Cardinality(heap) = pool_capacity(eng)
    /\ Len(slab) = Cardinality(heap) + Len(free)

PoolType ==
    /\ eng \in Engines /\ item \in Feeds
    /\ pc = "read" => Valid(eng)
    /\ unread \subseteq DOMAIN item
    /\ IsFiniteSet(heap) /\ Cardinality(heap) <= pool_capacity(eng)
    /\ slab \in Seq(Candidates \cup {None})
    /\ free \in Seq(Nat)

PoolInv == PoolType /\ SlotsLead /\ SlotsApart /\ Positions /\ PoolIsBest

(* The pool of a run that has read nothing.                                *)
LEMMA PoolInit == Init => PoolInv
<1> SUFFICES ASSUME Init PROVE PoolInv
    OBVIOUS
<1>1. IsFiniteSet({}) /\ Cardinality({}) = 0
    BY FS_EmptySet
<1>2. pool_capacity(eng) \in Nat \ {0}
    BY PoolAssumption DEF Init
<1>3. PoolType
    BY <1>1, <1>2 DEF Init, PoolType
<1>4. SlotsLead /\ SlotsApart /\ Positions
    BY <1>1 DEF Init, SlotsLead, SlotsApart, Positions
<1>5. PoolIsBest
    BY DEF Init, PoolIsBest, Read
<1> QED BY <1>3, <1>4, <1>5 DEF PoolInv

(* Steps that leave the pool alone.                                        *)
LEMMA PoolKept ==
    ASSUME PoolInv, UNCHANGED <<eng, item, poolVars>>, pc' = "read" => Valid(eng)
    PROVE  PoolInv'
BY DEF PoolInv, PoolType, SlotsLead, SlotsApart, Positions, PoolIsBest, poolVars,
       Read, Staged, Slot, Eligible, Allowed, Full, Better, Valid, Scored

(* What the engine reads out of its configuration and input.               *)
LEMMA Configured ==
    ASSUME PoolInv, pc = "read"
    PROVE  /\ pool_capacity(eng) \in Nat \ {0}
           /\ \A c \in DOMAIN item : c \in Candidates /\ Key(c) \in Int /\ Id(c) \in Int
           /\ None \notin Candidates
           /\ Cardinality(heap) \in Nat
<1>1. Cardinality(heap) \in Nat
    BY FS_CardinalityType DEF PoolInv, PoolType
<1> QED BY <1>1, PoolAssumption DEF PoolInv, PoolType, Key, Id

(* Staging a candidate uses up the free position, or makes a new one; no   *)
(* slot has that position yet, and no position is empty afterwards.        *)
LEMMA Placing ==
    ASSUME PoolInv, pc = "read", NEW c \in unread
    PROVE  /\ Placed(c) \in Seq(Candidates)
           /\ Len(Placed(c)) = Cardinality(heap) + 1
           /\ Index \in 1..Len(Placed(c)) /\ Placed(c)[Index] = c
           /\ Rest = <<>>
           /\ \A s \in heap : /\ s.index \in 1..Len(Placed(c)) /\ s.index # Index
                              /\ Placed(c)[s.index] = Staged(s)
           /\ \A i \in 1..Len(Placed(c)) : i = Index \/ \E s \in heap : s.index = i
<1>1. /\ c \in Candidates /\ None \notin Candidates /\ Cardinality(heap) \in Nat
      /\ slab \in Seq(Candidates \cup {None}) /\ free \in Seq(Nat)
      /\ SlotsLead /\ Positions
    BY Configured DEF PoolInv, PoolType
<1>2. \A s \in heap : s.index \in 1..Len(slab) /\ Staged(s) \in Candidates
    BY <1>1, Configured DEF SlotsLead, Read
<1>3. CASE free = <<>>
    <2>1. /\ Index = Len(slab) + 1 /\ Placed(c) = Append(slab, c) /\ Rest = <<>>
          /\ Len(free) = 0
        BY <1>3 DEF Index, Placed, Rest
    <2>2. \A i \in 1..Len(slab) : slab[i] \in Candidates /\ \E s \in heap : s.index = i
        BY <1>1, <2>1 DEF Positions
    <2>3. Len(slab) = Cardinality(heap)
        BY <1>1, <2>1 DEF Positions
    <2>4. slab \in Seq(Candidates)
        BY <1>1, <2>2
    <2> QED BY <1>1, <1>2, <2>1, <2>2, <2>3, <2>4 DEF Staged
<1>4. CASE free # <<>>
    <2>0. Len(free) \in Nat \ {0}
        BY <1>1, <1>4, EmptySeq
    <2>1. Len(free) = 1 /\ free[1] \in 1..Len(slab) /\ Len(slab) = Cardinality(heap) + 1
        <3>1. Len(free) <= 1
            BY <1>1, Zenon DEF Positions
        <3>2. Len(free) = 1
            <4> DEFINE n == Len(free)
            <4>1. n \in Nat /\ n # 0 /\ n <= 1
                BY <2>0, <3>1
            <4> HIDE DEF n
            <4>2. n = 1
                BY <4>1
            <4> QED BY <4>2 DEF n
        <3> QED BY <1>1, <3>2 DEF Positions
    <2>2. /\ Index = free[1] /\ Placed(c) = [slab EXCEPT ![Index] = c] /\ Rest = <<>>
        BY <1>1, <1>4, <2>1 DEF Index, Placed, Rest
    <2>3. \A i \in 1..Len(slab) : i # Index => slab[i] \in Candidates /\ \E s \in heap : s.index = i
        BY <1>1, <2>1, <2>2 DEF Positions
    <2>4. \A s \in heap : s.index # Index
        BY <1>1, <1>2, <2>1, <2>2 DEF Positions, Staged
    <2>5. /\ Placed(c) \in Seq(Candidates \cup {None}) /\ Len(Placed(c)) = Len(slab)
          /\ \A i \in 1..Len(slab) : Placed(c)[i] = IF i = Index THEN c ELSE slab[i]
        BY <1>1, <2>1, <2>2, ExceptSeq
    <2>6. \A i \in 1..Len(Placed(c)) : Placed(c)[i] \in Candidates
        BY <1>1, <2>3, <2>5
    <2>7. Placed(c) \in Seq(Candidates)
        <3> DEFINE P == Placed(c)
        <3>1. P \in Seq(Candidates \cup {None}) /\ \A i \in 1..Len(P) : P[i] \in Candidates
            BY <2>5, <2>6
        <3> HIDE DEF P
        <3>2. P \in Seq(Candidates)
            BY <3>1
        <3> QED BY <3>2 DEF P
    <2> QED BY <1>1, <1>2, <2>1, <2>2, <2>3, <2>4, <2>5, <2>7 DEF Staged
<1> QED BY <1>3, <1>4

-----------------------------------------------------------------------------
(* Better orders slots totally, up to equal keys and identifiers.          *)
Comparable(s) == s.key \in Int /\ s.id \in Int

LEMMA Order ==
    ASSUME NEW r, NEW s, NEW t, Comparable(r), Comparable(s), Comparable(t)
    PROVE  /\ ~Better(s, r) /\ ~Better(t, s) => ~Better(t, r)
           /\ Better(r, s) => ~Better(s, r)
BY DEF Comparable, Better

(* What the slots of the heap, and of any candidate, are like.             *)
LEMMA Slots ==
    ASSUME PoolInv, pc = "read"
    PROVE  /\ \A s \in heap : Comparable(s) /\ Staged(s) \in Read /\ s = Slot(Staged(s), s.index)
           /\ \A c \in DOMAIN item : \A i : /\ Comparable(Slot(c, i)) /\ Slot(c, i).index = i
                                           /\ Slot(c, i).key = Key(c) /\ Slot(c, i).id = Id(c)
           /\ Read \subseteq DOMAIN item
<1>1. \A c \in DOMAIN item : \A i : /\ Comparable(Slot(c, i)) /\ Slot(c, i).index = i
                                    /\ Slot(c, i).key = Key(c) /\ Slot(c, i).id = Id(c)
    BY Configured DEF Comparable, Slot, Key, Id
<1>2. \A s \in heap : Staged(s) \in Read /\ s = Slot(Staged(s), s.index)
    BY DEF PoolInv, SlotsLead
<1>3. Read \subseteq DOMAIN item
    BY DEF Read
<1> QED BY <1>1, <1>2, <1>3, Zenon

(* The position of a slot does not matter to its place in the order.       *)
LEMMA SamePlace ==
    ASSUME PoolInv, pc = "read", NEW c \in DOMAIN item, NEW i, NEW j, NEW s
    PROVE  /\ Better(Slot(c, i), s) <=> Better(Slot(c, j), s)
           /\ Better(s, Slot(c, i)) <=> Better(s, Slot(c, j))
BY DEF Better, Slot

(* What reading a candidate leaves alone.                                  *)
LEMMA Reading ==
    ASSUME PoolInv, NEW c \in unread, Reads(c)
    PROVE  /\ pc = "read" /\ pc' = "read" /\ eng' = eng /\ item' = item
           /\ c \in DOMAIN item /\ c \notin Read /\ Read' = Read \cup {c}
           /\ pool_capacity(eng)' = pool_capacity(eng) /\ Valid(eng)
           /\ \A d, i : Slot(d, i)' = Slot(d, i)
           /\ \A d : Eligible(d)' <=> Eligible(d)
           /\ unread' \subseteq DOMAIN item
BY DEF Reads, PoolInv, PoolType, Read, Slot, Eligible, Allowed

(* A candidate the filters stop leaves the pool alone.                     *)
LEMMA RejectKeeps ==
    ASSUME PoolInv, NEW c \in unread, RejectUnary(c) \/ RejectUnscored(c)
    PROVE  PoolInv'
<1>1. Reads(c) /\ ~Eligible(c) /\ UNCHANGED <<heap, slab, free>>
    BY DEF RejectUnary, RejectUnscored, Eligible
<1>2. PoolType'
    BY <1>1, Reading DEF PoolInv, PoolType
<1>3. SlotsLead' /\ SlotsApart' /\ Positions'
    BY <1>1, Reading DEF PoolInv, SlotsLead, SlotsApart, Positions, Staged
<1>4. PoolIsBest'
    BY <1>1, Reading DEF PoolInv, PoolIsBest, Full, Staged, Better
<1> QED BY <1>2, <1>3, <1>4 DEF PoolInv

(* A slot that comes into a heap with room, or for the worst slot: what    *)
(* the heap, and the slots that stay, are like.                            *)
LEMMA NewSlot ==
    ASSUME PoolInv, NEW c \in unread, Reads(c)
    PROVE  LET n == Slot(c, Index) IN
           /\ n \notin heap /\ n.index = Index /\ Comparable(n)
           /\ \A s \in heap : s.index # Index /\ Staged(s) # c
<1>1. \A s \in heap : s.index # Index /\ Staged(s) # c
    BY Reading, Placing, Slots, Zenon
<1>2. Slot(c, Index).index = Index /\ Comparable(Slot(c, Index))
    BY Reading, Slots, Zenon
<1>3. Slot(c, Index) \notin heap
    BY <1>1, <1>2, Zenon
<1> QED BY <1>1, <1>2, <1>3

(* A heap with room takes every candidate.                                 *)
LEMMA AcceptKeeps ==
    ASSUME PoolInv, NEW c \in unread, Accept(c)
    PROVE  PoolInv'
<1> DEFINE n == Slot(c, Index)
           P == Placed(c)
<1>1. /\ Reads(c) /\ Cardinality(heap) \in Nat /\ Cardinality(heap) < pool_capacity(eng)
      /\ pool_capacity(eng) \in Nat
      /\ heap' = heap \cup {n} /\ slab' = P /\ free' = <<>>
    BY Configured, Placing, Reading DEF Accept, Full
<1>2. n \notin heap /\ n.index = Index /\ \A s \in heap : s.index # Index /\ Staged(s) # c
    BY <1>1, NewSlot
<1>3. IsFiniteSet(heap') /\ Cardinality(heap') = Cardinality(heap) + 1
    BY <1>1, <1>2, FS_AddElement DEF PoolInv, PoolType
<1>4. /\ P \in Seq(Candidates) /\ Len(P) = Cardinality(heap) + 1
      /\ Index \in 1..Len(P) /\ P[Index] = c
      /\ \A s \in heap : s.index \in 1..Len(P) /\ P[s.index] = Staged(s)
      /\ \A i \in 1..Len(P) : i = Index \/ \E s \in heap : s.index = i
      /\ None \notin Candidates
    BY <1>1, Reading, Placing, Configured
<1>5. \A s \in heap : s = Slot(Staged(s), s.index) /\ Staged(s) \in Read
    BY <1>1, Reading, Slots
<1>6. /\ \A s \in heap : Staged(s)' = Staged(s)
      /\ slab'[n.index] = c
    BY <1>1, <1>2, <1>4 DEF Staged
<1>7. /\ Read' = Read \cup {c} /\ c \notin Read
      /\ \A d, i : Slot(d, i)' = Slot(d, i)
      /\ \A d : Eligible(d)' <=> Eligible(d)
    BY <1>1, Reading
<1> HIDE DEF P
<1>8. PoolType'
    <2>1. P \in Seq(Candidates \cup {None}) /\ <<>> \in Seq(Nat)
        BY <1>4, SeqMonotonic
    <2>2. eng' = eng /\ item' = item /\ unread' \subseteq DOMAIN item /\ Valid(eng)
        BY <1>1, Reading
    <2>3. Cardinality(heap') <= pool_capacity(eng)
        BY <1>1, <1>3
    <2> QED BY <1>1, <1>3, <2>1, <2>2, <2>3 DEF PoolInv, PoolType
<1>9. SlotsLead'
    <2> SUFFICES ASSUME NEW s \in heap'
                 PROVE  /\ s.index \in 1..Len(slab') /\ slab'[s.index] \in Read'
                        /\ s = Slot(slab'[s.index], s.index)
        BY <1>7 DEF SlotsLead, Staged
    <2>1. CASE s \in heap
        BY <1>1, <1>4, <1>5, <1>7, <2>1
    <2>2. CASE s = n
        BY <1>1, <1>2, <1>4, <1>6, <1>7, <2>2
    <2> QED BY <1>1, <2>1, <2>2
<1>10. SlotsApart'
    <2> SUFFICES ASSUME NEW s \in heap', NEW t \in heap', s # t
                 PROVE  s.index # t.index /\ slab'[s.index] # slab'[t.index]
        BY DEF SlotsApart, Staged
    <2>1. CASE s \in heap /\ t \in heap
        BY <1>6, <2>1 DEF PoolInv, SlotsApart, Staged
    <2>2. CASE s = n /\ t \in heap
        BY <1>2, <1>6, <2>2 DEF Staged
    <2>3. CASE s \in heap /\ t = n
        BY <1>2, <1>6, <2>3 DEF Staged
    <2> QED BY <1>1, <2>1, <2>2, <2>3
<1>11. Positions'
    <2>1. \A i \in 1..Len(P) : P[i] # None /\ \E s \in heap' : s.index = i
        BY <1>1, <1>2, <1>4
    <2>2. Len(free') = 0 /\ Len(slab') = Cardinality(heap')
        BY <1>1, <1>3, <1>4
    <2>3. Cardinality(heap') \in Nat /\ slab' = P
        BY <1>1, <1>3
    <2> HIDE DEF n
    <2>4. /\ Len(free') <= 1 /\ Len(free') # 1
          /\ Len(slab') = Cardinality(heap') + Len(free')
        BY <2>2, <2>3
    <2> QED BY <2>1, <2>3, <2>4, Zenon DEF Positions
<1>12. PoolIsBest'
    <2> SUFFICES ASSUME NEW d \in Read', Eligible(d)
                 PROVE  \E s \in heap' : slab'[s.index] = d
        BY <1>7 DEF PoolIsBest, Staged
    <2>1. CASE d = c
        BY <1>1, <1>6, <2>1
    <2>2. CASE d \in Read
        <3>1. \E s \in heap : Staged(s) = d
            BY <1>1, <2>2 DEF PoolInv, PoolIsBest, Full
        <3> QED BY <1>1, <1>6, <3>1 DEF Staged
    <2> QED BY <1>7, <2>1, <2>2
<1> QED BY <1>8, <1>9, <1>10, <1>11, <1>12 DEF PoolInv

(* A full heap gives the worst slot up for a better one.                   *)
LEMMA EvictKeeps ==
    ASSUME PoolInv, NEW c \in unread, Evict(c)
    PROVE  PoolInv'
<1> DEFINE n == Slot(c, Index)
           P == Placed(c)
<1>1. PICK w \in heap : /\ IsWorst(w) /\ Better(n, w)
                        /\ heap' = (heap \ {w}) \cup {n}
                        /\ slab' = [P EXCEPT ![w.index] = None]
                        /\ free' = Append(Rest, w.index)
    BY DEF Evict
<1>2. Reads(c) /\ Full
    BY DEF Evict
<1>3. /\ P \in Seq(Candidates) /\ Len(P) = Cardinality(heap) + 1
      /\ Index \in 1..Len(P) /\ P[Index] = c /\ Rest = <<>>
      /\ \A s \in heap : s.index \in 1..Len(P) /\ P[s.index] = Staged(s)
      /\ \A i \in 1..Len(P) : i = Index \/ \E s \in heap : s.index = i
      /\ None \notin Candidates
    BY <1>2, Reading, Placing, Configured
<1>4. free' = <<w.index>> /\ w.index \in Nat
    BY <1>1, <1>3
<1>5. /\ n \notin heap /\ n.index = Index /\ Comparable(n)
      /\ \A s \in heap : s.index # Index /\ Staged(s) # c
    BY <1>2, NewSlot
<1>6. /\ Cardinality(heap) = pool_capacity(eng) /\ Cardinality(heap) \in Nat \ {0}
      /\ IsFiniteSet(heap)
    <2>1. /\ Cardinality(heap) \in Nat /\ pool_capacity(eng) \in Nat \ {0}
          /\ Cardinality(heap) <= pool_capacity(eng) /\ Cardinality(heap) >= pool_capacity(eng)
          /\ IsFiniteSet(heap)
        BY <1>2, Reading, Configured DEF PoolInv, PoolType, Full
    <2> QED BY <2>1
<1>7. IsFiniteSet(heap') /\ Cardinality(heap') = Cardinality(heap)
    <2>1. IsFiniteSet(heap \ {w}) /\ Cardinality(heap \ {w}) = Cardinality(heap) - 1
        BY <1>6, FS_RemoveElement
    <2>2. n \notin heap \ {w}
        BY <1>5
    <2> HIDE DEF n
    <2>3. IsFiniteSet(heap') /\ Cardinality(heap') = Cardinality(heap \ {w}) + 1
        BY <1>1, <2>1, <2>2, FS_AddElement
    <2> QED BY <1>6, <2>1, <2>3
<1>8. \A s \in heap : /\ s = Slot(Staged(s), s.index) /\ Staged(s) \in Read /\ Comparable(s)
                     /\ (s # w => s.index # w.index /\ Staged(s) # Staged(w))
    BY <1>2, Reading, Slots DEF PoolInv, SlotsApart
<1>9. /\ slab' \in Seq(Candidates \cup {None}) /\ Len(slab') = Len(P)
      /\ \A i \in 1..Len(P) : slab'[i] = IF i = w.index THEN None ELSE P[i]
    <2>1. P \in Seq(Candidates \cup {None})
        BY <1>3, SeqMonotonic
    <2> HIDE DEF P
    <2> QED BY <1>1, <1>3, <2>1, ExceptSeq
<1>10. /\ \A s \in heap \ {w} : slab'[s.index] = Staged(s)
       /\ slab'[n.index] = c
    BY <1>3, <1>5, <1>8, <1>9
<1>11. /\ Read' = Read \cup {c} /\ c \notin Read
       /\ \A d, i : Slot(d, i)' = Slot(d, i)
       /\ \A d : Eligible(d)' <=> Eligible(d)
       /\ eng' = eng /\ item' = item /\ unread' \subseteq DOMAIN item /\ Valid(eng)
       /\ pool_capacity(eng)' = pool_capacity(eng)
    BY <1>2, Reading
<1> HIDE DEF P
<1>12. PoolType'
    <2>1. free' \in Seq(Nat)
        BY <1>4
    <2>2. Cardinality(heap') <= pool_capacity(eng)
        BY <1>6, <1>7
    <2> QED BY <1>7, <1>9, <1>11, <2>1, <2>2 DEF PoolInv, PoolType
<1>13. SlotsLead'
    <2> SUFFICES ASSUME NEW s \in heap'
                 PROVE  /\ s.index \in 1..Len(slab') /\ slab'[s.index] \in Read'
                        /\ s = Slot(slab'[s.index], s.index)
        BY <1>11 DEF SlotsLead, Staged
    <2>1. CASE s \in heap \ {w}
        BY <1>3, <1>8, <1>9, <1>10, <1>11, <2>1
    <2>2. CASE s = n
        BY <1>3, <1>5, <1>9, <1>10, <1>11, <2>2
    <2> QED BY <1>1, <2>1, <2>2
<1>14. SlotsApart'
    <2> SUFFICES ASSUME NEW s \in heap', NEW t \in heap', s # t
                 PROVE  s.index # t.index /\ slab'[s.index] # slab'[t.index]
        BY DEF SlotsApart, Staged
    <2>1. CASE s \in heap \ {w} /\ t \in heap \ {w}
        BY <1>10, <2>1 DEF PoolInv, SlotsApart
    <2>2. CASE s = n /\ t \in heap \ {w}
        BY <1>5, <1>10, <2>2
    <2>3. CASE s \in heap \ {w} /\ t = n
        BY <1>5, <1>10, <2>3
    <2> QED BY <1>1, <2>1, <2>2, <2>3
<1>15. Positions'
    <2>1. \A i \in 1..Len(slab') : slab'[i] = None <=> i = w.index
        BY <1>3, <1>9, ElementOfSeq
    <2>2. \A i \in 1..Len(slab') : slab'[i] # None => \E s \in heap' : s.index = i
        BY <1>1, <1>3, <1>5, <1>9, <2>1
    <2>3. /\ Len(free') = 1 /\ free'[1] = w.index /\ w.index \in 1..Len(slab')
          /\ Len(slab') = Cardinality(heap') + 1
          /\ Cardinality(heap') = pool_capacity(eng)'
        BY <1>3, <1>4, <1>6, <1>7, <1>9, <1>11
    <2>4. Len(free') <= 1 /\ Len(slab') = Cardinality(heap') + Len(free')
        BY <2>3
    <2> QED BY <2>1, <2>2, <2>3, <2>4, Zenon DEF Positions
<1>16. PoolIsBest'
    <2> SUFFICES ASSUME NEW d \in Read', Eligible(d)
                 PROVE  \/ \E s \in heap' : slab'[s.index] = d
                        \/ \A s \in heap' : ~Better(Slot(d, 0), s)
        <3>1. Full'
            BY <1>6, <1>7, <1>11 DEF Full
        <3> QED BY <1>11, <3>1 DEF PoolIsBest, Staged, Better
    <2>1. CASE d = c
        BY <1>1, <1>10, <2>1
    <2>2. CASE \E s \in heap \ {w} : Staged(s) = d
        BY <1>1, <1>10, <2>2
    <2>3. CASE d \in Read /\ ~Better(Slot(d, 0), w) /\ \A s \in heap : ~Better(Slot(d, 0), s)
        <3>1. Comparable(Slot(d, 0))
            BY <1>2, <2>3, Reading, Slots
        <3>2. ~Better(Slot(d, 0), n)
            BY <1>1, <1>5, <1>8, <2>3, <3>1, Order
        <3> QED BY <1>1, <2>3, <3>2
    <2>4. CASE Staged(w) = d
        <3>1. \A s \in heap : ~Better(Slot(d, 0), s)
            <4>1. w = Slot(d, w.index) /\ d \in DOMAIN item
                BY <1>8, <2>4 DEF Read
            <4>2. \A s \in heap : ~Better(Slot(d, w.index), s)
                BY <1>1, <4>1 DEF IsWorst
            <4> QED BY <1>2, <4>1, <4>2, Reading, SamePlace
        <3> QED BY <1>8, <2>3, <2>4, <3>1
    <2> QED BY <1>11, <2>1, <2>2, <2>3, <2>4 DEF PoolInv, PoolIsBest
<1> QED BY <1>12, <1>13, <1>14, <1>15, <1>16 DEF PoolInv

(* A full heap refuses a candidate no better than its worst.               *)
LEMMA RefuseKeeps ==
    ASSUME PoolInv, NEW c \in unread, Refuse(c)
    PROVE  PoolInv'
<1> DEFINE P == Placed(c)
<1>1. PICK w \in heap : IsWorst(w) /\ ~Better(Slot(c, Index), w)
    BY DEF Refuse
<1>2. /\ Reads(c) /\ Full /\ heap' = heap
      /\ slab' = [P EXCEPT ![Index] = None] /\ free' = Append(Rest, Index)
    BY DEF Refuse
<1>3. /\ P \in Seq(Candidates) /\ Len(P) = Cardinality(heap) + 1
      /\ Index \in 1..Len(P) /\ Rest = <<>>
      /\ \A s \in heap : s.index \in 1..Len(P) /\ s.index # Index /\ P[s.index] = Staged(s)
      /\ \A i \in 1..Len(P) : i = Index \/ \E s \in heap : s.index = i
      /\ None \notin Candidates
    BY <1>2, Reading, Placing, Configured
<1>4. free' = <<Index>> /\ Index \in Nat
    BY <1>2, <1>3
<1>5. /\ Cardinality(heap) = pool_capacity(eng) /\ Cardinality(heap) \in Nat
    <2>1. /\ Cardinality(heap) \in Nat /\ pool_capacity(eng) \in Nat
          /\ Cardinality(heap) <= pool_capacity(eng) /\ Cardinality(heap) >= pool_capacity(eng)
        BY <1>2, Reading, Configured DEF PoolInv, PoolType, Full
    <2> QED BY <2>1
<1>6. /\ slab' \in Seq(Candidates \cup {None}) /\ Len(slab') = Len(P)
      /\ \A i \in 1..Len(P) : slab'[i] = IF i = Index THEN None ELSE P[i]
    <2>1. P \in Seq(Candidates \cup {None})
        BY <1>3, SeqMonotonic
    <2> HIDE DEF P
    <2> QED BY <1>2, <1>3, <2>1, ExceptSeq
<1>7. \A s \in heap : s.index \in 1..Len(slab') /\ slab'[s.index] = Staged(s)
    BY <1>3, <1>6
<1>8. /\ Read' = Read \cup {c}
      /\ \A d, i : Slot(d, i)' = Slot(d, i)
      /\ \A d : Eligible(d)' <=> Eligible(d)
      /\ eng' = eng /\ item' = item /\ unread' \subseteq DOMAIN item /\ Valid(eng)
      /\ pool_capacity(eng)' = pool_capacity(eng)
    BY <1>2, Reading
<1> HIDE DEF P
<1>9. PoolType'
    <2>1. free' \in Seq(Nat)
        BY <1>4
    <2> QED BY <1>2, <1>6, <1>8, <2>1 DEF PoolInv, PoolType
<1>10. SlotsLead'
    <2> SUFFICES ASSUME NEW s \in heap
                 PROVE  /\ s.index \in 1..Len(slab') /\ slab'[s.index] \in Read'
                        /\ s = Slot(slab'[s.index], s.index)
        BY <1>2, <1>8 DEF SlotsLead, Staged
    <2>1. Staged(s) \in Read /\ s = Slot(Staged(s), s.index)
        BY DEF PoolInv, SlotsLead
    <2> QED BY <1>7, <1>8, <2>1
<1>11. SlotsApart'
    BY <1>2, <1>7 DEF PoolInv, SlotsApart, Staged
<1>12. Positions'
    <2>1. \A i \in 1..Len(slab') : slab'[i] = None <=> i = Index
        BY <1>3, <1>6, ElementOfSeq
    <2>2. \A i \in 1..Len(slab') : slab'[i] # None => \E s \in heap' : s.index = i
        BY <1>2, <1>3, <1>6, <2>1
    <2>3. /\ Len(free') = 1 /\ free'[1] = Index /\ Index \in 1..Len(slab')
          /\ Len(slab') = Cardinality(heap') + 1
          /\ Cardinality(heap') = pool_capacity(eng)'
        BY <1>2, <1>3, <1>4, <1>5, <1>6, <1>8
    <2>4. Len(free') <= 1 /\ Len(slab') = Cardinality(heap') + Len(free')
        BY <2>3
    <2> QED BY <2>1, <2>2, <2>3, <2>4, Zenon DEF Positions
<1>13. PoolIsBest'
    <2> SUFFICES ASSUME NEW d \in Read', Eligible(d)
                 PROVE  \/ \E s \in heap' : slab'[s.index] = d
                        \/ \A s \in heap' : ~Better(Slot(d, 0), s)
        <3>1. Full'
            BY <1>2, <1>8 DEF Full
        <3> QED BY <1>8, <3>1 DEF PoolIsBest, Staged, Better
    <2>1. CASE d = c
        <3>1. c \in DOMAIN item /\ pc = "read"
            BY <1>2, Reading
        <3>2. /\ ~Better(Slot(c, 0), w) /\ \A s \in heap : ~Better(w, s)
              /\ Comparable(Slot(c, 0)) /\ \A s \in heap : Comparable(s)
            BY <1>1, <3>1, SamePlace, Slots DEF IsWorst
        <3>3. \A s \in heap : ~Better(Slot(c, 0), s)
            BY <3>2, Order
        <3> QED BY <1>2, <2>1, <3>3
    <2>2. CASE d \in Read
        BY <1>2, <1>7, <2>2 DEF PoolInv, PoolIsBest
    <2> QED BY <1>8, <2>1, <2>2
<1> QED BY <1>9, <1>10, <1>11, <1>12, <1>13 DEF PoolInv

-----------------------------------------------------------------------------
(* Every step of the engine keeps the pool as it should be.                *)
LEMMA PoolStep == PoolInv /\ [Next]_vars => PoolInv'
<1> SUFFICES ASSUME PoolInv, [Next]_vars PROVE PoolInv'
    OBVIOUS
<1>1. CASE Start
    BY <1>1, PoolKept DEF Start
<1>2. ASSUME NEW c \in unread, ReadOne(c) PROVE PoolInv'
    BY <1>2, RejectKeeps, AcceptKeeps, EvictKeeps, RefuseKeeps DEF ReadOne
<1>3. CASE BuildPool \/ BatchMismatch \/ Pick \/ EndCount \/ EndRatio \/ EndGain
    <2>1. UNCHANGED <<eng, item, poolVars>> /\ (pc' = "read" => pc = "read")
        BY <1>3 DEF BuildPool, BatchMismatch, Pick, EndCount, EndRatio, EndGain
    <2> QED BY <2>1, PoolKept DEF PoolInv, PoolType
<1>4. CASE Repair \/ NextRequirement \/ Report
    <2>1. UNCHANGED <<eng, item, poolVars>> /\ (pc' = "read" => pc = "read")
        BY <1>4 DEF Repair, NextRequirement, Report
    <2> QED BY <2>1, PoolKept DEF PoolInv, PoolType
<1>5. CASE Idle \/ UNCHANGED vars
    BY <1>5, PoolKept DEF Idle, vars, PoolInv, PoolType
<1> QED BY <1>1, <1>2, <1>3, <1>4, <1>5 DEF Next, ReadStep

(* The pool is consistent in every state, for every input and capacity:    *)
(* the slots of the heap lead to their candidates in the slab of           *)
(* engine.rs, no two to the same, what is empty is free, and the slab      *)
(* never outgrows the capacity by more than one.                           *)
THEOREM SlabIsSound == Spec => []SlabSound
<1>1. PoolInv => SlabSound
    <2> SUFFICES ASSUME PoolInv PROVE SlabSound
        OBVIOUS
    <2>1. Len(slab) <= pool_capacity(eng) + 1
        <3>1. /\ Cardinality(heap) \in Nat /\ pool_capacity(eng) \in Nat
              /\ Cardinality(heap) <= pool_capacity(eng)
            BY FS_CardinalityType, PoolAssumption DEF PoolInv, PoolType
        <3>2. Len(free) \in Nat /\ Len(free) <= 1 /\ Len(slab) = Cardinality(heap) + Len(free)
            BY DEF PoolInv, PoolType, Positions
        <3> QED BY <3>1, <3>2
    <2>2. \A i \in 1..Len(slab) : (slab[i] = None) <=> \E j \in 1..Len(free) : free[j] = i
        <3>1. Len(free) \in Nat /\ Len(free) <= 1
            BY DEF PoolInv, PoolType, Positions
        <3>2. \A i : (\E j \in 1..Len(free) : free[j] = i) <=> (Len(free) = 1 /\ free[1] = i)
            BY <3>1
        <3> QED BY <3>2 DEF PoolInv, Positions
    <2> QED BY <2>1, <2>2 DEF PoolInv, SlotsLead, SlotsApart, Positions, SlabSound
<1> QED BY <1>1, PoolInit, PoolStep, PTL DEF Spec

(* Whatever order the candidates arrive in, the heap of BoundedHeap::push  *)
(* has the best of those read so far.                                      *)
THEOREM PoolAlwaysBest == Spec => []PoolIsBest
<1>1. PoolInv => PoolIsBest
    BY DEF PoolInv
<1> QED BY <1>1, PoolInit, PoolStep, PTL DEF Spec

-----------------------------------------------------------------------------
(* The choice.  The pool that was built, and what a sequence of indices of *)
(* it has to be to be a choice.                                            *)
PoolBuilt ==
    /\ pool \in Seq(DOMAIN item)
    /\ k \in Nat \cup {None}
    /\ branch \in {"count", "ratio", "gain", "single"} /\ (branch = "count" <=> k # None)

Distinct(q) == \A m, n \in DOMAIN q : m # n => q[m] # q[n]
IsChoice(q) == q \in Seq(Indices) /\ Distinct(q) /\ Within(Range(q))

(* What can be added to S.                                                 *)
OpenAt(S) ==
    {i \in Indices \ S : admits_all(S, i) /\ (k = None => CostOf(S) + At(i).cost <= eng.max)}

(* The last index of q was the first with the largest key when it came in. *)
LastLeads(perCost, q) ==
    q # <<>> => LET S == Range(q) \ {Last(q)} IN IsFirstBest(perCost, S, OpenAt(S), Last(q))

(* In every state the choice is within the bounds, and the last place was  *)
(* won by the key that cut_margin measures, unless repair gave it away.    *)
(* The ratios are kept until the greedy by gain has ended, and can win.    *)
GoodChoice ==
    \A q \in {selected} : /\ IsChoice(q)
                          /\ branch = "count" /\ ~repaired => LastLeads(FALSE, q)
                          /\ branch = "ratio" /\ ~repaired => LastLeads(TRUE, q)

GoodRatio == \A q \in {byRatio.selected} : IsChoice(q) /\ LastLeads(TRUE, q)

GoodOutcome ==
    /\ ~repaired /\ branch # "gain" => outcome.margin # "negative"
    /\ \A q \in {selected} : \A n \in DOMAIN eng.requirements : Met(n, Range(q))

ChoiceInv ==
    /\ pc \in {"validate", "read"} => selected = <<>> /\ ~repaired
    /\ pc \in {"choose", "repair", "done"} => PoolBuilt /\ GoodChoice
    /\ pc = "choose" => /\ branch # "single" /\ ~repaired
                        /\ branch = "gain" => GoodRatio
    /\ pc = "done" => GoodOutcome

(* The cost of a set of indices is a sum of natural numbers.               *)
Costs == [i \in Indices |-> At(i).cost]

LEMMA IndexTyped ==
    ASSUME PoolInv, PoolBuilt
    PROVE  /\ IsFiniteSet(Indices) /\ Indices = 1..Len(pool) /\ Len(pool) \in Nat
           /\ \A i \in Indices : Costs[i] = At(i).cost /\ At(i).cost \in Nat
           /\ eng.max \in Nat
<1>1. pool \in Seq(DOMAIN item) /\ item \in Feeds /\ eng \in Engines
    BY DEF PoolInv, PoolType, PoolBuilt
<1>2. Len(pool) \in Nat /\ Indices = 1..Len(pool) /\ \A i \in Indices : pool[i] \in DOMAIN item
    BY <1>1 DEF Indices
<1>3. IsFiniteSet(1..Len(pool))
    BY <1>2, FS_Interval
<1>4. \A i \in Indices : At(i).cost \in Nat
    BY <1>1, <1>2, SelectionAssumption DEF At
<1> QED BY <1>1, <1>2, <1>3, <1>4, SelectionAssumption DEF Costs

LEMMA CostIsSum ==
    ASSUME PoolInv, PoolBuilt, NEW S \in SUBSET Indices
    PROVE  CostOf(S) = SumOf(Costs, S) /\ IsFiniteSet(S)
<1> DEFINE N(T, F) == At(CHOOSE x \in T : TRUE).cost + F[T \ {CHOOSE x \in T : TRUE}]
           E(F) == [T \in SUBSET S |-> IF T = {} THEN 0 ELSE N(T, F)]
           W(F) == [T \in SUBSET S |->
                      IF T = {} THEN 0 ELSE Costs[Taken(T)] + F[T \ {Taken(T)}]]
           I == CHOOSE F : F = E(F)
<1>1. IsFiniteSet(S)
    BY IndexTyped, FS_Subset
<1>2. ASSUME NEW F PROVE E(F) = W(F)
    <2>1. ASSUME NEW T \in SUBSET S, T # {}
          PROVE  N(T, F) = Costs[Taken(T)] + F[T \ {Taken(T)}]
        <3>1. Taken(T) \in Indices
            BY <2>1, TakenIsIn
        <3>2. Costs[Taken(T)] = At(Taken(T)).cost
            BY <3>1, IndexTyped
        <3>3. N(T, F) = At(Taken(T)).cost + F[T \ {Taken(T)}]
            BY Zenon DEF Taken
        <3> HIDE DEF N
        <3> QED BY <3>2, <3>3
    <2> HIDE DEF N
    <2> QED BY <2>1
<1>3. \E F : F = E(F)
    <2>1. PICK F : Sums(F, Costs, S)
        BY <1>1, SumsExist
    <2>2. F = W(F)
        BY <2>1, Zenon DEF Sums
    <2>3. F = E(F)
        <3> HIDE DEF E, W
        <3> QED BY <1>2, <2>2
    <2> QED BY <2>3, Zenon
<1>4. I = E(I)
    <2> HIDE DEF E
    <2> QED BY <1>3, Zenon
<1>5. Sums(I, Costs, S)
    <2>1. I = W(I)
        <3> HIDE DEF E, W, I
        <3> QED BY <1>2, <1>4
    <2> HIDE DEF I
    <2> QED BY <2>1, Zenon DEF Sums
<1>6. CostOf(S) = I[S]
    BY Zenon DEF CostOf, MapThenSumSet, MapThenFoldSet
<1>7. I[S] = SumOf(Costs, S)
    <2>1. S \in SUBSET S
        OBVIOUS
    <2> HIDE DEF I
    <2> QED BY <1>1, <1>5, <2>1, SumIs
<1> QED BY <1>1, <1>6, <1>7

LEMMA CostRules ==
    ASSUME PoolInv, PoolBuilt, NEW S \in SUBSET Indices
    PROVE  /\ CostOf({}) = 0 /\ CostOf(S) \in Nat
           /\ \A i \in S : CostOf(S) = CostOf(S \ {i}) + At(i).cost
           /\ \A i \in Indices \ S : CostOf(S \cup {i}) = CostOf(S) + At(i).cost
<1>1. ASSUME NEW T \in SUBSET Indices
      PROVE  /\ CostOf({}) = 0 /\ CostOf(T) \in Nat
             /\ \A i \in T : CostOf(T) = CostOf(T \ {i}) + At(i).cost
    <2>1. /\ IsFiniteSet(T) /\ {} \in SUBSET Indices
          /\ \A i \in T : Costs[i] \in Nat /\ Costs[i] = At(i).cost
          /\ \A i \in T : T \ {i} \in SUBSET Indices
        BY IndexTyped, CostIsSum
    <2>2. /\ CostOf({}) = SumOf(Costs, {}) /\ CostOf(T) = SumOf(Costs, T)
          /\ \A i \in T : CostOf(T \ {i}) = SumOf(Costs, T \ {i})
        BY <2>1, CostIsSum
    <2>3. \A i \in T : Costs[i] \in Int
        BY <2>1
    <2>4. SumOf(Costs, {}) = 0 /\ \A i \in T : SumOf(Costs, T) = Costs[i] + SumOf(Costs, T \ {i})
        BY <2>1, <2>3, SumRules, ZenonT(30)
    <2>5. SumOf(Costs, T) \in Nat /\ \A U \in SUBSET T : SumOf(Costs, U) \in Nat
        BY <2>1, SumGrows, ZenonT(30)
    <2>6. \A i \in T : SumOf(Costs, T \ {i}) \in Nat
        BY <2>5
    <2> QED BY <2>1, <2>2, <2>4, <2>5, <2>6
<1>2. ASSUME NEW i \in Indices \ S PROVE CostOf(S \cup {i}) = CostOf(S) + At(i).cost
    <2>1. S \cup {i} \in SUBSET Indices /\ (S \cup {i}) \ {i} = S /\ i \in S \cup {i}
        OBVIOUS
    <2> QED BY <1>1, <2>1
<1> QED BY <1>1, <1>2

(* A set within the bounds stays within them when it takes what is open to *)
(* it, and what it can take without leaving them is open to it.            *)
LEMMA WithinAdd ==
    ASSUME PoolInv, PoolBuilt, NEW S \in SUBSET Indices, NEW i \in Indices \ S
    PROVE  /\ Within(S) /\ i \in OpenAt(S) /\ (k # None => Cardinality(S) < k) => Within(S \cup {i})
           /\ Within(S \cup {i}) => i \in OpenAt(S)
<1> DEFINE T == S \cup {i}
           G(U, j) == {x \in U : At(x).group = At(j).group}
<1>1. /\ IsFiniteSet(S) /\ Cardinality(S) \in Nat /\ Cardinality(T) = Cardinality(S) + 1
      /\ IsFiniteSet(T)
    BY CostIsSum, FS_CardinalityType, FS_AddElement
<1>2. CostOf(S) \in Nat /\ CostOf(T) = CostOf(S) + At(i).cost /\ At(i).cost \in Nat
    BY CostRules, IndexTyped
<1>3. /\ k \in Nat \cup {None} /\ eng.max \in Nat /\ None \notin Nat
      /\ \A n \in DOMAIN eng.limits : /\ eng.limits[n].kind \in {"group", "total", "cost"}
                                      /\ eng.limits[n].max \in Nat
    BY SelectionAssumption DEF PoolInv, PoolType, PoolBuilt
<1>4. \A j \in T : IsFiniteSet(G(S, j)) /\ Cardinality(G(S, j)) \in Nat
    <2>1. \A j \in T : G(S, j) \in SUBSET S
        OBVIOUS
    <2> HIDE DEF G
    <2> QED BY <1>1, <2>1, FS_Subset, FS_CardinalityType
<1>5. G(T, i) = G(S, i) \cup {i} /\ i \notin G(S, i)
    OBVIOUS
<1>6. Cardinality(G(T, i)) = Cardinality(G(S, i)) + 1
    <2> HIDE DEF G
    <2> QED BY <1>4, <1>5, FS_AddElement
<1>7. \A j \in T : At(j).group = At(i).group => G(T, j) = G(T, i)
    OBVIOUS
<1>8. \A j \in T : At(j).group # At(i).group => j \in S /\ G(T, j) = G(S, j)
    OBVIOUS
<1> DEFINE Kept(n, U) ==
             LET limit == eng.limits[n] IN
             CASE limit.kind = "group" -> \A j \in U : Cardinality(G(U, j)) <= limit.max
               [] limit.kind = "total" -> Cardinality(U) <= limit.max
               [] limit.kind = "cost" -> CostOf(U) <= limit.max
<1>9. ASSUME NEW U
      PROVE  Within(U) <=> /\ IF k = None THEN CostOf(U) <= eng.max ELSE Cardinality(U) <= k
                           /\ \A n \in DOMAIN eng.limits : Kept(n, U)
    BY Zenon DEF Within
<1>10. ASSUME NEW n \in DOMAIN eng.limits
       PROVE  /\ Kept(n, S) /\ Admits(eng.limits[n], S, i) => Kept(n, T)
              /\ Kept(n, T) => Admits(eng.limits[n], S, i)
    <2>1. CASE eng.limits[n].kind = "group"
        <3>1. Admits(eng.limits[n], S, i) <=> Cardinality(G(S, i)) < eng.limits[n].max
            BY <2>1 DEF Admits
        <3>2. \A U : Kept(n, U) <=> \A j \in U : Cardinality(G(U, j)) <= eng.limits[n].max
            BY <2>1
        <3>3. i \in T /\ Cardinality(G(S, i)) \in Nat /\ eng.limits[n].max \in Nat
            BY <1>3, <1>4
        <3> HIDE DEF G, Kept
        <3>4. ASSUME Kept(n, T) PROVE Admits(eng.limits[n], S, i)
            BY <1>6, <3>1, <3>2, <3>3, <3>4
        <3>5. ASSUME Kept(n, S), Admits(eng.limits[n], S, i) PROVE Kept(n, T)
            <4>1. ASSUME NEW j \in T PROVE Cardinality(G(T, j)) <= eng.limits[n].max
                <5>1. CASE At(j).group = At(i).group
                    BY <1>6, <1>7, <3>1, <3>3, <3>5, <5>1
                <5>2. CASE At(j).group # At(i).group
                    BY <1>8, <3>2, <3>5, <5>2
                <5> QED BY <5>1, <5>2
            <4> HIDE DEF T
            <4> QED BY <3>2, <4>1
        <3> QED BY <3>4, <3>5
    <2>2. CASE eng.limits[n].kind = "total"
        BY <1>1, <1>3, <2>2 DEF Admits
    <2>3. CASE eng.limits[n].kind = "cost"
        BY <1>2, <1>3, <2>3 DEF Admits
    <2> QED BY <1>3, <2>1, <2>2, <2>3
<1>11. i \in OpenAt(S) <=> /\ \A n \in DOMAIN eng.limits : Admits(eng.limits[n], S, i)
                           /\ k = None => CostOf(S) + At(i).cost <= eng.max
    BY DEF OpenAt, admits_all
<1> HIDE DEF Kept, T
<1>12. ASSUME Within(S), i \in OpenAt(S), k # None => Cardinality(S) < k
       PROVE  Within(T)
    <2>1. IF k = None THEN CostOf(T) <= eng.max ELSE Cardinality(T) <= k
        BY <1>1, <1>2, <1>3, <1>11, <1>12
    <2> QED BY <1>9, <1>10, <1>11, <1>12, <2>1
<1>13. ASSUME Within(T) PROVE i \in OpenAt(S)
    <2>1. k = None => CostOf(S) + At(i).cost <= eng.max
        BY <1>2, <1>9, <1>13
    <2> QED BY <1>9, <1>10, <1>11, <1>13, <2>1
<1> QED BY <1>12, <1>13 DEF T

(* Nothing chosen is within the bounds.                                    *)
LEMMA WithinNothing == ASSUME PoolInv, PoolBuilt PROVE Within({})
<1>1. Cardinality({}) = 0 /\ CostOf({}) = 0
    BY FS_EmptySet, CostRules
<1>2. /\ k \in Nat \cup {None} /\ eng.max \in Nat /\ None \notin Nat
      /\ \A n \in DOMAIN eng.limits : /\ eng.limits[n].kind \in {"group", "total", "cost"}
                                      /\ eng.limits[n].max \in Nat
    BY SelectionAssumption DEF PoolInv, PoolType, PoolBuilt
<1>3. IF k = None THEN CostOf({}) <= eng.max ELSE Cardinality({}) <= k
    BY <1>1, <1>2
<1>4. ASSUME NEW n \in DOMAIN eng.limits
      PROVE  CASE eng.limits[n].kind = "group" ->
                    \A i \in {} : Cardinality({j \in {} : At(j).group = At(i).group})
                                      <= eng.limits[n].max
               [] eng.limits[n].kind = "total" -> Cardinality({}) <= eng.limits[n].max
               [] eng.limits[n].kind = "cost" -> CostOf({}) <= eng.limits[n].max
    <2>1. 0 <= eng.limits[n].max
        BY <1>2
    <2>2. Cardinality({}) <= eng.limits[n].max /\ CostOf({}) <= eng.limits[n].max
        BY <1>1, <2>1
    <2>3. \A i \in {} : Cardinality({j \in {} : At(j).group = At(i).group}) <= eng.limits[n].max
        BY Zenon
    <2>4. eng.limits[n].kind \in {"group", "total", "cost"}
        BY <1>2
    <2> QED BY <2>2, <2>3, <2>4, Zenon
<1> QED BY <1>3, <1>4, Zenon DEF Within

(* What repair_requirements calls feasible is within the bounds.           *)
LEMMA FeasibleWithin ==
    ASSUME PoolInv, PoolBuilt, NEW S \in SUBSET Indices, set_is_feasible(S), S # {}
    PROVE  Within(S)
<1> DEFINE G(U, j) == {x \in U : At(x).group = At(j).group}
<1>1. IsFiniteSet(S) /\ Cardinality(S) \in Nat
    BY CostIsSum, FS_CardinalityType
<1>2. \A i \in S : CostOf(S) = CostOf(S \ {i}) + At(i).cost
    BY CostRules
<1>3. /\ k \in Nat \cup {None} /\ eng.max \in Nat /\ None \notin Nat
      /\ \A n \in DOMAIN eng.limits : /\ eng.limits[n].kind \in {"group", "total", "cost"}
                                      /\ eng.limits[n].max \in Nat
    BY SelectionAssumption DEF PoolInv, PoolType, PoolBuilt
<1>4. ASSUME NEW i \in S
      PROVE  /\ Cardinality(S \ {i}) = Cardinality(S) - 1
             /\ Cardinality(G(S \ {i}, i)) = Cardinality(G(S, i)) - 1
             /\ Cardinality(G(S, i)) \in Nat
    <2>1. G(S \ {i}, i) = G(S, i) \ {i} /\ i \in G(S, i) /\ G(S, i) \in SUBSET S
        OBVIOUS
    <2> HIDE DEF G
    <2>2. IsFiniteSet(G(S, i)) /\ Cardinality(G(S, i)) \in Nat
        BY <1>1, <2>1, FS_Subset, FS_CardinalityType
    <2>3. Cardinality(S \ {i}) = Cardinality(S) - 1
        BY <1>1, FS_RemoveElement
    <2>4. Cardinality(G(S, i) \ {i}) = Cardinality(G(S, i)) - 1
        BY <2>1, <2>2, FS_RemoveElement
    <2> QED BY <2>1, <2>2, <2>3, <2>4
<1>5. \A n \in DOMAIN eng.limits : \A i \in S : Admits(eng.limits[n], S \ {i}, i)
    BY DEF set_is_feasible, admits_all
<1>6. ASSUME NEW n \in DOMAIN eng.limits
      PROVE  CASE eng.limits[n].kind = "group" ->
                    \A j \in S : Cardinality(G(S, j)) <= eng.limits[n].max
               [] eng.limits[n].kind = "total" -> Cardinality(S) <= eng.limits[n].max
               [] eng.limits[n].kind = "cost" -> CostOf(S) <= eng.limits[n].max
    <2>1. CASE eng.limits[n].kind = "group"
        <3>1. \A j \in S : Cardinality(G(S \ {j}, j)) < eng.limits[n].max
            BY <1>5, <2>1 DEF Admits
        <3> HIDE DEF G
        <3>2. ASSUME NEW j \in S PROVE Cardinality(G(S, j)) <= eng.limits[n].max
            <4> DEFINE c == Cardinality(G(S, j))
                       d == Cardinality(G(S \ {j}, j))
                       b == eng.limits[n].max
            <4>1. c \in Nat /\ d = c - 1 /\ d < b /\ b \in Nat
                BY <1>3, <1>4, <3>1, Zenon
            <4> HIDE DEF b, c, d
            <4>2. c <= b
                BY <4>1
            <4> QED BY <4>2 DEF b, c
        <3> QED BY <2>1, <3>2
    <2>2. CASE eng.limits[n].kind = "total"
        <3> HIDE DEF G
        <3>1. \A j \in S : Cardinality(S \ {j}) < eng.limits[n].max
            BY <1>5, <2>2 DEF Admits
        <3>2. PICK j \in S : TRUE
            OBVIOUS
        <3>3. Cardinality(S \ {j}) = Cardinality(S) - 1
            BY <1>4
        <3>4. Cardinality(S) <= eng.limits[n].max
            BY <1>1, <1>3, <3>1, <3>3
        <3> QED BY <2>2, <3>4
    <2>3. CASE eng.limits[n].kind = "cost"
        <3> HIDE DEF G
        <3>1. \A j \in S : CostOf(S \ {j}) + At(j).cost <= eng.limits[n].max
            BY <1>5, <2>3 DEF Admits
        <3> QED BY <1>2, <2>3, <3>1
    <2> QED BY <1>3, <2>1, <2>2, <2>3
<1>7. IF k = None THEN CostOf(S) <= eng.max ELSE Cardinality(S) <= k
    BY DEF set_is_feasible
<1> QED BY <1>6, <1>7, Zenon DEF Within

(* What a choice is does not change while the pool and the budget stay.    *)
Settled == UNCHANGED <<eng, item, pool, fused, k>>

LEMMA SettledSets ==
    ASSUME Settled, NEW S
    PROVE  /\ CostOf(S)' = CostOf(S) /\ Within(S)' = Within(S) /\ OpenAt(S)' = OpenAt(S)
           /\ \A n : Met(n, S)' = Met(n, S)
<1>1. CostOf(S)' = CostOf(S)
    BY ZenonT(30) DEF Settled, CostOf, At, MapThenSumSet, MapThenFoldSet
<1>2. eng' = eng /\ k' = k /\ Indices' = Indices /\ \A i : At(i)' = At(i)
    BY DEF Settled, At, Indices
<1>3. Within(S)' = Within(S)
    BY <1>1, <1>2, ZenonT(30) DEF Within
<1>4. ASSUME NEW l, NEW i PROVE Admits(l, S, i)' = Admits(l, S, i)
    BY <1>1, <1>2, ZenonT(30) DEF Admits
<1>5. ASSUME NEW i PROVE admits_all(S, i)' = admits_all(S, i)
    BY <1>2, <1>4, ZenonT(30) DEF admits_all
<1>6. OpenAt(S)' = OpenAt(S)
    BY <1>1, <1>2, <1>5, ZenonT(30) DEF OpenAt
<1>7. ASSUME NEW n PROVE Met(n, S)' = Met(n, S)
    BY <1>2, ZenonT(30) DEF Met, Meeting
<1> QED BY <1>1, <1>3, <1>6, <1>7

LEMMA SettledLead ==
    ASSUME Settled, NEW perCost, NEW S, NEW C, NEW i
    PROVE  IsFirstBest(perCost, S, C, i)' = IsFirstBest(perCost, S, C, i)
<1>1. eng' = eng /\ fused' = fused /\ pool' = pool /\ \A j : At(j)' = At(j)
    BY DEF Settled, At
<1>2. ASSUME NEW j PROVE gain(S, j)' = gain(S, j)
    BY <1>1, ZenonT(30) DEF gain, Covered
<1>3. ASSUME NEW j, NEW l PROVE Higher(perCost, S, j, l)' = Higher(perCost, S, j, l)
    <2>1. /\ gain(S, j)' = gain(S, j) /\ gain(S, l)' = gain(S, l)
          /\ At(j)' = At(j) /\ At(l)' = At(l)
        BY <1>1, <1>2
    <2> QED BY <2>1 DEF Higher
<1> QED BY <1>3, ZenonT(30) DEF IsFirstBest

LEMMA SettledChoice ==
    ASSUME Settled, NEW q
    PROVE  /\ IsChoice(q)' = IsChoice(q)
           /\ \A perCost : LastLeads(perCost, q)' = LastLeads(perCost, q)
<1>1. Indices' = Indices
    BY DEF Settled, Indices
<1>2. Within(Range(q))' = Within(Range(q))
    BY SettledSets, Zenon
<1>3. IsChoice(q)' = IsChoice(q)
    BY <1>1, <1>2, Zenon DEF IsChoice, Distinct
<1>4. ASSUME NEW perCost PROVE LastLeads(perCost, q)' = LastLeads(perCost, q)
    <2> DEFINE S == Range(q) \ {Last(q)}
    <2>1. OpenAt(S)' = OpenAt(S)
        BY SettledSets, Zenon
    <2>2. PICK C : C = OpenAt(S)
        OBVIOUS
    <2>3. IsFirstBest(perCost, S, C, Last(q))' = IsFirstBest(perCost, S, C, Last(q))
        BY SettledLead, Zenon
    <2>4. IsFirstBest(perCost, S, OpenAt(S), Last(q))' = IsFirstBest(perCost, S, OpenAt(S), Last(q))
        BY <2>1, <2>2, <2>3, Zenon DEF IsFirstBest
    <2> QED BY <2>4, Zenon DEF LastLeads
<1> QED BY <1>3, <1>4

-----------------------------------------------------------------------------
(* Sequences of indices.                                                   *)
LEMMA Appended ==
    ASSUME NEW X, NEW q \in Seq(X), NEW i \in X
    PROVE  /\ Append(q, i) \in Seq(X) /\ Append(q, i) # <<>> /\ Last(Append(q, i)) = i
           /\ Range(Append(q, i)) = Range(q) \cup {i}
           /\ Distinct(q) /\ i \notin Range(q) => Distinct(Append(q, i))
<1> DEFINE r == Append(q, i)
<1>1. /\ r \in Seq(X) /\ Len(q) \in Nat /\ Len(r) = Len(q) + 1 /\ DOMAIN r = 1..(Len(q) + 1)
      /\ DOMAIN q = 1..Len(q)
      /\ \A n \in 1..Len(q) : r[n] = q[n]
      /\ r[Len(q) + 1] = i
    OBVIOUS
<1>2. DOMAIN r = DOMAIN q \cup {Len(q) + 1} /\ Len(q) + 1 \notin DOMAIN q
    BY <1>1
<1> HIDE DEF r
<1>3. r # <<>> /\ Last(r) = i
    BY <1>1 DEF Last
<1>4. Range(r) = Range(q) \cup {i}
    BY <1>1, <1>2 DEF Range
<1>5. ASSUME Distinct(q), i \notin Range(q) PROVE Distinct(r)
    <2>1. \A n \in DOMAIN q : q[n] # i
        BY <1>5 DEF Range
    <2> QED BY <1>1, <1>2, <1>5, <2>1 DEF Distinct
<1> QED BY <1>1, <1>3, <1>4, <1>5 DEF r

(* A choice has as many indices as places.                                 *)
LEMMA ChosenCount ==
    ASSUME NEW X, NEW q \in Seq(X), Distinct(q)
    PROVE  IsFiniteSet(Range(q)) /\ Cardinality(Range(q)) = Len(q)
<1>1. q \in [1..Len(q) -> Range(q)] /\ Len(q) \in Nat /\ DOMAIN q = 1..Len(q)
    BY DEF Range
<1>2. q \in Surjection(1..Len(q), Range(q))
    BY <1>1 DEF Surjection, Range
<1>3. q \in Injection(1..Len(q), Range(q))
    BY <1>1 DEF Injection, IsInjective, Distinct
<1>4. IsFiniteSet(1..Len(q)) /\ Cardinality(1..Len(q)) = Len(q)
    <2>1. 1 \in Int /\ Len(q) \in Int /\ Len(q) >= 0
        BY <1>1
    <2>2. Cardinality(1..Len(q)) = IF 1 > Len(q) THEN 0 ELSE Len(q) - 1 + 1
        BY <2>1, FS_Interval
    <2>3. IsFiniteSet(1..Len(q))
        BY <2>1, FS_Interval
    <2> QED BY <2>1, <2>2, <2>3
<1>5. /\ IsFiniteSet(Range(q))
      /\ Cardinality(Range(q)) = Cardinality(1..Len(q)) <=> q \in Injection(1..Len(q), Range(q))
    BY <1>2, <1>4, FS_Surjection, Zenon
<1> QED BY <1>3, <1>4, <1>5

(* Without one place, a choice has all the other indices.                  *)
LEMMA Removed ==
    ASSUME NEW X, NEW q \in Seq(X), Distinct(q), NEW n \in DOMAIN q
    PROVE  /\ RemoveAt(q, n) \in Seq(X) /\ Distinct(RemoveAt(q, n))
           /\ Range(RemoveAt(q, n)) = Range(q) \ {q[n]}
<1> DEFINE r == RemoveAt(q, n)
           at(m) == IF m < n THEN m ELSE m + 1
<1>1. Len(q) \in Nat /\ DOMAIN q = 1..Len(q) /\ n \in 1..Len(q)
    OBVIOUS
<1>2. /\ r \in Seq(X) /\ Len(r) = Len(q) - 1
      /\ \A m \in 1..(Len(q) - 1) : r[m] = q[at(m)]
    <2> DEFINE a == SubSeq(q, 1, n - 1)
               b == SubSeq(q, n + 1, Len(q))
    <2>1. /\ a \in Seq(X) /\ Len(a) = n - 1 /\ \A m \in 1..(n - 1) : a[m] = q[m]
          /\ b \in Seq(X) /\ Len(b) = Len(q) - n /\ \A m \in 1..(Len(q) - n) : b[m] = q[n + m]
        <3>1. a \in Seq(X) /\ Len(a) = n - 1 /\ \A m \in 1..(n - 1) : a[m] = q[m]
            BY <1>1
        <3>2. b \in Seq(X) /\ Len(b) = Len(q) - n
            BY <1>1
        <3>3. \A m \in 1..(Len(q) - n) : b[m] = q[n + m]
            BY <1>1
        <3> QED BY <3>1, <3>2, <3>3
    <2> HIDE DEF a, b
    <2>2. /\ a \o b \in Seq(X) /\ Len(a \o b) = Len(a) + Len(b)
          /\ \A m \in 1..(Len(a) + Len(b)) : (a \o b)[m] = IF m <= Len(a) THEN a[m] ELSE b[m - Len(a)]
        BY <2>1, ConcatProperties
    <2>3. \A m \in 1..(Len(q) - 1) : (a \o b)[m] = q[at(m)]
        <3> SUFFICES ASSUME NEW m \in 1..(Len(q) - 1) PROVE (a \o b)[m] = q[at(m)]
            OBVIOUS
        <3>1. CASE m < n
            <4>1. m \in 1..(Len(a) + Len(b)) /\ m <= Len(a) /\ m \in 1..(n - 1) /\ at(m) = m
                BY <1>1, <2>1, <3>1
            <4>2. (a \o b)[m] = a[m]
                BY <2>2, <4>1
            <4> HIDE DEF at
            <4> QED BY <2>1, <4>1, <4>2
        <3>2. CASE m >= n
            <4>1. m - (n - 1) \in 1..(Len(q) - n) /\ n + (m - (n - 1)) = m + 1
                BY <1>1, <3>2
            <4>2. (a \o b)[m] = b[m - (n - 1)]
                <5>1. m \in 1..(Len(a) + Len(b)) /\ ~(m <= Len(a)) /\ Len(a) = n - 1
                    BY <1>1, <2>1, <3>2
                <5> QED BY <2>2, <5>1
            <4> QED BY <1>1, <2>1, <3>2, <4>1, <4>2
        <3>3. m < n \/ m >= n
            BY <1>1
        <3> QED BY <3>1, <3>2, <3>3, Zenon
    <2>4. r = a \o b
        BY DEF a, b, RemoveAt
    <2>5. Len(a) + Len(b) = Len(q) - 1
        BY <1>1, <2>1
    <2> HIDE DEF r, at
    <2> QED BY <2>2, <2>3, <2>4, <2>5, Zenon
<1>3. DOMAIN r = 1..(Len(q) - 1)
    BY <1>1, <1>2
<1> HIDE DEF r
<1>4. \A m \in DOMAIN r : at(m) \in DOMAIN q /\ at(m) # n /\ r[m] = q[at(m)]
    BY <1>1, <1>2, <1>3
<1>5. \A l, m \in DOMAIN r : l # m => at(l) # at(m)
    BY <1>1, <1>3
<1>6. \A m \in DOMAIN q : m # n => \E l \in DOMAIN r : at(l) = m
    <2> SUFFICES ASSUME NEW m \in DOMAIN q, m # n PROVE \E l \in DOMAIN r : at(l) = m
        OBVIOUS
    <2>1. CASE m < n
        BY <1>1, <1>3, <2>1
    <2>2. CASE m > n
        <3>1. m - 1 \in DOMAIN r /\ at(m - 1) = m
            BY <1>1, <1>3, <2>2
        <3> QED BY <3>1
    <2> QED BY <1>1, <2>1, <2>2
<1> HIDE DEF at
<1>7. Distinct(r)
    BY <1>4, <1>5 DEF Distinct
<1>8. Range(r) = Range(q) \ {q[n]}
    <2>1. ASSUME NEW x \in Range(r) PROVE x \in Range(q) \ {q[n]}
        BY <1>4, <2>1 DEF Range, Distinct
    <2>2. ASSUME NEW x \in Range(q) \ {q[n]} PROVE x \in Range(r)
        BY <1>4, <1>6, <2>2 DEF Range
    <2> QED BY <2>1, <2>2
<1> QED BY <1>2, <1>7, <1>8 DEF r

-----------------------------------------------------------------------------
(* Steps of the choice.  Nothing chosen is a choice.                       *)
LEMMA NothingChosen == PoolInv /\ PoolBuilt => IsChoice(<<>>) /\ \A b : LastLeads(b, <<>>)
<1> SUFFICES ASSUME PoolInv, PoolBuilt PROVE IsChoice(<<>>) /\ \A b : LastLeads(b, <<>>)
    OBVIOUS
<1>1. <<>> \in Seq(Indices) /\ Distinct(<<>>) /\ Range(<<>>) = {}
    BY DEF Distinct, Range
<1> QED BY <1>1, WithinNothing DEF IsChoice, LastLeads

(* Sorting a finite set of candidates of the input gives a pool.           *)
LEMMA BuildKeeps ==
    ASSUME PoolInv, ChoiceInv, BuildPool
    PROVE  ChoiceInv'
<1> DEFINE survivors == {Staged(s) : s \in {t \in heap : Scored(eng, item[Staged(t)], Axes)}}
           A == {c \in survivors : eng.threshold = None \/ fused'[c] >= eng.threshold}
<1>1. /\ pool' \in [1..Cardinality(A) -> A] /\ k' \in Budgets(Len(pool'))
      /\ branch' = (IF eng.budget = "tokens" THEN "ratio" ELSE "count")
      /\ UNCHANGED <<eng, item, poolVars, selected, repaired>>
      /\ pc = "read" /\ pc' = "choose"
    BY DEF BuildPool, Sorted
<1>2. selected = <<>> /\ ~repaired
    BY <1>1 DEF ChoiceInv
<1>3. A \subseteq DOMAIN item /\ Cardinality(A) \in Nat
    <2>1. \A s \in heap : Staged(s) \in DOMAIN item
        BY DEF PoolInv, SlotsLead, Read
    <2> DEFINE H == {t \in heap : Scored(eng, item[Staged(t)], Axes)}
               f == [s \in H |-> Staged(s)]
    <2>2. H \in SUBSET heap
        OBVIOUS
    <2>3. IsFiniteSet(H)
        BY <2>2, FS_Subset DEF PoolInv, PoolType
    <2>4. f \in Surjection(H, survivors)
        <3> HIDE DEF H
        <3> QED BY DEF Surjection, H
    <2>5. IsFiniteSet(survivors)
        <3> HIDE DEF H, survivors, f
        <3> QED BY <2>3, <2>4, FS_Surjection
    <2>6. A \in SUBSET survivors /\ survivors \subseteq DOMAIN item
        BY <2>1
    <2> HIDE DEF A, survivors
    <2> QED BY <2>5, <2>6, FS_Subset, FS_CardinalityType
<1> HIDE DEF A
<1>4. pool' \in Seq(DOMAIN item) /\ Len(pool') \in Nat
    <2>1. pool' \in Seq(A)
        BY <1>1, <1>3
    <2> QED BY <1>3, <2>1
<1>5. /\ k' \in Nat \cup {None} /\ (branch' = "count" <=> k' # None)
      /\ branch' \in {"count", "ratio", "gain", "single"} /\ branch' # "gain" /\ branch' # "single"
    <2>1. eng.max \in Nat /\ eng.budget \in {"topk", "tail", "tokens"} /\ None \notin Nat
        BY SelectionAssumption DEF PoolInv, PoolType
    <2>2. k' \in Budgets(Len(pool'))
        BY <1>1
    <2>3. CASE eng.budget = "topk"
        BY <1>1, <2>1, <2>2, <2>3 DEF Budgets
    <2>4. CASE eng.budget = "tail"
        BY <1>1, <1>4, <2>1, <2>2, <2>4 DEF Budgets
    <2>5. CASE eng.budget = "tokens"
        BY <1>1, <2>1, <2>2, <2>5 DEF Budgets
    <2> QED BY <2>1, <2>3, <2>4, <2>5
<1>6. PoolBuilt'
    BY <1>1, <1>4, <1>5 DEF PoolBuilt
<1>7. PoolInv'
    BY <1>1, PoolKept DEF PoolInv, PoolType
<1>8. (IsChoice(<<>>) /\ \A b : LastLeads(b, <<>>))'
    BY <1>6, <1>7, NothingChosen, PTL
<1>9. GoodChoice'
    BY <1>1, <1>2, <1>8 DEF GoodChoice
<1> QED BY <1>1, <1>2, <1>5, <1>6, <1>9 DEF ChoiceInv

(* What is open to the selector.                                           *)
LEMMA OpenIs == ASSUME PoolBuilt PROVE Open = OpenAt(Chosen)
BY DEF Open, OpenAt, PoolBuilt

(* The first of the best comes in.                                         *)
LEMMA PickKeeps ==
    ASSUME PoolInv, ChoiceInv, Pick
    PROVE  ChoiceInv'
<1>1. PICK i \in Open : /\ IsFirstBest(branch = "ratio", Chosen, Open, i)
                        /\ selected' = Append(selected, i)
    BY DEF Pick
<1>2. /\ pc = "choose" /\ pc' = "choose" /\ ~Ended /\ Settled
      /\ UNCHANGED <<branch, byRatio, repaired>>
    BY DEF Pick, Settled
<1>3. /\ PoolBuilt /\ IsChoice(selected) /\ branch # "single" /\ ~repaired
      /\ branch = "gain" => GoodRatio
    BY <1>2 DEF ChoiceInv, GoodChoice
<1>4. PICK r : r = Append(selected, i)
    OBVIOUS
<1>5. /\ selected \in Seq(Indices) /\ Distinct(selected) /\ Within(Chosen)
      /\ Chosen \in SUBSET Indices /\ i \in Indices \ Chosen /\ i \in OpenAt(Chosen)
    <2>1. selected \in Seq(Indices) /\ Distinct(selected) /\ Within(Range(selected))
        BY <1>3 DEF IsChoice
    <2>2. Range(selected) \in SUBSET Indices
        BY <2>1, RangeOfSeq
    <2>3. i \in OpenAt(Chosen)
        BY <1>1, <1>3, OpenIs
    <2> QED BY <2>1, <2>2, <2>3 DEF Chosen, OpenAt
<1>6. k # None => Cardinality(Chosen) < k
    <2>1. Cardinality(Chosen) = Len(selected) /\ Len(selected) \in Nat
        BY <1>5, ChosenCount DEF Chosen
    <2>2. k # None => k \in Nat /\ ~(Len(selected) >= k)
        BY <1>2, <1>3 DEF Ended, PoolBuilt
    <2> QED BY <2>1, <2>2
<1>7. Within(Chosen \cup {i})
    BY <1>3, <1>5, <1>6, WithinAdd
<1>8. /\ r \in Seq(Indices) /\ r # <<>> /\ Last(r) = i
      /\ Range(r) = Chosen \cup {i} /\ Distinct(r)
    BY <1>4, <1>5, Appended DEF Chosen
<1>9. IsChoice(r)
    BY <1>7, <1>8 DEF IsChoice
<1>10. ASSUME NEW b \in BOOLEAN, b = (branch = "ratio"), branch # "gain"
       PROVE  LastLeads(b, r)
    <2>1. Range(r) \ {Last(r)} = Chosen
        BY <1>5, <1>8
    <2>2. IsFirstBest(b, Chosen, OpenAt(Chosen), Last(r))
        BY <1>1, <1>3, <1>8, <1>10, OpenIs
    <2> QED BY <2>1, <2>2 DEF LastLeads
<1>11. IsChoice(r)' /\ \A b : LastLeads(b, r)' = LastLeads(b, r)
    BY <1>2, <1>9, SettledChoice
<1>12. GoodChoice'
    <2>1. selected' = r
        BY <1>1, <1>4
    <2>2. branch = "count" => LastLeads(FALSE, r)
        BY <1>10
    <2>3. branch = "ratio" => LastLeads(TRUE, r)
        BY <1>10
    <2> QED BY <1>2, <1>11, <2>1, <2>2, <2>3 DEF GoodChoice
<1>13. branch = "gain" => GoodRatio'
    <2>1. byRatio' = byRatio
        BY <1>2
    <2> QED BY <1>2, <1>3, <2>1, SettledChoice DEF GoodRatio
<1>14. PoolBuilt'
    BY <1>2, <1>3 DEF PoolBuilt, Settled
<1> QED BY <1>2, <1>3, <1>12, <1>13, <1>14 DEF ChoiceInv

(* The rounds end; the best of the three choices stays.                    *)
LEMMA EndKeeps ==
    ASSUME PoolInv, ChoiceInv, EndCount \/ EndRatio \/ EndGain
    PROVE  ChoiceInv'
<1>1. /\ pc = "choose" /\ Settled /\ repaired' = repaired
    BY DEF EndCount, EndRatio, EndGain, Settled
<1>2. /\ PoolBuilt /\ GoodChoice /\ IsChoice(selected) /\ branch # "single" /\ ~repaired
      /\ branch = "gain" => GoodRatio
    BY <1>1 DEF ChoiceInv, GoodChoice
<1>3. \A q : IsChoice(q)' = IsChoice(q) /\ \A b : LastLeads(b, q)' = LastLeads(b, q)
    BY <1>1, SettledChoice
<1>4. CASE EndCount
    <2>1. pc' = "repair" /\ selected' = selected /\ branch' = branch
        BY <1>4 DEF EndCount
    <2>2. GoodChoice'
        BY <1>1, <1>2, <1>3, <2>1 DEF GoodChoice
    <2>3. PoolBuilt'
        BY <1>1, <1>2, <2>1 DEF PoolBuilt, Settled
    <2> QED BY <2>1, <2>2, <2>3 DEF ChoiceInv
<1>5. CASE EndRatio
    <2>1. /\ pc' = "choose" /\ selected' = <<>> /\ branch = "ratio" /\ branch' = "gain"
          /\ byRatio'.selected = selected
        BY <1>1, <1>5 DEF EndRatio
    <2>2. LastLeads(TRUE, selected)
        BY <1>2, <2>1 DEF GoodChoice
    <2>3. GoodRatio'
        BY <1>2, <1>3, <2>1, <2>2 DEF GoodRatio
    <2>4. GoodChoice'
        BY <1>2, <1>3, <2>1, NothingChosen DEF GoodChoice
    <2>5. PoolBuilt'
        BY <1>1, <1>2, <2>1 DEF PoolBuilt, Settled
    <2> QED BY <1>1, <1>2, <2>1, <2>3, <2>4, <2>5 DEF ChoiceInv
<1>6. CASE EndGain
    <2>1. pc' = "repair" /\ branch = "gain" /\ k = None
        BY <1>2, <1>6 DEF EndGain, PoolBuilt
    <2>2. IsChoice(byRatio.selected) /\ LastLeads(TRUE, byRatio.selected)
        BY <1>2, <2>1 DEF GoodRatio
    <2>3. \/ branch' = "gain" /\ selected' = selected
          \/ branch' = "ratio" /\ selected' = byRatio.selected
          \/ branch' = "single" /\ \E i \in Single : selected' = <<i>>
        <3> DEFINE packed == IF value > byRatio.value
                             THEN [selected |-> selected, value |-> value, branch |-> "gain"]
                             ELSE [selected |-> byRatio.selected, value |-> byRatio.value,
                                   branch |-> "ratio"]
                   single == {i \in Single : gain({}, i) > packed.value}
        <3>1. /\ selected' = IF single = {} THEN packed.selected ELSE <<CHOOSE i \in single : TRUE>>
              /\ branch' = IF single = {} THEN packed.branch ELSE "single"
            BY <1>6 DEF EndGain
        <3>2. \/ packed.selected = selected /\ packed.branch = "gain"
              \/ packed.selected = byRatio.selected /\ packed.branch = "ratio"
            OBVIOUS
        <3>3. single # {} => (CHOOSE i \in single : TRUE) \in Single
            <4>1. single # {} => (CHOOSE i \in single : TRUE) \in single
                <5> HIDE DEF single
                <5> QED OBVIOUS
            <4>2. single \subseteq Single
                <5> HIDE DEF packed
                <5> QED OBVIOUS
            <4> HIDE DEF single
            <4> QED BY <4>1, <4>2
        <3> HIDE DEF packed, single
        <3> QED BY <3>1, <3>2, <3>3
    <2>4. ASSUME NEW i \in Single PROVE IsChoice(<<i>>)
        <3>1. i \in Indices /\ admits_all({}, i) /\ At(i).cost <= eng.max
            BY DEF Single
        <3>2. CostOf({}) + At(i).cost <= eng.max
            BY <1>2, <3>1, CostRules, IndexTyped
        <3>3. i \in OpenAt({})
            BY <3>1, <3>2 DEF OpenAt
        <3>4. Within({} \cup {i})
            BY <1>2, <2>1, <3>1, <3>3, WithinAdd, WithinNothing
        <3>5. <<i>> \in Seq(Indices) /\ Distinct(<<i>>) /\ Range(<<i>>) = {} \cup {i}
            BY <3>1 DEF Distinct, Range
        <3> QED BY <3>4, <3>5 DEF IsChoice
    <2>5. GoodChoice'
        <3>1. PICK r : r = selected'
            OBVIOUS
        <3>2. IsChoice(r) /\ branch' # "count" /\ (branch' = "ratio" => LastLeads(TRUE, r))
            BY <1>2, <2>2, <2>3, <2>4, <3>1
        <3> QED BY <1>3, <3>1, <3>2 DEF GoodChoice
    <2>6. PoolBuilt'
        BY <1>1, <1>2, <2>1, <2>3 DEF PoolBuilt, Settled
    <2> QED BY <2>1, <2>5, <2>6 DEF ChoiceInv
<1> QED BY <1>4, <1>5, <1>6

(* Repair puts a feasible set in the place of the choice.                  *)
LEMMA RepairKeeps ==
    ASSUME PoolInv, ChoiceInv, Repair
    PROVE  ChoiceInv'
<1>1. /\ pc = "repair" /\ Settled /\ branch' = branch
    BY DEF Repair, Settled
<1>2. PoolBuilt /\ IsChoice(selected)
    BY <1>1 DEF ChoiceInv, GoodChoice
<1>3. CASE pc' = "failed"
    BY <1>3 DEF ChoiceInv
<1>4. CASE pc' # "failed"
    <2>1. /\ pc' = "repair" /\ repaired'
          /\ \E s \in Swaps : selected' = Append(Freed(s[2]), s[1])
        BY <1>1, <1>4 DEF Repair
    <2>2. PICK s \in Swaps : selected' = Append(Freed(s[2]), s[1])
        BY <2>1
    <2>3. PICK d, v : d = s[1] /\ v = s[2]
        OBVIOUS
    <2>4. /\ d \in Indices \ Chosen /\ (v = 0 \/ v \in Chosen)
          /\ set_is_feasible((Chosen \ {v}) \cup {d})
        BY <2>2, <2>3, Zenon DEF Swaps, Swapped, Meeting
    <2>5. /\ selected \in Seq(Indices) /\ Distinct(selected)
          /\ Chosen \in SUBSET Indices /\ 0 \notin Indices
        <3>1. selected \in Seq(Indices) /\ Distinct(selected)
            BY <1>2 DEF IsChoice
        <3>2. Range(selected) \in SUBSET Indices
            BY <3>1, RangeOfSeq
        <3> QED BY <1>2, <3>1, <3>2, IndexTyped DEF Chosen
    <2>6. PICK f : f = Freed(v)
        OBVIOUS
    <2>7. f \in Seq(Indices) /\ Distinct(f) /\ Range(f) = Chosen \ {v}
        <3>1. CASE v = 0
            BY <2>5, <2>6, <3>1 DEF Freed, Chosen
        <3>2. CASE v # 0
            <4>1. \E n \in DOMAIN selected : selected[n] = v
                BY <2>4, <3>2 DEF Chosen, Range
            <4>2. PICK n : n = CHOOSE m \in DOMAIN selected : selected[m] = v
                OBVIOUS
            <4>3. n \in DOMAIN selected /\ selected[n] = v
                BY <4>1, <4>2, Zenon
            <4>4. f = RemoveAt(selected, n)
                BY <2>6, <3>2, <4>2 DEF Freed
            <4> QED BY <2>5, <4>3, <4>4, Removed DEF Chosen
        <3> QED BY <3>1, <3>2
    <2>8. PICK r : r = Append(f, d)
        OBVIOUS
    <2>9. r \in Seq(Indices) /\ Distinct(r) /\ Range(r) = (Chosen \ {v}) \cup {d}
        BY <2>4, <2>7, <2>8, Appended
    <2>10. Within(Range(r))
        <3>1. (Chosen \ {v}) \cup {d} \in SUBSET Indices /\ (Chosen \ {v}) \cup {d} # {}
            BY <2>4, <2>5
        <3> QED BY <1>2, <2>4, <2>9, <3>1, FeasibleWithin
    <2>11. IsChoice(r)'
        BY <1>1, <2>9, <2>10, SettledChoice DEF IsChoice
    <2>12. selected' = r
        BY <2>2, <2>3, <2>6, <2>8
    <2>13. GoodChoice'
        BY <2>1, <2>11, <2>12 DEF GoodChoice
    <2>14. PoolBuilt'
        BY <1>1, <1>2 DEF PoolBuilt, Settled
    <2> QED BY <2>1, <2>13, <2>14 DEF ChoiceInv
<1> QED BY <1>3, <1>4

(* What the lead of the last place means for the margin.                   *)
LEMMA LeadIsMargin ==
    ASSUME PoolBuilt, GoodChoice, ~repaired, branch # "gain"
    PROVE  cut_margin # "negative"
<1> DEFINE last == Last(selected)
           S == Chosen \ {last}
           C == {i \in Indices \ Chosen :
                    admits_all(S, i) /\ ((k = None) => CostOf(S) + At(i).cost <= eng.max)}
<1>1. CASE selected = <<>> \/ branch = "single"
    BY <1>1 DEF cut_margin
<1>2. CASE selected # <<>> /\ branch # "single"
    <2>1. LastLeads(k = None, selected)
        <3>1. CASE branch = "count"
            BY <3>1 DEF GoodChoice, PoolBuilt
        <3>2. CASE branch = "ratio"
            BY <3>2 DEF GoodChoice, PoolBuilt
        <3> QED BY <1>2, <3>1, <3>2 DEF PoolBuilt
    <2>2. IsFirstBest(k = None, S, OpenAt(S), last)
        BY <1>2, <2>1 DEF LastLeads, Chosen
    <2>3. C \subseteq OpenAt(S)
        BY DEF OpenAt
    <2>4. \A i \in C : ~Higher(k = None, S, i, last)
        <3> HIDE DEF C, S, last
        <3> QED BY <2>2, <2>3 DEF IsFirstBest
    <2>5. ~\E i \in C : Higher(k = None, S, i, last)
        <3> HIDE DEF C, S, last
        <3> QED BY <2>4
    <2> QED BY <2>5, Zenon DEF cut_margin
<1> QED BY <1>1, <1>2

(* The outcome is reported only when every requirement is met.             *)
LEMMA ReportKeeps ==
    ASSUME PoolInv, ChoiceInv, Report
    PROVE  ChoiceInv'
<1>1. /\ pc = "repair" /\ Settled /\ UNCHANGED <<branch, selected, repaired>>
    BY DEF Report, Settled, chooseVars
<1>2. PoolBuilt /\ GoodChoice
    BY <1>1 DEF ChoiceInv
<1>3. CASE pc' = "failed"
    BY <1>3 DEF ChoiceInv
<1>4. CASE pc' # "failed"
    <2>1. /\ pc' = "done" /\ outcome'.margin = cut_margin
          /\ \A n \in DOMAIN eng.requirements : Met(n, Chosen)
        <3>1. /\ pc' = "done" /\ \A n \in DOMAIN eng.requirements : Met(n, Chosen)
              /\ outcome' = [ranked |-> [i \in DOMAIN selected |-> pool[selected[i]]],
                             promise |-> guarantee_of,
                             pool_exhausted |-> exhausted,
                             margin |-> cut_margin]
            BY <1>4, Zenon DEF Report
        <3> QED BY <3>1
    <2>2. \A n \in DOMAIN eng.requirements : Met(n, Range(selected))
        BY <2>1 DEF Chosen
    <2>3. GoodOutcome'
        <3>1. eng' = eng /\ \A q : \A n : Met(n, Range(q))' = Met(n, Range(q))
            BY <1>1, SettledSets DEF Settled
        <3>2. \A q \in {selected'} : \A n \in DOMAIN eng.requirements : Met(n, Range(q))
            BY <1>1, <2>2
        <3>3. ~repaired' /\ branch' # "gain" => outcome'.margin # "negative"
            BY <1>1, <1>2, <2>1, LeadIsMargin
        <3> QED BY <3>1, <3>2, <3>3, Zenon DEF GoodOutcome
    <2>4. GoodChoice'
        BY <1>1, <1>2, SettledChoice DEF GoodChoice
    <2>5. PoolBuilt'
        BY <1>1, <1>2 DEF PoolBuilt, Settled
    <2> QED BY <2>1, <2>3, <2>4, <2>5 DEF ChoiceInv
<1> QED BY <1>3, <1>4

LEMMA ChoiceStep == PoolInv /\ ChoiceInv /\ [Next]_vars => ChoiceInv'
<1> SUFFICES ASSUME PoolInv, ChoiceInv, [Next]_vars PROVE ChoiceInv'
    OBVIOUS
<1>1. CASE ReadStep
    <2>1. /\ pc \in {"validate", "read"} /\ pc' \in {"read", "failed"}
          /\ UNCHANGED <<selected, repaired>>
        BY <1>1 DEF ReadStep, Start, ReadOne, RejectUnary, RejectUnscored, Accept, Evict, Refuse,
                    Reads, chooseVars
    <2> QED BY <2>1 DEF ChoiceInv
<1>2. CASE BatchMismatch
    BY <1>2 DEF BatchMismatch, ChoiceInv
<1>3. CASE NextRequirement \/ Idle \/ UNCHANGED vars
    <2>1. /\ Settled /\ UNCHANGED <<pc, branch, selected, byRatio, repaired, outcome>>
        BY <1>3 DEF NextRequirement, Idle, vars, Settled, chooseVars
    <2>2. \A q : IsChoice(q)' = IsChoice(q) /\ \A b : LastLeads(b, q)' = LastLeads(b, q)
        BY <2>1, SettledChoice
    <2>3. eng' = eng /\ \A q : \A n : Met(n, Range(q))' = Met(n, Range(q))
        BY <2>1, SettledSets DEF Settled
    <2>4. PoolBuilt => PoolBuilt'
        BY <2>1 DEF PoolBuilt, Settled
    <2>5. GoodChoice => GoodChoice'
        BY <2>1, <2>2 DEF GoodChoice
    <2>6. GoodRatio => GoodRatio'
        BY <2>1, <2>2 DEF GoodRatio
    <2>7. GoodOutcome => GoodOutcome'
        BY <2>1, <2>3 DEF GoodOutcome
    <2> QED BY <2>1, <2>4, <2>5, <2>6, <2>7 DEF ChoiceInv
<1>4. CASE EndCount \/ EndRatio \/ EndGain
    BY <1>4, EndKeeps
<1> QED BY <1>1, <1>2, <1>3, <1>4, BuildKeeps, PickKeeps, RepairKeeps, ReportKeeps DEF Next

LEMMA ChoiceInit == Init => ChoiceInv
BY DEF Init, ChoiceInv

(* README.md:407 of the engine: a result is within every upper bound, the  *)
(* budget included, and meets every lower bound, whether repair changed it *)
(* or not; and the pool never outgrows its capacity.                       *)
THEOREM ResultIsWithinBounds == Spec => []BoundsHold
<1>1. PoolInv /\ ChoiceInv => BoundsHold
    <2> SUFFICES ASSUME PoolInv, ChoiceInv PROVE BoundsHold
        OBVIOUS
    <2>1. Cardinality(heap) <= pool_capacity(eng)
        BY DEF PoolInv, PoolType
    <2>2. pc = "done" => Within(Chosen)
        BY DEF ChoiceInv, GoodChoice, IsChoice, Chosen
    <2>3. pc = "done" => \A n \in DOMAIN eng.requirements : Met(n, Chosen)
        BY DEF ChoiceInv, GoodOutcome, Chosen
    <2> QED BY <2>1, <2>2, <2>3, Zenon DEF BoundsHold, Met, Meeting
<1> QED BY <1>1, PoolInit, PoolStep, ChoiceInit, ChoiceStep, PTL DEF Spec

(* The margin that cut_margin of select.rs reports is never negative       *)
(* unless repair or the greedy by gain gave the last place away.           *)
THEOREM MarginIsNotNegative == Spec => []MarginIsLead
<1>1. ChoiceInv => MarginIsLead
    BY DEF ChoiceInv, GoodOutcome, MarginIsLead
<1> QED BY <1>1, PoolInit, PoolStep, ChoiceInit, ChoiceStep, PTL DEF Spec

-----------------------------------------------------------------------------
(* Nothing more fits.  The fused scores count for something: none is       *)
(* negative, as with reciprocal ranks, and with scores in the unit         *)
(* interval, which the other fusions require, under weights that are not   *)
(* negative.                                                               *)
ScoresCount == \A c \in DOMAIN item : fused[c] \in Nat

Maximal(q) == \A i \in Indices \ Range(q) : ~Within(Range(q) \cup {i})

(* What the greedy by gain gathers is worth at least its first pick, which *)
(* no single candidate exceeds.                                            *)
WorthFirst(q) ==
    /\ q = <<>> => value = 0
    /\ q # <<>> => IsFirstBest(FALSE, {}, OpenAt({}), q[1]) /\ value >= gain({}, q[1])

FullInv ==
    /\ pc \in {"repair", "done"} /\ ~repaired => \A q \in {selected} : Maximal(q)
    /\ pc \in {"validate", "read"} => value = 0
    /\ pc = "choose" => value \in Int
    /\ pc = "choose" /\ branch = "gain" =>
        /\ \A q \in {byRatio.selected} : Maximal(q)
        /\ \A q \in {selected} : WorthFirst(q)
        /\ byRatio.value \in Int

LEMMA FullInit == Init => FullInv
BY DEF Init, FullInv

(* Gains are natural numbers.                                              *)
LEMMA GainTyped ==
    ASSUME PoolInv, PoolBuilt, ScoresCount, NEW S, NEW i \in Indices
    PROVE  gain(S, i) \in Nat
<1> DEFINE T == At(i).topics \ Covered(S)
<1>1. pool[i] \in DOMAIN item /\ item \in Feeds
    BY DEF PoolInv, PoolType, PoolBuilt, Indices
<1>2. fused[pool[i]] \in Nat /\ TopicWeight \in Nat /\ IsFiniteSet(At(i).topics)
    BY <1>1, SelectionAssumption DEF ScoresCount, At
<1>3. Cardinality(T) \in Nat
    <2>1. T \in SUBSET At(i).topics
        OBVIOUS
    <2> HIDE DEF T
    <2> QED BY <1>2, <2>1, FS_Subset, FS_CardinalityType
<1>4. TopicWeight * Cardinality(T) \in Nat
    <2> HIDE DEF T
    <2> QED BY <1>2, <1>3
<1>5. gain(S, i) = fused[pool[i]] + (IF eng.objective = "none" THEN 0 ELSE TopicWeight * Cardinality(T))
    BY Zenon DEF gain
<1> HIDE DEF T
<1> QED BY <1>2, <1>4, <1>5

(* When the rounds have ended, nothing more fits.                          *)
LEMMA EndedIsMaximal ==
    ASSUME PoolInv, PoolBuilt, IsChoice(selected), Ended
    PROVE  Maximal(selected)
<1> SUFFICES ASSUME NEW i \in Indices \ Chosen, Within(Chosen \cup {i}) PROVE FALSE
    BY DEF Maximal, Chosen
<1>1. selected \in Seq(Indices) /\ Distinct(selected)
    BY DEF IsChoice
<1>2. Chosen \in SUBSET Indices
    BY <1>1, RangeOfSeq DEF Chosen
<1>3. i \in Open
    BY <1>2, WithinAdd, OpenIs
<1>4. branch = "count" /\ Len(selected) >= k /\ k \in Nat /\ k # None
    BY <1>3 DEF Ended, PoolBuilt
<1>5. Cardinality(Chosen \cup {i}) <= k
    BY <1>4, Zenon DEF Within
<1>6. IsFiniteSet(Chosen) /\ Cardinality(Chosen) = Len(selected) /\ Len(selected) \in Nat
    BY <1>1, ChosenCount DEF Chosen
<1>7. Cardinality(Chosen \cup {i}) = Len(selected) + 1
    BY <1>6, FS_AddElement
<1> QED BY <1>4, <1>5, <1>6, <1>7

LEMMA SettledFull ==
    ASSUME Settled, NEW q
    PROVE  /\ Maximal(q)' = Maximal(q)
           /\ value' = value => WorthFirst(q)' = WorthFirst(q)
<1>1. Indices' = Indices
    BY DEF Settled, Indices
<1>2. \A S : Within(S)' = Within(S)
    BY SettledSets
<1>3. Maximal(q)' = Maximal(q)
    BY <1>1, <1>2, ZenonT(30) DEF Maximal
<1>4. \A j : gain({}, j)' = gain({}, j)
    BY ZenonT(30) DEF Settled, gain, Covered, At
<1>5. OpenAt({})' = OpenAt({})
    BY SettledSets, Zenon
<1>6. PICK C : C = OpenAt({})
    OBVIOUS
<1>7. IsFirstBest(FALSE, {}, C, q[1])' = IsFirstBest(FALSE, {}, C, q[1])
    BY SettledLead, Zenon
<1>8. IsFirstBest(FALSE, {}, OpenAt({}), q[1])' = IsFirstBest(FALSE, {}, OpenAt({}), q[1])
    BY <1>5, <1>6, <1>7, Zenon DEF IsFirstBest
<1>9. ASSUME value' = value PROVE WorthFirst(q)' = WorthFirst(q)
    <2>1. gain({}, q[1])' = gain({}, q[1])
        BY <1>4
    <2> QED BY <1>8, <1>9, <2>1, Zenon DEF WorthFirst
<1> QED BY <1>3, <1>9

(* A pick adds what is not negative to the value.                          *)
LEMMA PickFills ==
    ASSUME PoolInv, ChoiceInv, ScoresCount, FullInv, Pick
    PROVE  FullInv'
<1>1. PICK i \in Open : /\ IsFirstBest(branch = "ratio", Chosen, Open, i)
                        /\ selected' = Append(selected, i)
                        /\ value' = value + gain(Chosen, i)
    BY DEF Pick
<1>2. /\ pc = "choose" /\ pc' = "choose" /\ Settled /\ UNCHANGED <<branch, byRatio, repaired>>
    BY DEF Pick, Settled
<1>3. PoolBuilt /\ selected \in Seq(Indices) /\ i \in Indices /\ value \in Int
    BY <1>1, <1>2 DEF ChoiceInv, GoodChoice, IsChoice, FullInv, Open
<1>4. gain(Chosen, i) \in Nat
    BY <1>3, GainTyped
<1>5. value' \in Int /\ value' >= value
    BY <1>1, <1>3, <1>4
<1>6. ASSUME branch = "gain"
      PROVE  /\ (\A q \in {byRatio.selected} : Maximal(q))' /\ byRatio'.value \in Int
             /\ (\A q \in {selected} : WorthFirst(q))'
    <2>1. /\ \A q \in {byRatio.selected} : Maximal(q)
          /\ WorthFirst(selected) /\ byRatio.value \in Int
        BY <1>2, <1>6 DEF FullInv
    <2>2. (\A q \in {byRatio.selected} : Maximal(q))' /\ byRatio'.value \in Int
        BY <1>2, <2>1, SettledFull
    <2>3. PICK r : r = Append(selected, i)
        OBVIOUS
    <2>4. /\ IsFirstBest(FALSE, {}, OpenAt({}), r[1])
          /\ value' >= gain({}, r[1]) /\ r # <<>>
        <3>1. CASE selected = <<>>
            <4>1. r[1] = i /\ r # <<>> /\ Chosen = {}
                BY <2>3, <3>1 DEF Chosen, Range
            <4>2. IsFirstBest(FALSE, {}, OpenAt({}), i)
                BY <1>1, <1>3, <1>6, <4>1, OpenIs
            <4>3. value = 0
                BY <2>1, <3>1 DEF WorthFirst
            <4>4. value' = gain({}, i) /\ gain({}, i) \in Nat
                BY <1>1, <1>4, <4>1, <4>3
            <4>5. value' >= gain({}, i)
                BY <4>4
            <4> QED BY <4>1, <4>2, <4>5, Zenon
        <3>2. CASE selected # <<>>
            <4>1. r[1] = selected[1] /\ r # <<>> /\ selected[1] \in Indices
                BY <1>3, <2>3, <3>2
            <4>2. IsFirstBest(FALSE, {}, OpenAt({}), selected[1]) /\ value >= gain({}, selected[1])
                BY <2>1, <3>2 DEF WorthFirst
            <4>3. gain({}, selected[1]) \in Nat
                BY <1>3, <4>1, GainTyped
            <4>4. value' >= gain({}, selected[1])
                BY <1>3, <1>5, <4>2, <4>3
            <4> QED BY <4>1, <4>2, <4>4, Zenon
        <3> QED BY <3>1, <3>2
    <2>5. /\ gain({}, r[1])' = gain({}, r[1])
          /\ IsFirstBest(FALSE, {}, OpenAt({}), r[1])'
        <3>1. gain({}, r[1])' = gain({}, r[1])
            BY <1>2, ZenonT(30) DEF Settled, gain, Covered, At
        <3>2. PICK C : C = OpenAt({})
            OBVIOUS
        <3>3. OpenAt({})' = C
            BY <1>2, <3>2, SettledSets, Zenon
        <3>4. IsFirstBest(FALSE, {}, C, r[1])'
            BY <1>2, <2>4, <3>2, SettledLead
        <3> QED BY <3>1, <3>3, <3>4 DEF IsFirstBest
    <2>6. WorthFirst(r)'
        BY <2>4, <2>5 DEF WorthFirst
    <2> QED BY <1>1, <2>2, <2>3, <2>6
<1> QED BY <1>2, <1>5, <1>6 DEF FullInv

(* The rounds end with nothing left to add, and no single candidate is     *)
(* worth more than what the greedy by gain gathered.                       *)
LEMMA EndFills ==
    ASSUME PoolInv, ChoiceInv, ScoresCount, FullInv, EndCount \/ EndRatio \/ EndGain
    PROVE  FullInv'
<1>1. /\ pc = "choose" /\ Settled /\ repaired' = repaired /\ Ended
    BY DEF EndCount, EndRatio, EndGain, Settled
<1>2. /\ PoolBuilt /\ IsChoice(selected) /\ ~repaired /\ value \in Int
    BY <1>1 DEF ChoiceInv, GoodChoice, FullInv
<1>3. Maximal(selected)
    BY <1>1, <1>2, EndedIsMaximal
<1>4. \A q : Maximal(q)' = Maximal(q)
    BY <1>1, SettledFull
<1>5. CASE EndCount
    <2>1. pc' = "repair" /\ selected' = selected
        BY <1>5 DEF EndCount
    <2> QED BY <1>3, <1>4, <2>1 DEF FullInv
<1>6. CASE EndRatio
    <2>1. /\ pc' = "choose" /\ selected' = <<>> /\ value' = 0 /\ byRatio'.value = value
          /\ byRatio'.selected = selected
        BY <1>1, <1>6 DEF EndRatio
    <2>2. WorthFirst(<<>>)'
        BY <2>1 DEF WorthFirst
    <2> QED BY <1>2, <1>3, <1>4, <2>1, <2>2 DEF FullInv
<1>7. CASE EndGain
    <2> DEFINE packed == IF value > byRatio.value
                         THEN [selected |-> selected, value |-> value, branch |-> "gain"]
                         ELSE [selected |-> byRatio.selected, value |-> byRatio.value,
                               branch |-> "ratio"]
               single == {i \in Single : gain({}, i) > packed.value}
    <2>1. /\ pc' = "repair" /\ branch = "gain" /\ k = None
          /\ selected' = IF single = {} THEN packed.selected ELSE <<CHOOSE i \in single : TRUE>>
        BY <1>2, <1>7 DEF EndGain, PoolBuilt
    <2>2. Maximal(byRatio.selected) /\ WorthFirst(selected) /\ byRatio.value \in Int
        BY <1>1, <2>1 DEF FullInv
    <2>3. packed.value \in Int /\ packed.value >= value
        BY <1>2, <2>2
    <2>4. Maximal(packed.selected)
        BY <1>3, <2>2
    <2>5. ASSUME NEW i \in Single PROVE ~(gain({}, i) > packed.value)
        <3>1. i \in Indices /\ i \in OpenAt({})
            <4>1. i \in Indices /\ admits_all({}, i) /\ At(i).cost <= eng.max
                BY DEF Single
            <4>2. CostOf({}) + At(i).cost <= eng.max
                BY <1>2, <4>1, CostRules, IndexTyped
            <4> QED BY <4>1, <4>2 DEF OpenAt
        <3>2. CASE selected = <<>>
            <4>1. Chosen = {}
                BY <3>2 DEF Chosen, Range
            <4>2. Open # {}
                BY <1>2, <3>1, <4>1, OpenIs
            <4> QED BY <1>1, <2>1, <4>2 DEF Ended
        <3>3. CASE selected # <<>>
            <4>1. selected[1] \in Indices
                BY <1>2, <3>3 DEF IsChoice
            <4>2. ~(gain({}, i) > gain({}, selected[1])) /\ value >= gain({}, selected[1])
                BY <2>2, <3>1, <3>3 DEF WorthFirst, IsFirstBest, Higher
            <4>3. gain({}, i) \in Nat /\ gain({}, selected[1]) \in Nat
                BY <1>2, <3>1, <4>1, GainTyped
            <4> HIDE DEF packed
            <4> QED BY <1>2, <2>3, <4>2, <4>3
        <3> QED BY <3>2, <3>3
    <2>6. single = {}
        <3> HIDE DEF packed
        <3> QED BY <2>5
    <2>7. PICK r : r = packed.selected
        OBVIOUS
    <2>8. selected' = r /\ Maximal(r)
        <3> HIDE DEF packed, single
        <3> QED BY <2>1, <2>4, <2>6, <2>7
    <2> QED BY <1>4, <2>1, <2>8 DEF FullInv
<1> QED BY <1>5, <1>6, <1>7

LEMMA FullStep ==
    PoolInv /\ ChoiceInv /\ ScoresCount /\ FullInv /\ [Next]_vars => FullInv'
<1> SUFFICES ASSUME PoolInv, ChoiceInv, ScoresCount, FullInv, [Next]_vars PROVE FullInv'
    OBVIOUS
<1>1. CASE ReadStep \/ BatchMismatch
    <2>1. /\ pc \in {"validate", "read"} /\ pc' \in {"read", "failed"} /\ value' = value
        BY <1>1 DEF ReadStep, Start, ReadOne, RejectUnary, RejectUnscored, Accept, Evict, Refuse,
                    Reads, chooseVars, BatchMismatch
    <2> QED BY <2>1 DEF FullInv
<1>2. CASE BuildPool
    <2>1. pc = "read" /\ pc' = "choose" /\ value' = value /\ branch' # "gain"
        BY <1>2 DEF BuildPool
    <2> QED BY <2>1 DEF FullInv
<1>3. CASE NextRequirement \/ Report \/ Idle \/ UNCHANGED vars
    <2>1. /\ Settled /\ UNCHANGED <<branch, selected, value, byRatio, repaired>>
          /\ pc' = pc \/ (pc = "repair" /\ pc' \in {"done", "failed"})
        BY <1>3 DEF NextRequirement, Report, Idle, vars, Settled, chooseVars
    <2>2. \A q : Maximal(q)' = Maximal(q) /\ WorthFirst(q)' = WorthFirst(q)
        BY <2>1, SettledFull
    <2> QED BY <2>1, <2>2 DEF FullInv
<1>4. CASE Repair
    <2>1. pc = "repair" /\ (pc' = "failed" \/ (pc' = "repair" /\ repaired'))
        BY <1>4 DEF Repair
    <2> QED BY <2>1 DEF FullInv
<1>5. CASE EndCount \/ EndRatio \/ EndGain
    BY <1>5, EndFills
<1> QED BY <1>1, <1>2, <1>3, <1>4, <1>5, PickFills DEF Next

(* A candidate that evidence.rs calls outranked really lost its place:     *)
(* unless repair made room, the bounds do not let it be added to the       *)
(* result, as long as no fused score is negative.                          *)
THEOREM ResultIsFull == Spec /\ []ScoresCount => []NothingFits
<1>1. FullInv => NothingFits
    BY DEF FullInv, Maximal, NothingFits, Chosen
<1> QED BY <1>1, PoolInit, PoolStep, ChoiceInit, ChoiceStep, FullInit, FullStep, PTL DEF Spec

-----------------------------------------------------------------------------
(* No candidate disappears.  A rejection names a candidate that was read.  *)
Rejected == [candidate : Candidates, reason : Reasons]

Apart(log) == \A m, n \in DOMAIN log : m # n => log[m].candidate # log[n].candidate
Named(log) == {log[i].candidate : i \in DOMAIN log}

(* What is kept is the beginning of what was rejected.                     *)
LogInv ==
    /\ counts \in [Reasons -> Nat]
    /\ rejected \in Seq(Rejected) /\ Apart(rejected)
    /\ Len(rejected) = IF eng.sample = None \/ eng.sample > Total THEN Total ELSE eng.sample

(* Every candidate read is counted as rejected or still there, and those   *)
(* there are not among those of which the rejection is kept.               *)
LeftInv ==
    /\ IsFiniteSet(Left) /\ Left \subseteq Read
    /\ Gone \subseteq Read /\ Gone \cap Left = {}
    /\ input = Total + Cardinality(Left)

CountInv ==
    /\ LogInv
    /\ pc \in {"validate", "read", "choose", "repair", "done", "failed"}
    /\ pc # "failed" => LeftInv
    /\ pc \in {"choose", "repair", "done"} => Distinct(pool)
    /\ pc = "done" => Len(outcome.ranked) = Cardinality(Left)

(* The total is the sum of the six counts.                                 *)
LEMMA TotalIs ==
    counts \in [Reasons -> Nat] =>
        /\ Total \in Nat
        /\ Total = counts["unary_constraint"] + counts["not_scored"] + counts["out_of_pool"]
                     + counts["below_threshold"] + counts["set_constraint"] + counts["outranked"]
<1> SUFFICES ASSUME counts \in [Reasons -> Nat]
             PROVE  /\ Total \in Nat
                    /\ Total = counts["unary_constraint"] + counts["not_scored"]
                                 + counts["out_of_pool"] + counts["below_threshold"]
                                 + counts["set_constraint"] + counts["outranked"]
    OBVIOUS
<1> DEFINE S == Reasons
           N(T, F) == counts[CHOOSE x \in T : TRUE] + F[T \ {CHOOSE x \in T : TRUE}]
           E(F) == [T \in SUBSET S |-> IF T = {} THEN 0 ELSE N(T, F)]
           I == CHOOSE F : F = E(F)
<1>1. IsFiniteSet(S)
    <2> DEFINE a == {"unary_constraint", "not_scored"}
               b == a \cup {"out_of_pool"}
               c == b \cup {"below_threshold"}
               d == c \cup {"set_constraint"}
               e == d \cup {"outranked"}
    <2>1. IsFiniteSet({"unary_constraint"} \cup {"not_scored"})
        BY FS_Singleton, FS_AddElement
    <2>2. a = {"unary_constraint"} \cup {"not_scored"}
        OBVIOUS
    <2>3. IsFiniteSet(a)
        BY <2>1, <2>2
    <2>4. S = e
        BY DEF Reasons
    <2> HIDE DEF a, S
    <2>5. IsFiniteSet(b)
        BY <2>3, FS_AddElement
    <2> HIDE DEF b
    <2>6. IsFiniteSet(c)
        BY <2>5, FS_AddElement
    <2> HIDE DEF c
    <2>7. IsFiniteSet(d)
        BY <2>6, FS_AddElement
    <2> HIDE DEF d
    <2> QED BY <2>4, <2>7, FS_AddElement
<1>2. \E F : F = E(F)
    <2>1. PICK F : Sums(F, counts, S)
        BY <1>1, SumsExist
    <2> QED BY <2>1, Zenon DEF Sums, Taken
<1>3. I = E(I)
    <2> HIDE DEF E
    <2> QED BY <1>2, Zenon
<1>4. Sums(I, counts, S)
    <2> HIDE DEF I
    <2> QED BY <1>3, Zenon DEF Sums, Taken
<1>5. Total = I[S]
    BY Zenon DEF Total, MapThenSumSet, MapThenFoldSet
<1>6. I[S] = SumOf(counts, S)
    <2>1. S \in SUBSET S
        OBVIOUS
    <2> HIDE DEF I
    <2> QED BY <1>1, <1>4, <2>1, SumIs
<1> DEFINE A1 == {"unary_constraint"}
           A2 == A1 \cup {"not_scored"}
           A3 == A2 \cup {"out_of_pool"}
           A4 == A3 \cup {"below_threshold"}
           A5 == A4 \cup {"set_constraint"}
           A6 == A5 \cup {"outranked"}
<1>7. ASSUME NEW T \in SUBSET S, NEW x \in S \ T
      PROVE  /\ SumOf(counts, T) \in Nat /\ SumOf(counts, {}) = 0
             /\ SumOf(counts, T \cup {x}) = SumOf(counts, T) + counts[x]
    <2> DEFINE U == T \cup {x}
    <2>1. /\ U \in SUBSET S /\ U \ {x} = T /\ x \in U /\ T \in SUBSET U
        OBVIOUS
    <2>2. IsFiniteSet(U) /\ \A y \in U : counts[y] \in Nat /\ counts[y] \in Int
        BY <1>1, <2>1, FS_Subset
    <2> HIDE DEF U, S
    <2>3. SumOf(counts, {}) = 0 /\ SumOf(counts, U) = counts[x] + SumOf(counts, U \ {x})
        BY <2>1, <2>2, SumRules, ZenonT(30)
    <2>4. SumOf(counts, U) \in Nat /\ SumOf(counts, T) \in Nat
        BY <2>1, <2>2, SumGrows, ZenonT(30)
    <2>5. SumOf(counts, U) = SumOf(counts, T) + counts[x] /\ counts[x] \in Nat
        <3>1. SumOf(counts, U) = counts[x] + SumOf(counts, T)
            BY <2>1, <2>3, Zenon
        <3>2. counts[x] \in Nat
            BY <2>1, <2>2, Zenon
        <3> QED BY <2>4, <3>1, <3>2
    <2> QED BY <2>3, <2>4, <2>5, Zenon DEF U
<1>8. A6 = S
    BY DEF Reasons
<1>9. /\ {} \in SUBSET S /\ "unary_constraint" \in S \ {} /\ A1 = {} \cup {"unary_constraint"}
      /\ A1 \in SUBSET S /\ "not_scored" \in S \ A1
      /\ A2 \in SUBSET S /\ "out_of_pool" \in S \ A2
      /\ A3 \in SUBSET S /\ "below_threshold" \in S \ A3
      /\ A4 \in SUBSET S /\ "set_constraint" \in S \ A4
      /\ A5 \in SUBSET S /\ "outranked" \in S \ A5
    BY DEF Reasons
<1>10. \A r \in {"unary_constraint", "not_scored", "out_of_pool", "below_threshold",
                 "set_constraint", "outranked"} : counts[r] \in Nat
    BY DEF Reasons
<1> HIDE DEF S
<1>11. SumOf(counts, A1) = counts["unary_constraint"]
    <2> HIDE DEF A1
    <2>1. SumOf(counts, A1) = SumOf(counts, {}) + counts["unary_constraint"] /\ SumOf(counts, {}) = 0
        BY <1>7, <1>9
    <2> QED BY <1>10, <2>1
<1>12. SumOf(counts, A2) = SumOf(counts, A1) + counts["not_scored"] /\ SumOf(counts, A1) \in Nat
    <2> HIDE DEF A1
    <2> QED BY <1>7, <1>9
<1>13. SumOf(counts, A3) = SumOf(counts, A2) + counts["out_of_pool"] /\ SumOf(counts, A2) \in Nat
    <2> HIDE DEF A2
    <2> QED BY <1>7, <1>9
<1>14. SumOf(counts, A4) = SumOf(counts, A3) + counts["below_threshold"] /\ SumOf(counts, A3) \in Nat
    <2> HIDE DEF A3
    <2> QED BY <1>7, <1>9
<1>15. SumOf(counts, A5) = SumOf(counts, A4) + counts["set_constraint"] /\ SumOf(counts, A4) \in Nat
    <2> HIDE DEF A4
    <2> QED BY <1>7, <1>9
<1>16. SumOf(counts, A6) = SumOf(counts, A5) + counts["outranked"] /\ SumOf(counts, A5) \in Nat
    <2> HIDE DEF A5
    <2> QED BY <1>7, <1>9
<1> HIDE DEF A1, A2, A3, A4, A5, A6, I
<1> QED BY <1>5, <1>6, <1>8, <1>10, <1>11, <1>12, <1>13, <1>14, <1>15, <1>16

(* Disjoint sets have as many elements together as apart.                  *)
LEMMA CountDisjoint ==
    ASSUME NEW S, NEW T, IsFiniteSet(S), IsFiniteSet(T), S \cap T = {}
    PROVE  IsFiniteSet(S \cup T) /\ Cardinality(S \cup T) = Cardinality(S) + Cardinality(T)
<1>1. Cardinality(S) \in Nat /\ Cardinality(T) \in Nat /\ Cardinality({}) = 0
    BY FS_CardinalityType, FS_EmptySet
<1>2. /\ IsFiniteSet(S \cup T)
      /\ Cardinality(S \cup T) = Cardinality(S) + Cardinality(T) - Cardinality(S \cap T)
    BY FS_Union
<1>3. Cardinality(S \cap T) = 0
    BY <1>1
<1> QED BY <1>1, <1>2, <1>3

(* The rejections of a sequence, by reason, are all of them.               *)
LEMMA ByReason ==
    ASSUME NEW new \in Seq(Rejected)
    PROVE  LET n(r) == Cardinality({i \in DOMAIN new : new[i].reason = r}) IN
           /\ \A r : n(r) \in Nat
           /\ Len(new) = n("unary_constraint") + n("not_scored") + n("out_of_pool")
                           + n("below_threshold") + n("set_constraint") + n("outranked")
<1> DEFINE R(r) == {i \in DOMAIN new : new[i].reason = r}
           B2 == R("unary_constraint") \cup R("not_scored")
           B3 == B2 \cup R("out_of_pool")
           B4 == B3 \cup R("below_threshold")
           B5 == B4 \cup R("set_constraint")
           B6 == B5 \cup R("outranked")
<1>1. DOMAIN new = 1..Len(new) /\ Len(new) \in Nat
    OBVIOUS
<1>2. IsFiniteSet(DOMAIN new) /\ Cardinality(DOMAIN new) = Len(new)
    <2>1. 1 \in Int /\ Len(new) \in Int /\ Len(new) >= 0
        BY <1>1
    <2>2. /\ Cardinality(1..Len(new)) = IF 1 > Len(new) THEN 0 ELSE Len(new) - 1 + 1
          /\ IsFiniteSet(1..Len(new))
        BY <2>1, FS_Interval
    <2> QED BY <1>1, <2>1, <2>2
<1>3. \A r : R(r) \in SUBSET DOMAIN new
    OBVIOUS
<1>4. B6 = DOMAIN new
    <2>1. \A i \in DOMAIN new : new[i].reason \in Reasons
        <3>1. \A x \in Rejected : x.reason \in Reasons
            BY DEF Rejected
        <3>2. \A i \in DOMAIN new : new[i] \in Rejected
            OBVIOUS
        <3> QED BY <3>1, <3>2
    <2> QED BY <2>1 DEF Reasons
<1>5. /\ R("unary_constraint") \cap R("not_scored") = {}
      /\ B2 \cap R("out_of_pool") = {} /\ B3 \cap R("below_threshold") = {}
      /\ B4 \cap R("set_constraint") = {} /\ B5 \cap R("outranked") = {}
    OBVIOUS
<1>6. \A r : IsFiniteSet(R(r)) /\ Cardinality(R(r)) \in Nat
    <2> HIDE DEF R
    <2> QED BY <1>2, <1>3, FS_Subset, FS_CardinalityType
<1> HIDE DEF R
<1>7. /\ IsFiniteSet(B2)
      /\ Cardinality(B2) = Cardinality(R("unary_constraint")) + Cardinality(R("not_scored"))
    BY <1>5, <1>6, CountDisjoint
<1> HIDE DEF B2
<1>8. IsFiniteSet(B3) /\ Cardinality(B3) = Cardinality(B2) + Cardinality(R("out_of_pool"))
    BY <1>5, <1>6, <1>7, CountDisjoint
<1> HIDE DEF B3
<1>9. IsFiniteSet(B4) /\ Cardinality(B4) = Cardinality(B3) + Cardinality(R("below_threshold"))
    BY <1>5, <1>6, <1>8, CountDisjoint
<1> HIDE DEF B4
<1>10. IsFiniteSet(B5) /\ Cardinality(B5) = Cardinality(B4) + Cardinality(R("set_constraint"))
    BY <1>5, <1>6, <1>9, CountDisjoint
<1> HIDE DEF B5
<1>11. Cardinality(B6) = Cardinality(B5) + Cardinality(R("outranked"))
    BY <1>5, <1>6, <1>10, CountDisjoint
<1> HIDE DEF B6
<1>12. Len(new) = Cardinality(R("unary_constraint")) + Cardinality(R("not_scored"))
                    + Cardinality(R("out_of_pool")) + Cardinality(R("below_threshold"))
                    + Cardinality(R("set_constraint")) + Cardinality(R("outranked"))
    BY <1>2, <1>4, <1>6, <1>7, <1>8, <1>9, <1>10, <1>11
<1> QED BY <1>6, <1>12 DEF R

(* Logs whose rejections name different candidates.                        *)
LEMMA NamedCount ==
    ASSUME NEW log \in Seq(Rejected), Apart(log)
    PROVE  IsFiniteSet(Named(log)) /\ Cardinality(Named(log)) = Len(log)
<1> DEFINE f == [i \in 1..Len(log) |-> log[i].candidate]
<1>1. DOMAIN log = 1..Len(log) /\ Len(log) \in Nat /\ \A i \in 1..Len(log) : log[i] \in Rejected
    OBVIOUS
<1>2. \A x \in Rejected : x.candidate \in Candidates
    BY DEF Rejected
<1>3. f \in Seq(Candidates) /\ Len(f) = Len(log) /\ DOMAIN f = 1..Len(log)
    BY <1>1, <1>2
<1>4. \A i \in 1..Len(log) : f[i] = log[i].candidate
    OBVIOUS
<1> HIDE DEF f
<1>5. Distinct(f) /\ Range(f) = Named(log)
    BY <1>1, <1>3, <1>4 DEF Distinct, Apart, Range, Named
<1> QED BY <1>3, <1>5, ChosenCount

LEMMA LogOf ==
    ASSUME NEW m \in Nat, NEW f \in [1..m -> Candidates], NEW g \in [1..m -> Reasons],
           \A i, j \in 1..m : i # j => f[i] # f[j]
    PROVE  LET log == [i \in 1..m |-> Rejection(f[i], g[i])] IN
           /\ log \in Seq(Rejected) /\ Len(log) = m /\ Apart(log)
           /\ Named(log) = {f[i] : i \in 1..m}
<1> DEFINE log == [i \in 1..m |-> Rejection(f[i], g[i])]
<1>1. \A i \in 1..m : Rejection(f[i], g[i]) \in Rejected /\ Rejection(f[i], g[i]).candidate = f[i]
    BY DEF Rejection, Rejected
<1>2. \A i \in 1..m : log[i] \in Rejected /\ log[i].candidate = f[i]
    BY <1>1
<1>3. DOMAIN log = 1..m /\ log = [i \in 1..m |-> log[i]]
    OBVIOUS
<1> HIDE DEF log
<1>4. log \in [1..m -> Rejected]
    BY <1>2, <1>3
<1>5. log \in Seq(Rejected) /\ Len(log) = m
    BY <1>4
<1>6. Apart(log) /\ Named(log) = {f[i] : i \in 1..m}
    BY <1>2, <1>3 DEF Apart, Named
<1> QED BY <1>5, <1>6 DEF log

(* Sorting leaves nothing out.                                             *)
LEMMA SortedAll ==
    ASSUME NEW S, IsFiniteSet(S), NEW q \in [1..Cardinality(S) -> S],
           \A i, j \in 1..Cardinality(S) : i < j => q[i] # q[j]
    PROVE  q \in Seq(S) /\ Len(q) = Cardinality(S) /\ Distinct(q) /\ Range(q) = S
<1>1. Cardinality(S) \in Nat
    BY FS_CardinalityType
<1>2. q \in Seq(S) /\ Len(q) = Cardinality(S) /\ DOMAIN q = 1..Cardinality(S)
    BY <1>1
<1>3. \A i, j \in 1..Cardinality(S) : i # j => q[i] # q[j]
    <2> SUFFICES ASSUME NEW i \in 1..Cardinality(S), NEW j \in 1..Cardinality(S), i # j
                 PROVE  q[i] # q[j]
        OBVIOUS
    <2>1. i < j \/ j < i
        BY <1>1
    <2> QED BY <2>1
<1>4. Distinct(q)
    BY <1>2, <1>3 DEF Distinct
<1>5. IsFiniteSet(Range(q)) /\ Cardinality(Range(q)) = Cardinality(S)
    BY <1>2, <1>4, ChosenCount
<1>6. Range(q) \in SUBSET S
    BY <1>2, RangeOfSeq
<1>7. Range(q) = S
    BY <1>5, <1>6, FS_Subset
<1> QED BY <1>2, <1>4, <1>7

LEMMA JoinedLogs ==
    ASSUME NEW a \in Seq(Rejected), NEW b \in Seq(Rejected), Apart(a), Apart(b),
           Named(a) \cap Named(b) = {}
    PROVE  /\ a \o b \in Seq(Rejected) /\ Len(a \o b) = Len(a) + Len(b) /\ Apart(a \o b)
           /\ Named(a \o b) = Named(a) \cup Named(b)
<1> DEFINE all == a \o b
<1>1. /\ all \in Seq(Rejected) /\ Len(all) = Len(a) + Len(b)
      /\ \A i \in 1..(Len(a) + Len(b)) : all[i] = IF i <= Len(a) THEN a[i] ELSE b[i - Len(a)]
    BY ConcatProperties
<1>2. /\ Len(a) \in Nat /\ Len(b) \in Nat /\ DOMAIN a = 1..Len(a) /\ DOMAIN b = 1..Len(b)
      /\ DOMAIN all = 1..(Len(a) + Len(b))
    BY <1>1
<1> HIDE DEF all
<1>3. \A i \in DOMAIN all : \/ i \in DOMAIN a /\ all[i] = a[i]
                            \/ i - Len(a) \in DOMAIN b /\ all[i] = b[i - Len(a)]
    <2> SUFFICES ASSUME NEW i \in DOMAIN all
                 PROVE  \/ i \in DOMAIN a /\ all[i] = a[i]
                        \/ i - Len(a) \in DOMAIN b /\ all[i] = b[i - Len(a)]
        OBVIOUS
    <2>1. CASE i <= Len(a)
        <3>1. i \in DOMAIN a
            BY <1>2, <2>1
        <3> QED BY <1>1, <1>2, <2>1, <3>1
    <2>2. CASE ~(i <= Len(a))
        <3>1. i - Len(a) \in DOMAIN b
            BY <1>2, <2>2
        <3> QED BY <1>1, <1>2, <2>2, <3>1
    <2> QED BY <2>1, <2>2
<1>4. \A i \in DOMAIN a : i \in DOMAIN all /\ all[i] = a[i]
    BY <1>1, <1>2
<1>5. \A i \in DOMAIN b : \E j \in DOMAIN all : all[j] = b[i]
    <2> SUFFICES ASSUME NEW i \in DOMAIN b PROVE \E j \in DOMAIN all : all[j] = b[i]
        OBVIOUS
    <2>1. /\ Len(a) + i \in DOMAIN all /\ ~(Len(a) + i <= Len(a)) /\ (Len(a) + i) - Len(a) = i
        BY <1>2
    <2>2. all[Len(a) + i] = b[i]
        BY <1>1, <1>2, <2>1
    <2> QED BY <2>1, <2>2
<1>6. Named(all) = Named(a) \cup Named(b)
    BY <1>3, <1>4, <1>5 DEF Named
<1>7. Apart(all)
    <2> SUFFICES ASSUME NEW i \in DOMAIN all, NEW j \in DOMAIN all, i # j
                 PROVE  all[i].candidate # all[j].candidate
        BY DEF Apart
    <2>1. \A x \in DOMAIN a : \A y \in DOMAIN b : a[x].candidate # b[y].candidate
        BY DEF Named
    <2>2. i - Len(a) # j - Len(a)
        BY <1>2
    <2> QED BY <1>3, <2>1, <2>2 DEF Apart
<1> QED BY <1>1, <1>6, <1>7 DEF all

(* record counts all of the new rejections, and keeps the log apart.       *)
LEMMA Recorded ==
    ASSUME LogInv, eng \in Engines, eng' = eng,
           NEW new \in Seq(Rejected), Apart(new), Named(new) \cap Gone = {}, record(new)
    PROVE  /\ LogInv' /\ Total \in Nat /\ Total' = Total + Len(new)
           /\ Gone' \subseteq Gone \cup Named(new)
<1> DEFINE n(r) == Cardinality({i \in DOMAIN new : new[i].reason = r})
           all == rejected \o new
<1>1. /\ counts \in [Reasons -> Nat] /\ rejected \in Seq(Rejected) /\ Apart(rejected)
      /\ Len(rejected) = IF eng.sample = None \/ eng.sample > Total THEN Total ELSE eng.sample
    BY DEF LogInv
<1>2. /\ \A r : n(r) \in Nat
      /\ Len(new) = n("unary_constraint") + n("not_scored") + n("out_of_pool")
                      + n("below_threshold") + n("set_constraint") + n("outranked")
    BY ByReason
<1>3. /\ counts' = [r \in Reasons |-> counts[r] + n(r)]
      /\ rejected' = IF eng.sample # None /\ Len(all) > eng.sample
                     THEN SubSeq(all, 1, eng.sample) ELSE all
    BY Zenon DEF record
<1>4. Len(new) \in Nat /\ Len(rejected) \in Nat /\ eng.sample \in Nat \cup {None} /\ None \notin Nat
    BY <1>1, SelectionAssumption
<1> HIDE DEF n
<1>5. (counts \in [Reasons -> Nat])'
    <2>1. \A r \in Reasons : counts[r] + n(r) \in Nat
        BY <1>1, <1>2
    <2> QED BY <1>3, <2>1
<1>6. /\ Total \in Nat
      /\ Total = counts["unary_constraint"] + counts["not_scored"] + counts["out_of_pool"]
                   + counts["below_threshold"] + counts["set_constraint"] + counts["outranked"]
    BY <1>1, TotalIs
<1>7. (/\ Total \in Nat
       /\ Total = counts["unary_constraint"] + counts["not_scored"] + counts["out_of_pool"]
                    + counts["below_threshold"] + counts["set_constraint"] + counts["outranked"])'
    BY <1>5, TotalIs, PTL
<1>8. Total' = Total + Len(new)
    <2>1. \A r \in Reasons : counts'[r] = counts[r] + n(r) /\ counts[r] \in Nat /\ n(r) \in Nat
        BY <1>1, <1>2, <1>3
    <2> DEFINE a1 == counts["unary_constraint"]
               a2 == counts["not_scored"]
               a3 == counts["out_of_pool"]
               a4 == counts["below_threshold"]
               a5 == counts["set_constraint"]
               a6 == counts["outranked"]
               b1 == n("unary_constraint")
               b2 == n("not_scored")
               b3 == n("out_of_pool")
               b4 == n("below_threshold")
               b5 == n("set_constraint")
               b6 == n("outranked")
    <2>2. /\ a1 \in Nat /\ a2 \in Nat /\ a3 \in Nat /\ a4 \in Nat /\ a5 \in Nat /\ a6 \in Nat
          /\ b1 \in Nat /\ b2 \in Nat /\ b3 \in Nat /\ b4 \in Nat /\ b5 \in Nat /\ b6 \in Nat
        BY <2>1 DEF Reasons
    <2>3. Total' = (a1 + b1) + (a2 + b2) + (a3 + b3) + (a4 + b4) + (a5 + b5) + (a6 + b6)
        BY <1>7, <2>1 DEF Reasons
    <2>4. Total = a1 + a2 + a3 + a4 + a5 + a6 /\ Len(new) = b1 + b2 + b3 + b4 + b5 + b6
        BY <1>2, <1>6
    <2> HIDE DEF a1, a2, a3, a4, a5, a6, b1, b2, b3, b4, b5, b6
    <2> QED BY <2>2, <2>3, <2>4
<1>9. /\ all \in Seq(Rejected) /\ Len(all) = Len(rejected) + Len(new) /\ Apart(all)
      /\ Named(all) = Gone \cup Named(new)
    BY <1>1, JoinedLogs DEF Gone, Named
<1> HIDE DEF all
<1>10. /\ rejected' \in Seq(Rejected) /\ DOMAIN rejected' \subseteq DOMAIN all
       /\ \A i \in DOMAIN rejected' : rejected'[i] = all[i]
       /\ Len(rejected') = IF eng.sample # None /\ Len(all) > eng.sample
                           THEN eng.sample ELSE Len(all)
    <2>1. CASE eng.sample # None /\ Len(all) > eng.sample
        <3>1. eng.sample \in Nat /\ Len(all) \in Nat /\ rejected' = SubSeq(all, 1, eng.sample)
            BY <1>3, <1>4, <1>9, <2>1
        <3> QED BY <1>9, <2>1, <3>1
    <2>2. CASE ~(eng.sample # None /\ Len(all) > eng.sample)
        BY <1>3, <1>9, <2>2
    <2> QED BY <2>1, <2>2
<1>11. Apart(rejected)'
    BY <1>9, <1>10 DEF Apart
<1>12. Gone' \subseteq Gone \cup Named(new)
    <2>1. Gone' \subseteq Named(all)
        BY <1>10 DEF Gone, Named
    <2> QED BY <1>9, <2>1
<1>13. Len(rejected') = IF eng.sample = None \/ eng.sample > Total' THEN Total' ELSE eng.sample
    <2> DEFINE l == Len(rejected)
               t == Total
               m == Len(new)
    <2>1. /\ l \in Nat /\ m \in Nat /\ t \in Nat /\ Len(all) = l + m /\ Total' = t + m
          /\ l = IF eng.sample = None \/ eng.sample > t THEN t ELSE eng.sample
        BY <1>1, <1>4, <1>6, <1>8, <1>9
    <2> HIDE DEF l, t, m
    <2>2. CASE eng.sample = None
        BY <1>10, <2>1, <2>2
    <2>3. CASE eng.sample \in Nat
        <3>1. /\ Len(rejected') = IF Len(all) > eng.sample THEN eng.sample ELSE Len(all)
              /\ l = IF eng.sample > t THEN t ELSE eng.sample
            BY <1>4, <1>10, <2>1, <2>3
        <3> DEFINE b == eng.sample
                   a == Len(all)
                   z == Len(rejected')
                   u == Total'
        <3>2. /\ b \in Nat /\ l \in Nat /\ m \in Nat /\ t \in Nat /\ a = l + m /\ u = t + m
              /\ z = (IF a > b THEN b ELSE a) /\ l = (IF b > t THEN t ELSE b)
            BY <2>1, <2>3, <3>1
        <3> HIDE DEF a, b, z, u
        <3>3. z = IF b > u THEN u ELSE b
            BY <3>2
        <3> QED BY <1>4, <2>3, <3>3 DEF b, z, u
    <2> QED BY <1>4, <2>2, <2>3
<1> QED BY <1>5, <1>6, <1>8, <1>10, <1>11, <1>12, <1>13 DEF LogInv

LEMMA CountInit == Init => CountInv
<1> SUFFICES ASSUME Init PROVE CountInv
    OBVIOUS
<1>1. counts \in [Reasons -> Nat] /\ \A r \in Reasons : counts[r] = 0
    BY DEF Init
<1>2. Total = 0
    BY <1>1, TotalIs DEF Reasons
<1>3. rejected = <<>> /\ rejected \in Seq(Rejected) /\ Len(rejected) = 0 /\ DOMAIN rejected = {}
    BY DEF Init
<1>4. eng.sample \in Nat \cup {None} /\ None \notin Nat
    BY SelectionAssumption DEF Init
<1>5. LogInv
    <2>1. Len(rejected) = IF eng.sample = None \/ eng.sample > Total THEN Total ELSE eng.sample
        BY <1>2, <1>3, <1>4
    <2> QED BY <1>1, <1>3, <2>1 DEF LogInv, Apart
<1>6. Left = {}
    BY DEF Init, Left
<1>7. Gone = {}
    BY <1>3 DEF Gone
<1>8. LeftInv
    BY <1>2, <1>6, <1>7, FS_EmptySet DEF LeftInv, Init
<1> QED BY <1>5, <1>8 DEF CountInv, Init

(* One rejection.                                                          *)
LEMMA OneRejection ==
    ASSUME NEW d \in Candidates, NEW r \in Reasons
    PROVE  LET new == <<Rejection(d, r)>> IN
           new \in Seq(Rejected) /\ Apart(new) /\ Named(new) = {d} /\ Len(new) = 1
<1>1. Rejection(d, r) \in Rejected /\ Rejection(d, r).candidate = d
    BY DEF Rejection, Rejected
<1> HIDE DEF Rejection
<1> QED BY <1>1 DEF Apart, Named

(* A candidate comes in, and it or another one goes.                       *)
LEMMA ReadGoes ==
    ASSUME PoolInv, CountInv, NEW c \in unread, Reads(c),
           NEW d \in Left \cup {c}, NEW r \in Reasons, record(<<Rejection(d, r)>>),
           Left' = (Left \cup {c}) \ {d}
    PROVE  CountInv'
<1>1. /\ pc = "read" /\ pc' = "read" /\ eng' = eng /\ eng \in Engines /\ item' = item
      /\ c \in DOMAIN item /\ c \notin Read /\ Read' = Read \cup {c} /\ input' = input + 1
    BY Reading DEF PoolInv, PoolType, Reads
<1>2. /\ LogInv /\ IsFiniteSet(Left) /\ Left \subseteq Read /\ Gone \subseteq Read
      /\ Gone \cap Left = {} /\ input = Total + Cardinality(Left)
    BY <1>1 DEF CountInv, LeftInv
<1>3. d \in Candidates /\ d \notin Gone
    BY <1>1, <1>2, PoolAssumption DEF Read, PoolInv, PoolType
<1>4. PICK new : new = <<Rejection(d, r)>>
    OBVIOUS
<1>5. new \in Seq(Rejected) /\ Apart(new) /\ Named(new) = {d} /\ Len(new) = 1 /\ record(new)
    BY <1>3, <1>4, OneRejection
<1>6. LogInv' /\ Total \in Nat /\ Total' = Total + 1 /\ Gone' \subseteq Gone \cup {d}
    BY <1>1, <1>2, <1>3, <1>5, Recorded
<1>7. IsFiniteSet(Left') /\ Cardinality(Left') = Cardinality(Left) /\ Cardinality(Left) \in Nat
    <2>1. /\ IsFiniteSet(Left \cup {c}) /\ Cardinality(Left \cup {c}) = Cardinality(Left) + 1
          /\ Cardinality(Left) \in Nat
        BY <1>1, <1>2, FS_AddElement, FS_CardinalityType
    <2>2. /\ IsFiniteSet((Left \cup {c}) \ {d})
          /\ Cardinality((Left \cup {c}) \ {d}) = Cardinality(Left \cup {c}) - 1
        BY <2>1, FS_RemoveElement
    <2> QED BY <2>1, <2>2
<1>8. input' = Total' + Cardinality(Left')
    BY <1>1, <1>2, <1>6, <1>7
<1>9. LeftInv'
    <2>1. Left' \subseteq Read' /\ Gone' \subseteq Read' /\ Gone' \cap Left' = {}
        BY <1>1, <1>2, <1>6
    <2> QED BY <1>7, <1>8, <2>1 DEF LeftInv
<1> QED BY <1>1, <1>6, <1>9 DEF CountInv

LEMMA LeftOfHeap ==
    pc \in {"validate", "read"} => Left = {slab[s.index] : s \in heap}
BY DEF Left, Staged

LEMMA ReadCounts ==
    ASSUME PoolInv, CountInv, NEW c \in unread, ReadOne(c)
    PROVE  CountInv'
<1>1. Reads(c)
    BY DEF ReadOne, RejectUnary, RejectUnscored, Accept, Evict, Refuse
<1>2. /\ pc = "read" /\ pc' = "read" /\ eng' = eng /\ eng \in Engines /\ item' = item
      /\ c \in DOMAIN item /\ c \notin Read /\ Read' = Read \cup {c} /\ input' = input + 1
    BY <1>1, Reading DEF PoolInv, PoolType, Reads
<1>3. /\ LogInv /\ IsFiniteSet(Left) /\ Left \subseteq Read /\ Gone \subseteq Read
      /\ Gone \cap Left = {} /\ input = Total + Cardinality(Left)
    BY <1>2 DEF CountInv, LeftInv
<1>4. Left = {Staged(s) : s \in heap} /\ Left' = {slab'[s.index] : s \in heap'}
    <2>1. Left = {slab[s.index] : s \in heap}
        BY <1>2, LeftOfHeap
    <2>2. (pc \in {"validate", "read"})'
        BY <1>2
    <2>3. (Left = {slab[s.index] : s \in heap})'
        BY <2>2, LeftOfHeap, PTL
    <2> QED BY <2>1, <2>3 DEF Staged
<1>5. /\ Placed(c) \in Seq(Candidates)
      /\ Index \in 1..Len(Placed(c)) /\ Placed(c)[Index] = c
      /\ \A s \in heap : /\ s.index \in 1..Len(Placed(c)) /\ s.index # Index
                         /\ Placed(c)[s.index] = Staged(s)
    BY <1>2, Placing
<1>6. CASE RejectUnary(c) \/ RejectUnscored(c)
    <2>1. Left' = (Left \cup {c}) \ {c}
        BY <1>2, <1>3, <1>4, <1>6 DEF RejectUnary, RejectUnscored, Staged
    <2>2. \E r \in Reasons : record(<<Rejection(c, r)>>)
        BY <1>6 DEF RejectUnary, RejectUnscored, Reasons
    <2> QED BY <1>1, <2>1, <2>2, ReadGoes
<1>7. CASE Refuse(c)
    <2>1. /\ heap' = heap /\ slab' = [Placed(c) EXCEPT ![Index] = None]
          /\ record(<<Rejection(c, "out_of_pool")>>)
        BY <1>7 DEF Refuse
    <2>2. \A s \in heap : slab'[s.index] = Staged(s)
        BY <1>5, <2>1
    <2>3. Left' = (Left \cup {c}) \ {c}
        BY <1>2, <1>3, <1>4, <2>1, <2>2
    <2>4. "out_of_pool" \in Reasons
        BY DEF Reasons
    <2> QED BY <1>1, <2>1, <2>3, <2>4, ReadGoes
<1>8. CASE Evict(c)
    <2>1. PICK w \in heap : /\ heap' = (heap \ {w}) \cup {Slot(c, Index)}
                            /\ slab' = [Placed(c) EXCEPT ![w.index] = None]
                            /\ record(<<Rejection(Placed(c)[w.index], "out_of_pool")>>)
        BY <1>8 DEF Evict
    <2>2. PICK d : d = Staged(w)
        OBVIOUS
    <2>3. Placed(c)[w.index] = d /\ d \in Left /\ d # c
        BY <1>2, <1>3, <1>4, <1>5, <2>1, <2>2
    <2>4. /\ \A s \in heap \ {w} : slab'[s.index] = Staged(s) /\ Staged(s) # d
          /\ slab'[Slot(c, Index).index] = c
        <3>1. \A s \in heap \ {w} : s.index # w.index /\ Staged(s) # d
            BY <2>2 DEF PoolInv, SlotsApart
        <3>2. Slot(c, Index).index = Index
            BY DEF Slot
        <3> QED BY <1>5, <2>1, <3>1, <3>2
    <2>5. Left' = (Left \cup {c}) \ {d}
        <3>1. ASSUME NEW x \in Left' PROVE x \in (Left \cup {c}) \ {d}
            BY <1>4, <2>1, <2>3, <2>4
        <3>2. ASSUME NEW x \in (Left \cup {c}) \ {d} PROVE x \in Left'
            BY <1>4, <2>1, <2>2, <2>4
        <3> QED BY <3>1, <3>2
    <2>6. "out_of_pool" \in Reasons
        BY DEF Reasons
    <2> QED BY <1>1, <2>1, <2>3, <2>5, <2>6, ReadGoes
<1>9. CASE Accept(c)
    <2>1. heap' = heap \cup {Slot(c, Index)} /\ slab' = Placed(c) /\ UNCHANGED logVars
        BY <1>9 DEF Accept
    <2>2. Left' = Left \cup {c}
        <3>1. Slot(c, Index).index = Index
            BY DEF Slot
        <3> QED BY <1>4, <1>5, <2>1, <3>1
    <2>3. Total' = Total
        BY <2>1, ZenonT(30) DEF Total, logVars, MapThenSumSet, MapThenFoldSet
    <2>4. LogInv' /\ Gone' = Gone
        BY <1>2, <1>3, <2>1, <2>3 DEF LogInv, Apart, Gone, logVars
    <2>5. IsFiniteSet(Left') /\ Cardinality(Left') = Cardinality(Left) + 1
        BY <1>2, <1>3, <2>2, FS_AddElement
    <2>6. Total \in Nat /\ Cardinality(Left) \in Nat
        BY <1>3, TotalIs, FS_CardinalityType DEF LogInv
    <2>7. input' = Total' + Cardinality(Left')
        BY <1>2, <1>3, <2>3, <2>5, <2>6
    <2>8. LeftInv'
        BY <1>2, <1>3, <2>2, <2>4, <2>5, <2>7 DEF LeftInv
    <2> QED BY <1>2, <2>4, <2>8 DEF CountInv
<1> QED BY <1>6, <1>7, <1>8, <1>9 DEF ReadOne

(* Some of those that were left are rejected, and the others stay.         *)
LEMMA SomeGo ==
    ASSUME LogInv, LeftInv, eng \in Engines, UNCHANGED <<eng, item, poolVars>>,
           NEW new \in Seq(Rejected), Apart(new), Named(new) \subseteq Left, record(new),
           Left' = Left \ Named(new)
    PROVE  LogInv' /\ LeftInv'
<1>1. /\ IsFiniteSet(Left) /\ Left \subseteq Read /\ Gone \subseteq Read
      /\ Gone \cap Left = {} /\ input = Total + Cardinality(Left)
    BY DEF LeftInv
<1>2. Named(new) \cap Gone = {} /\ eng' = eng
    BY <1>1
<1>3. LogInv' /\ Total \in Nat /\ Total' = Total + Len(new) /\ Gone' \subseteq Gone \cup Named(new)
    BY <1>2, Recorded
<1>4. Cardinality(Named(new)) = Len(new) /\ Len(new) \in Nat
    BY NamedCount
<1>5. /\ IsFiniteSet(Left') /\ Cardinality(Left') = Cardinality(Left) - Len(new)
      /\ Cardinality(Left) \in Nat
    <2>1. Left \cap Named(new) = Named(new)
        OBVIOUS
    <2>2. IsFiniteSet(Left \ Named(new)) /\ Cardinality(Left) \in Nat
        BY <1>1, FS_Difference, FS_CardinalityType
    <2>3. Cardinality(Left \ Named(new)) = Cardinality(Left) - Cardinality(Left \cap Named(new))
        BY <1>1, FS_Difference
    <2> QED BY <1>4, <2>1, <2>2, <2>3
<1>6. input' = input /\ Read' = Read
    BY DEF poolVars, Read
<1>7. input' = Total' + Cardinality(Left')
    BY <1>1, <1>3, <1>4, <1>5, <1>6
<1>8. Left' \subseteq Read' /\ Gone' \subseteq Read' /\ Gone' \cap Left' = {}
    BY <1>1, <1>3, <1>6
<1> QED BY <1>3, <1>5, <1>7, <1>8 DEF LeftInv

(* Nobody goes.                                                            *)
LEMMA NobodyGoes ==
    ASSUME UNCHANGED <<eng, item, poolVars, logVars>>
    PROVE  (LogInv => LogInv') /\ (LeftInv /\ Left' = Left => LeftInv')
<1>1. Total' = Total
    BY ZenonT(30) DEF Total, logVars, MapThenSumSet, MapThenFoldSet
<1>2. LogInv => LogInv'
    BY <1>1 DEF LogInv, Apart, logVars
<1>3. Gone' = Gone /\ Read' = Read /\ input' = input
    BY DEF Gone, Read, logVars, poolVars
<1>4. LeftInv /\ Left' = Left => LeftInv'
    BY <1>1, <1>3 DEF LeftInv
<1> QED BY <1>2, <1>4

(* The slots of the heap whose candidates are rejected, in any order.      *)
LEMMA SlotsRejected ==
    ASSUME PoolInv, NEW S \in SUBSET heap, NEW r \in Reasons, NEW q \in [1..Cardinality(S) -> S],
           \A i, j \in 1..Cardinality(S) : i < j => q[i] # q[j]
    PROVE  LET log == Rejections(q, r) IN
           log \in Seq(Rejected) /\ Apart(log) /\ Named(log) = {Staged(s) : s \in S}
<1> DEFINE m == Cardinality(S)
           f == [i \in 1..m |-> Staged(q[i])]
           g == [i \in 1..m |-> r]
           log == [i \in 1..m |-> Rejection(f[i], g[i])]
<1>1. IsFiniteSet(S) /\ m \in Nat
    BY FS_Subset, FS_CardinalityType DEF PoolInv, PoolType
<1>2. Distinct(q) /\ Range(q) = S /\ DOMAIN q = 1..m
    BY <1>1, SortedAll
<1>3. \A s \in heap : Staged(s) \in Candidates
    BY PoolAssumption DEF PoolInv, PoolType, SlotsLead, Read
<1>4. f \in [1..m -> Candidates] /\ g \in [1..m -> Reasons]
    BY <1>3
<1>5. \A i, j \in 1..m : i # j => f[i] # f[j]
    BY <1>2 DEF Distinct, PoolInv, SlotsApart
<1>6. {f[i] : i \in 1..m} = {Staged(s) : s \in S}
    BY <1>2 DEF Range
<1>7. Rejections(q, r) = log
    BY <1>2 DEF Rejections
<1>8. log \in Seq(Rejected) /\ Apart(log) /\ Named(log) = {f[i] : i \in 1..m}
    <2> HIDE DEF f, g, m
    <2> QED BY <1>1, <1>4, <1>5, LogOf
<1> HIDE DEF f, g, m, log
<1> QED BY <1>6, <1>7, <1>8

(* Stage 2: those without a score and those below the threshold go.        *)
LEMMA BuildCounts ==
    ASSUME PoolInv, CountInv, BuildPool
    PROVE  CountInv'
<1> DEFINE scored(c) == Scored(eng, item[c], Axes)
           above(c) == eng.threshold = None \/ fused'[c] >= eng.threshold
           survivors == {Staged(s) : s \in {t \in heap : scored(Staged(t))}}
           A == {c \in survivors : above(c)}
           U == {s \in heap : ~scored(Staged(s))}
           B == {s \in heap : scored(Staged(s)) /\ ~above(Staged(s))}
<1>1. /\ pool' \in [1..Cardinality(A) -> A]
      /\ \A i, j \in 1..Cardinality(A) : i < j => pool'[i] # pool'[j]
      /\ UNCHANGED <<eng, item, poolVars>> /\ pc = "read" /\ pc' = "choose"
    BY DEF BuildPool, Sorted
<1>2. PICK u \in [1..Cardinality(U) -> U], b \in [1..Cardinality(B) -> B] :
        /\ \A i, j \in 1..Cardinality(U) : i < j => u[i] # u[j]
        /\ \A i, j \in 1..Cardinality(B) : i < j => b[i] # b[j]
        /\ record(Rejections(u, "not_scored") \o Rejections(b, "below_threshold"))
    BY DEF BuildPool, Sorted
<1>3. U \in SUBSET heap /\ B \in SUBSET heap /\ U \cap B = {}
    OBVIOUS
<1>4. PICK x, y : x = Rejections(u, "not_scored") /\ y = Rejections(b, "below_threshold")
    OBVIOUS
<1>5. "not_scored" \in Reasons /\ "below_threshold" \in Reasons
    BY DEF Reasons
<1>6. /\ x \in Seq(Rejected) /\ Apart(x) /\ Named(x) = {Staged(s) : s \in U}
      /\ y \in Seq(Rejected) /\ Apart(y) /\ Named(y) = {Staged(s) : s \in B}
    <2> HIDE DEF U, B
    <2> QED BY <1>2, <1>3, <1>4, <1>5, SlotsRejected
<1>7. Named(x) \cap Named(y) = {}
    BY <1>6
<1>8. PICK new : new = x \o y
    OBVIOUS
<1>9. new \in Seq(Rejected) /\ Apart(new) /\ Named(new) = Named(x) \cup Named(y)
    BY <1>6, <1>7, <1>8, JoinedLogs
<1>10. Left = {Staged(s) : s \in heap}
    BY <1>1, LeftOfHeap DEF Staged
<1>11. Named(new) \subseteq Left /\ A = Left \ Named(new)
    BY <1>6, <1>9, <1>10
<1>12. LogInv /\ LeftInv /\ eng \in Engines
    BY <1>1 DEF CountInv, PoolInv, PoolType
<1>13. IsFiniteSet(A)
    <2>1. A \in SUBSET Left /\ IsFiniteSet(Left)
        BY <1>11, <1>12 DEF LeftInv
    <2> HIDE DEF A
    <2> QED BY <2>1, FS_Subset
<1> HIDE DEF A
<1>14. Distinct(pool') /\ Range(pool') = A
    BY <1>1, <1>13, SortedAll
<1>15. Left' = Range(pool')
    BY <1>1 DEF Left
<1>16. LogInv' /\ LeftInv'
    <2>1. record(new)
        BY <1>2, <1>4, <1>8
    <2>2. Left' = Left \ Named(new)
        BY <1>11, <1>14, <1>15
    <2> QED BY <1>1, <1>9, <1>11, <1>12, <2>1, <2>2, SomeGo
<1> QED BY <1>1, <1>14, <1>16 DEF CountInv, Distinct

(* The outcome: those of the pool that were not chosen go.                 *)
LEMMA ReportCounts ==
    ASSUME PoolInv, ChoiceInv, CountInv, Report
    PROVE  CountInv'
<1>1. pc = "repair" /\ UNCHANGED <<eng, item, poolVars, pool, selected>>
    BY DEF Report, chooseVars
<1>2. /\ LogInv /\ LeftInv /\ Distinct(pool) /\ eng \in Engines /\ item \in Feeds
      /\ pool \in Seq(DOMAIN item) /\ selected \in Seq(Indices) /\ Distinct(selected)
      /\ IsFiniteSet(Indices) /\ Indices = DOMAIN pool /\ PoolBuilt
    BY <1>1, IndexTyped
       DEF CountInv, PoolInv, PoolType, ChoiceInv, GoodChoice, IsChoice, PoolBuilt, Indices
<1>3. Left = Range(pool)
    BY <1>1 DEF Left
<1>4. CASE pc' = "failed"
    <2>1. UNCHANGED logVars
        BY <1>4 DEF Report
    <2> QED BY <1>1, <1>2, <1>4, <2>1, NobodyGoes DEF CountInv
<1>5. CASE pc' # "failed"
    <2> DEFINE O == Indices \ Chosen
               m == Cardinality(O)
    <2>1. /\ pc' = "done"
          /\ outcome' = [ranked |-> [i \in DOMAIN selected |-> pool[selected[i]]],
                         promise |-> guarantee_of,
                         pool_exhausted |-> exhausted,
                         margin |-> cut_margin]
          /\ \E l \in Sorted(O, <) :
               record([n \in DOMAIN l |-> Rejection(pool[l[n]], Reason(l[n]))])
        BY <1>5, Zenon DEF Report
    <2>2. PICK q \in [1..m -> O] :
            /\ \A i, j \in 1..m : i < j => q[i] # q[j]
            /\ record([n \in DOMAIN q |-> Rejection(pool[q[n]], Reason(q[n]))])
        BY <2>1 DEF Sorted
    <2>3. IsFiniteSet(O) /\ m \in Nat
        <3>1. O \in SUBSET Indices
            OBVIOUS
        <3> HIDE DEF O
        <3> QED BY <1>2, <3>1, FS_Subset, FS_CardinalityType
    <2>4. Distinct(q) /\ Range(q) = O /\ DOMAIN q = 1..m
        <3> HIDE DEF O
        <3> QED BY <2>2, <2>3, SortedAll
    <2> DEFINE f == [i \in 1..m |-> pool[q[i]]]
               g == [i \in 1..m |-> Reason(q[i])]
               log == [i \in 1..m |-> Rejection(f[i], g[i])]
    <2>5. \A j \in Indices : pool[j] \in Candidates
        BY <1>2, PoolAssumption
    <2>6. f \in [1..m -> Candidates]
        <3>1. \A i \in 1..m : q[i] \in Indices
            <4> HIDE DEF m
            <4> QED BY <2>2
        <3> HIDE DEF m
        <3> QED BY <2>5, <3>1
    <2>7. g \in [1..m -> Reasons]
        <3>1. \A j : Reason(j) \in Reasons
            BY DEF Reason, Reasons
        <3> HIDE DEF m
        <3> QED BY <3>1
    <2>8. \A i, j \in 1..m : i # j => f[i] # f[j]
        <3>1. \A i \in 1..m : q[i] \in DOMAIN pool
            <4> HIDE DEF m
            <4> QED BY <1>2, <2>2
        <3> HIDE DEF m, O
        <3> QED BY <1>2, <2>4, <3>1 DEF Distinct
    <2>9. {f[i] : i \in 1..m} = {pool[j] : j \in O}
        <3> HIDE DEF m, O
        <3> QED BY <2>4 DEF Range
    <2>10. PICK new : new = log
        OBVIOUS
    <2>11. record(new)
        <3>1. [n \in DOMAIN q |-> Rejection(pool[q[n]], Reason(q[n]))] = log
            <4> HIDE DEF m, O
            <4> QED BY <2>4
        <3> HIDE DEF log, m
        <3> QED BY <2>2, <2>10, <3>1
    <2>12. new \in Seq(Rejected) /\ Apart(new) /\ Named(new) = {pool[j] : j \in O}
        <3>1. log \in Seq(Rejected) /\ Apart(log) /\ Named(log) = {f[i] : i \in 1..m}
            <4> HIDE DEF f, g, m
            <4> QED BY <2>3, <2>6, <2>7, <2>8, LogOf
        <3> HIDE DEF log, f, m, O
        <3> QED BY <2>9, <2>10, <3>1
    <2> HIDE DEF log, f, g, m
    <2>13. PICK r : r = [i \in DOMAIN selected |-> pool[selected[i]]]
        OBVIOUS
    <2>14. r \in Seq(Candidates) /\ Len(r) = Len(selected) /\ DOMAIN r = DOMAIN selected
        <3>1. \A i \in DOMAIN selected : selected[i] \in Indices
            BY <1>2
        <3>2. \A i \in DOMAIN selected : pool[selected[i]] \in Candidates
            BY <2>5, <3>1
        <3>3. DOMAIN selected = 1..Len(selected) /\ Len(selected) \in Nat
            BY <1>2
        <3> QED BY <2>13, <3>2, <3>3
    <2>15. Distinct(r) /\ Range(r) = {pool[j] : j \in Chosen}
        <3>1. \A i \in DOMAIN selected : selected[i] \in DOMAIN pool
            BY <1>2
        <3> QED BY <1>2, <2>13, <2>14, <3>1 DEF Distinct, Range, Chosen
    <2>16. Left' = Range(r)
        BY <2>1, <2>13 DEF Left
    <2>17. Chosen \subseteq Indices
        BY <1>2, RangeOfSeq DEF Chosen
    <2>18. Named(new) \subseteq Left /\ Left' = Left \ Named(new)
        <3>1. Left = {pool[j] : j \in Indices}
            BY <1>2, <1>3 DEF Range
        <3>2. \A i, j \in Indices : i # j => pool[i] # pool[j]
            BY <1>2 DEF Distinct
        <3> QED BY <2>12, <2>15, <2>16, <2>17, <3>1, <3>2
    <2>19. LogInv' /\ LeftInv'
        BY <1>1, <1>2, <2>11, <2>12, <2>18, SomeGo
    <2>20. Len(outcome'.ranked) = Cardinality(Left')
        <3>1. outcome'.ranked = r
            BY <2>1, <2>13
        <3> QED BY <2>14, <2>15, <2>16, <3>1, ChosenCount
    <2>21. Distinct(pool)'
        BY <1>1, <1>2 DEF Distinct
    <2> QED BY <2>1, <2>19, <2>20, <2>21 DEF CountInv
<1> QED BY <1>4, <1>5

LEMMA CountStep == PoolInv /\ ChoiceInv /\ CountInv /\ [Next]_vars => CountInv'
<1> SUFFICES ASSUME PoolInv, ChoiceInv, CountInv, [Next]_vars PROVE CountInv'
    OBVIOUS
<1>1. ASSUME NEW c \in unread, ReadOne(c) PROVE CountInv'
    BY <1>1, ReadCounts
<1>2. CASE Start \/ BatchMismatch
    <2>1. /\ UNCHANGED <<eng, item, poolVars, logVars>>
          /\ pc \in {"validate", "read"} /\ pc' \in {"read", "failed"}
        BY <1>2 DEF Start, BatchMismatch
    <2>2. pc' # "failed" => Left' = Left
        BY <2>1 DEF Left, Staged, poolVars
    <2> QED BY <2>1, <2>2, NobodyGoes DEF CountInv
<1>3. CASE Pick \/ EndCount \/ EndRatio \/ EndGain \/ Repair \/ NextRequirement
    <2>1. /\ UNCHANGED <<eng, item, poolVars, logVars, pool>>
          /\ pc \in {"choose", "repair"} /\ pc' \in {"choose", "repair", "failed"}
        BY <1>3 DEF Pick, EndCount, EndRatio, EndGain, Repair, NextRequirement
    <2>2. pc' # "failed" => Left' = Left
        BY <2>1 DEF Left
    <2>3. Distinct(pool) => Distinct(pool)'
        BY <2>1 DEF Distinct
    <2> QED BY <2>1, <2>2, <2>3, NobodyGoes DEF CountInv
<1>4. CASE Idle \/ UNCHANGED vars
    <2>1. UNCHANGED <<eng, item, poolVars, logVars, pool, pc, outcome>>
        BY <1>4 DEF Idle, vars
    <2>2. Left' = Left
        BY <2>1, ZenonT(30) DEF Left, Staged, poolVars
    <2>3. Distinct(pool) => Distinct(pool)'
        BY <2>1 DEF Distinct
    <2> QED BY <2>1, <2>2, <2>3, NobodyGoes DEF CountInv
<1> QED BY <1>1, <1>2, <1>3, <1>4, BuildCounts, ReportCounts DEF Next, ReadStep

(* evidence.rs: no candidate disappears.  Every candidate read is ranked,  *)
(* still in the pool, or counted under one reason, for inputs of any       *)
(* length and whatever part of the rejections is kept.                     *)
THEOREM NobodyDisappears == Spec => []Complete
<1>1. CountInv => Complete
    <2> SUFFICES ASSUME CountInv, pc # "failed" PROVE Complete
        BY DEF Complete
    <2>1. Cardinality(Gone) = Len(rejected)
        BY NamedCount DEF CountInv, LogInv, Gone, Named
    <2> QED BY <2>1 DEF CountInv, LogInv, LeftInv, Complete
<1> QED BY <1>1, PoolInit, PoolStep, ChoiceInit, ChoiceStep, CountInit, CountStep, PTL DEF Spec
=============================================================================
