--------------------------- MODULE DataInduction ---------------------------
(***************************************************************************)
(* Induction and recursion over data, in a form the provers can use.       *)
(*                                                                         *)
(* The library states induction with an operator as parameter, which the   *)
(* provers cannot instantiate.  It also states, for sets, that strict      *)
(* inclusion of finite sets is well founded, and that a well-founded       *)
(* relation has minimal elements: that gives induction over the naturals   *)
(* and over the subsets of a finite set, for a set instead of a predicate, *)
(* and with it the rules for the sums that MapThenSumSet computes.         *)
(***************************************************************************)
EXTENDS Integers, Sequences, FiniteSetsExt, FiniteSetTheorems, WellFoundedInduction, TLAPS

(* A nonempty set of naturals has a least element: the initial segments    *)
(* below its elements are finite sets, ordered by inclusion.               *)
LEMMA LeastNat ==
    ASSUME NEW T \in SUBSET Nat, T # {}
    PROVE  \E m \in T : \A k \in T : m <= k
<1> DEFINE F(n) == {i \in Nat : i < n}
           U == {F(n) : n \in T}
           R == StrictSubsetOrdering(Nat)
<1>1. U \subseteq FiniteSubsetsOf(Nat)
    <2>1. ASSUME NEW n \in T PROVE F(n) \in FiniteSubsetsOf(Nat)
        <3>1. IsFiniteSet(F(n))
            BY FS_BoundedSetOfNaturals
        <3> QED BY <3>1 DEF FiniteSubsetsOf
    <2> QED BY <2>1
<1>2. IsWellFoundedOn(R, FiniteSubsetsOf(Nat))
    BY FS_StrictSubsetOrderingWellFounded
<1>3. U # {}
    OBVIOUS
<1> HIDE DEF U, R
<1>4. \E x \in U : \A y \in U : ~(<<y, x>> \in R)
    BY <1>1, <1>2, <1>3, WFMin
<1>5. PICK m \in T : \A y \in U : <<y, F(m)>> \notin R
    BY <1>4 DEF U
<1>6. ASSUME NEW k \in T, k < m PROVE FALSE
    <2>1. F(k) \subseteq F(m) /\ k \in F(m) /\ k \notin F(k)
        BY <1>6
    <2>2. <<F(k), F(m)>> \in R
        <3>1. F(k) \in SUBSET Nat /\ F(m) \in SUBSET Nat
            OBVIOUS
        <3> HIDE DEF F
        <3> QED BY <2>1, <3>1 DEF R, StrictSubsetOrdering
    <2>3. F(k) \in U
        BY DEF U
    <2> QED BY <1>5, <2>2, <2>3
<1> QED BY <1>5, <1>6

(* Induction over the naturals, for a set instead of a predicate.          *)
LEMMA SetInduction ==
    ASSUME NEW T, 0 \in T, \A n \in Nat : n \in T => n + 1 \in T
    PROVE  \A n \in Nat : n \in T
<1> SUFFICES ASSUME NEW x \in Nat, x \notin T PROVE FALSE
    OBVIOUS
<1> DEFINE U == {n \in Nat : n \notin T}
<1>1. PICK m \in U : \A k \in U : m <= k
    <2>1. U \in SUBSET Nat /\ U # {}
        OBVIOUS
    <2> HIDE DEF U
    <2> QED BY <2>1, LeastNat
<1>2. m - 1 \in Nat /\ m - 1 \notin U
    BY <1>1
<1> QED BY <1>2

-----------------------------------------------------------------------------
(* Induction over the subsets of a finite set, for a set P of them: strict *)
(* inclusion is well founded.                                              *)
LEMMA SubsetInduction ==
    ASSUME NEW S, IsFiniteSet(S), NEW P,
           \A T \in SUBSET S : (\A U \in SUBSET T : U # T => U \in P) => T \in P
    PROVE  \A T \in SUBSET S : T \in P
<1> SUFFICES ASSUME NEW X \in SUBSET S, X \notin P PROVE FALSE
  OBVIOUS
<1> DEFINE B == {T \in SUBSET S : T \notin P}
           R == StrictSubsetOrdering(S)
<1>1. B \subseteq FiniteSubsetsOf(S)
  BY FS_Subset DEF FiniteSubsetsOf
<1>2. IsWellFoundedOn(R, FiniteSubsetsOf(S))
  BY FS_StrictSubsetOrderingWellFounded
<1>3. B # {}
  OBVIOUS
<1> HIDE DEF R, B
<1>4. \E x \in B : \A y \in B : ~(<<y, x>> \in R)
  BY <1>1, <1>2, <1>3, WFMin
<1>5. PICK T \in B : \A y \in B : ~(<<y, T>> \in R)
  BY <1>4
<1>6. T \in SUBSET S /\ T \notin P
  BY <1>5 DEF B
<1>7. ASSUME NEW U \in SUBSET T, U # T PROVE U \in P
  <2>1. U \in SUBSET S /\ <<U, T>> \in R
    BY <1>6, <1>7 DEF R, StrictSubsetOrdering
  <2> QED BY <1>5, <2>1 DEF B
<1> QED BY <1>6, <1>7

(* Finitely many naturals have a largest one; 0 stands in for none.        *)
LEMMA LargestExists ==
    ASSUME NEW S, IsFiniteSet(S), NEW f, \A x \in S : f[x] \in Nat
    PROVE  \E i \in {0} \cup {f[x] : x \in S} : \A x \in S : f[x] <= i
<1> DEFINE Q(T) == \E i \in {0} \cup {f[x] : x \in T} : \A x \in T : f[x] <= i
           P == {T \in SUBSET S : Q(T)}
<1>1. ASSUME NEW T \in SUBSET S, \A U \in SUBSET T : U # T => U \in P PROVE T \in P
  <2>1. CASE T = {}
    BY <2>1
  <2>2. CASE T # {}
    <3>1. PICK y \in T : TRUE
      BY <2>2
    <3>2. T \ {y} \in P
      <4>1. T \ {y} \in SUBSET T /\ T \ {y} # T
        BY <3>1
      <4> HIDE DEF P
      <4> QED BY <1>1, <4>1
    <3>3. PICK i \in {0} \cup {f[x] : x \in T \ {y}} : \A x \in T \ {y} : f[x] <= i
      BY <3>2
    <3>4. i \in Nat /\ f[y] \in Nat /\ \A x \in T : f[x] \in Nat
      BY <3>1, <3>3
    <3>5. CASE f[y] <= i
      <4>1. i \in {0} \cup {f[x] : x \in T} /\ \A x \in T : f[x] <= i
        BY <3>3, <3>5
      <4> QED BY <4>1
    <3>6. CASE ~(f[y] <= i)
      <4>1. f[y] \in {0} \cup {f[x] : x \in T} /\ \A x \in T : f[x] <= f[y]
        BY <3>1, <3>3, <3>4, <3>6
      <4> QED BY <4>1
    <3> QED BY <3>5, <3>6
  <2> QED BY <2>1, <2>2
<1>2. \A T \in SUBSET S : T \in P
  <2> HIDE DEF P
  <2> QED BY <1>1, SubsetInduction
<1> QED BY <1>2

(* The element of T that MapThenSumSet adds first, and its recursion       *)
(* equation for the subsets of S, where w gives the weights.               *)
Taken(T) == CHOOSE x \in T : TRUE

Sums(F, w, S) == F = [T \in SUBSET S |-> IF T = {} THEN 0 ELSE w[Taken(T)] + F[T \ {Taken(T)}]]

LEMMA TakenIsIn == ASSUME NEW T, T # {} PROVE Taken(T) \in T
  BY DEF Taken

LEMMA SumsAt ==
    ASSUME NEW F, NEW w, NEW S, Sums(F, w, S), NEW T \in SUBSET S
    PROVE  F[T] = IF T = {} THEN 0 ELSE w[Taken(T)] + F[T \ {Taken(T)}]
<1>1. F = [U \in SUBSET S |-> IF U = {} THEN 0 ELSE w[Taken(U)] + F[U \ {Taken(U)}]]
  BY DEF Sums
<1> QED BY <1>1, Zenon

(* Two such functions agree.                                               *)
LEMMA SumsAgree ==
    ASSUME NEW w, NEW S, NEW R, NEW F, NEW G, Sums(F, w, S), Sums(G, w, R),
           NEW X, X \subseteq S, X \subseteq R, IsFiniteSet(X)
    PROVE  F[X] = G[X]
<1> DEFINE P == {T \in SUBSET X : F[T] = G[T]}
<1>1. ASSUME NEW T \in SUBSET X, \A U \in SUBSET T : U # T => U \in P PROVE T \in P
  <2>0. T \in SUBSET S /\ T \in SUBSET R
    OBVIOUS
  <2> HIDE DEF P
  <2>1. F[T] = IF T = {} THEN 0 ELSE w[Taken(T)] + F[T \ {Taken(T)}]
    BY <2>0, SumsAt
  <2>2. G[T] = IF T = {} THEN 0 ELSE w[Taken(T)] + G[T \ {Taken(T)}]
    BY <2>0, SumsAt
  <2> USE DEF P
  <2>3. CASE T = {}
    BY <2>1, <2>2, <2>3
  <2>4. CASE T # {}
    <3>1. T \ {Taken(T)} \in P
      BY <1>1, <2>4, TakenIsIn
    <3> QED BY <2>1, <2>2, <2>4, <3>1
  <2> QED BY <2>3, <2>4
<1>2. \A T \in SUBSET X : T \in P
  <2> HIDE DEF P
  <2> QED BY <1>1, SubsetInduction
<1> QED BY <1>2

(* There is one for every finite set.                                      *)
LEMMA SumsExist ==
    ASSUME NEW w, NEW S, IsFiniteSet(S)
    PROVE  \E F : Sums(F, w, S)
<1> DEFINE P == {T \in SUBSET S : \E F : Sums(F, w, T)}
           V(T) == (CHOOSE F : Sums(F, w, T))[T]
<1>1. ASSUME NEW T \in SUBSET S, \A U \in SUBSET T : U # T => U \in P PROVE T \in P
  <2> DEFINE F == [U \in SUBSET T |-> IF U = {} THEN 0 ELSE w[Taken(U)] + V(U \ {Taken(U)})]
  <2>1. ASSUME NEW U \in SUBSET T, U # T PROVE F[U] = V(U)
    <3> DEFINE G == CHOOSE H : Sums(H, w, U)
    <3>1. Sums(G, w, U)
      <4>1. \E H : Sums(H, w, U)
        BY <1>1, <2>1
      <4> QED BY <4>1, Zenon
    <3>2. G[U] = IF U = {} THEN 0 ELSE w[Taken(U)] + G[U \ {Taken(U)}]
      <4>1. U \in SUBSET U
        OBVIOUS
      <4> HIDE DEF G
      <4> QED BY <3>1, <4>1, SumsAt
    <3>3. CASE U = {}
      <4>1. F[U] = 0
        BY <3>3
      <4>2. V(U) = G[U]
        OBVIOUS
      <4> QED BY <3>2, <3>3, <4>1, <4>2
    <3>4. CASE U # {}
      <4> DEFINE W == U \ {Taken(U)}
                 K == CHOOSE H : Sums(H, w, W)
      <4>1. W \in SUBSET T /\ W # T /\ W \subseteq U
        BY <2>1, <3>4, TakenIsIn
      <4>2. Sums(K, w, W)
        <5>1. \E H : Sums(H, w, W)
          BY <1>1, <4>1
        <5> HIDE DEF W
        <5> QED BY <5>1, Zenon
      <4>3. IsFiniteSet(W) /\ W \subseteq W
        BY <4>1, FS_Subset
      <4>4. K[W] = G[W]
        <5> HIDE DEF K, G, W
        <5> QED BY <3>1, <4>1, <4>2, <4>3, SumsAgree
      <4>5. V(W) = K[W] /\ V(U) = G[U]
        OBVIOUS
      <4>6. F[U] = w[Taken(U)] + V(W)
        BY <3>4
      <4> HIDE DEF K, G, F, V
      <4> QED BY <3>2, <3>4, <4>4, <4>5, <4>6
    <3> QED BY <3>3, <3>4
  <2>2. ASSUME NEW U \in SUBSET T, U # {} PROVE F[U \ {Taken(U)}] = V(U \ {Taken(U)})
    <3>1. U \ {Taken(U)} \in SUBSET T /\ U \ {Taken(U)} # T
      BY <2>2, TakenIsIn
    <3> HIDE DEF F, V
    <3> QED BY <2>1, <3>1
  <2>3. F = [U \in SUBSET T |-> IF U = {} THEN 0 ELSE w[Taken(U)] + F[U \ {Taken(U)}]]
    <3> DEFINE E == [U \in SUBSET T |-> IF U = {} THEN 0 ELSE w[Taken(U)] + F[U \ {Taken(U)}]]
    <3>1. \A U \in SUBSET T : F[U] = IF U = {} THEN 0 ELSE w[Taken(U)] + V(U \ {Taken(U)})
      <4> HIDE DEF V
      <4> QED BY Zenon
    <3>2. \A U \in SUBSET T : E[U] = IF U = {} THEN 0 ELSE w[Taken(U)] + F[U \ {Taken(U)}]
      BY Zenon
    <3>3. DOMAIN F = SUBSET T /\ DOMAIN E = SUBSET T
      BY Zenon
    <3>4. F = [U \in DOMAIN F |-> F[U]] /\ E = [U \in DOMAIN E |-> E[U]]
      OBVIOUS
    <3> HIDE DEF F, E, V
    <3>6. \A U \in SUBSET T : F[U] = E[U]
      BY <2>2, <3>1, <3>2
    <3>5. F = E
      BY <3>3, <3>4, <3>6
    <3> QED BY <3>5 DEF E
  <2>4. Sums(F, w, T)
    <3> HIDE DEF F
    <3> QED BY <2>3 DEF Sums
  <2> QED BY <2>4
<1>2. \A T \in SUBSET S : T \in P
  <2> HIDE DEF P
  <2> QED BY <1>1, SubsetInduction
<1>3. S \in P
  <2> HIDE DEF P
  <2> QED BY <1>2
<1> QED BY <1>3

(* With integers for weights the order in which the elements are taken     *)
(* does not matter.                                                        *)
LEMMA SumsRemove ==
    ASSUME NEW w, NEW S, IsFiniteSet(S), \A x \in S : w[x] \in Int, NEW F, Sums(F, w, S)
    PROVE  /\ F[{}] = 0
           /\ \A T \in SUBSET S : F[T] \in Int
           /\ \A T \in SUBSET S : \A x \in T : F[T] = w[x] + F[T \ {x}]
<1> DEFINE P == {T \in SUBSET S : F[T] \in Int /\ \A x \in T : F[T] = w[x] + F[T \ {x}]}
<1>1. ASSUME NEW T \in SUBSET S, \A U \in SUBSET T : U # T => U \in P PROVE T \in P
  <2>1. F[T] = IF T = {} THEN 0 ELSE w[Taken(T)] + F[T \ {Taken(T)}]
    BY SumsAt
  <2>2. CASE T = {}
    BY <2>1, <2>2
  <2>3. CASE T # {}
    <3> DEFINE a == Taken(T)
    <3>1. a \in T /\ T \ {a} \in P /\ w[a] \in Int
      BY <1>1, <2>3, TakenIsIn
    <3>2. F[T] = w[a] + F[T \ {a}]
      BY <2>1, <2>3
    <3> HIDE DEF a
    <3>3. F[T] \in Int
      BY <3>1, <3>2
    <3>4. ASSUME NEW x \in T, x # a PROVE F[T] = w[x] + F[T \ {x}]
      <4>1. T \ {x} \in P /\ a \in T \ {x} /\ x \in T \ {a} /\ w[x] \in Int
        BY <1>1, <3>1, <3>4
      <4>2. (T \ {x}) \ {a} = (T \ {a}) \ {x}
        OBVIOUS
      <4>3. (T \ {x}) \ {a} \in P
        BY <1>1, <3>1
      <4>4. F[T \ {x}] = w[a] + F[(T \ {x}) \ {a}]
        BY <4>1
      <4>5. F[T \ {a}] = w[x] + F[(T \ {x}) \ {a}]
        BY <3>1, <4>1, <4>2
      <4>6. F[(T \ {x}) \ {a}] \in Int
        BY <4>3
      <4>7. F[T] = w[a] + (w[x] + F[(T \ {x}) \ {a}])
        BY <3>2, <4>5
      <4> HIDE DEF P
      <4> QED BY <3>1, <4>1, <4>4, <4>6, <4>7
    <3> QED BY <3>2, <3>3, <3>4
  <2> QED BY <2>2, <2>3
<1>2. \A T \in SUBSET S : T \in P
  <2> HIDE DEF P
  <2> QED BY <1>1, SubsetInduction
<1>3. F[{}] = 0
  BY SumsAt
<1> QED BY <1>2, <1>3

(* With naturals a larger set has the larger sum.                          *)
LEMMA SumsGrow ==
    ASSUME NEW w, NEW S, IsFiniteSet(S), \A x \in S : w[x] \in Nat, NEW F, Sums(F, w, S),
           NEW X \in SUBSET S
    PROVE  F[X] \in Nat /\ \A T \in SUBSET S : X \subseteq T => F[X] <= F[T]
<1>1. /\ F[{}] = 0
      /\ \A T \in SUBSET S : F[T] \in Int
      /\ \A T \in SUBSET S : \A x \in T : F[T] = w[x] + F[T \ {x}]
  BY SumsRemove
<1>2. ASSUME NEW Y \in SUBSET S PROVE \A T \in SUBSET S : Y \subseteq T => F[Y] <= F[T]
  <2> DEFINE P == {T \in SUBSET S : Y \subseteq T => F[Y] <= F[T]}
  <2>1. ASSUME NEW T \in SUBSET S, \A U \in SUBSET T : U # T => U \in P PROVE T \in P
    <3>1. CASE T = Y
      BY <1>1, <3>1
    <3>2. CASE Y \subseteq T /\ T # Y
      <4>1. PICK x \in T : x \notin Y
        BY <3>2
      <4>2. T \ {x} \in P /\ T \ {x} \in SUBSET S /\ Y \subseteq T \ {x}
        BY <2>1, <3>2, <4>1
      <4>3. F[T] = w[x] + F[T \ {x}] /\ F[T \ {x}] \in Int /\ F[Y] \in Int /\ w[x] \in Nat
        BY <1>1, <4>2
      <4>4. F[Y] <= F[T \ {x}]
        BY <4>2
      <4>5. F[Y] <= F[T]
        BY <4>3, <4>4
      <4> QED BY <4>5
    <3> QED BY <3>1, <3>2
  <2>2. \A T \in SUBSET S : T \in P
    <3> HIDE DEF P
    <3> QED BY <2>1, SubsetInduction
  <2> QED BY <2>2
<1>3. F[{}] <= F[X] /\ F[X] \in Int
  BY <1>1, <1>2
<1> QED BY <1>1, <1>2, <1>3

-----------------------------------------------------------------------------
(* The sum of the weights of the elements of S.                            *)
SumOf(w, S) == (CHOOSE F : Sums(F, w, S))[S]

LEMMA SumIs ==
    ASSUME NEW w, NEW S, IsFiniteSet(S), NEW F, Sums(F, w, S), NEW T \in SUBSET S
    PROVE  F[T] = SumOf(w, T)
<1> DEFINE G == CHOOSE H : Sums(H, w, T)
<1>1. IsFiniteSet(T)
  BY FS_Subset
<1>2. Sums(G, w, T)
  <2>1. \E H : Sums(H, w, T)
    BY <1>1, SumsExist
  <2> QED BY <2>1, Zenon
<1>3. F[T] = G[T]
  <2> HIDE DEF G
  <2> QED BY <1>1, <1>2, SumsAgree
<1> QED BY <1>3 DEF SumOf

LEMMA SumRules ==
    ASSUME NEW w, NEW S, IsFiniteSet(S), \A x \in S : w[x] \in Int
    PROVE  /\ SumOf(w, {}) = 0 /\ SumOf(w, S) \in Int
           /\ \A x \in S : SumOf(w, S) = w[x] + SumOf(w, S \ {x})
<1>1. PICK F : Sums(F, w, S)
  BY SumsExist
<1>2. /\ F[{}] = 0
      /\ \A T \in SUBSET S : F[T] \in Int
      /\ \A T \in SUBSET S : \A x \in T : F[T] = w[x] + F[T \ {x}]
  BY <1>1, SumsRemove
<1>3. \A T \in SUBSET S : F[T] = SumOf(w, T)
  BY <1>1, SumIs
<1>4. {} \in SUBSET S /\ S \in SUBSET S /\ \A x \in S : S \ {x} \in SUBSET S
  OBVIOUS
<1> QED BY <1>2, <1>3, <1>4

LEMMA SumGrows ==
    ASSUME NEW w, NEW S, IsFiniteSet(S), \A x \in S : w[x] \in Nat
    PROVE  SumOf(w, S) \in Nat /\ \A T \in SUBSET S : SumOf(w, T) \in Nat /\ SumOf(w, T) <= SumOf(w, S)
<1>1. PICK F : Sums(F, w, S)
  BY SumsExist
<1>2. \A X \in SUBSET S : F[X] \in Nat /\ \A T \in SUBSET S : X \subseteq T => F[X] <= F[T]
  BY <1>1, SumsGrow
<1>3. \A T \in SUBSET S : F[T] = SumOf(w, T)
  BY <1>1, SumIs
<1>4. S \in SUBSET S
  OBVIOUS
<1> QED BY <1>2, <1>3, <1>4

(* Weights that agree on S have the same sum.                              *)
LEMMA SumSame ==
    ASSUME NEW w, NEW v, NEW S, IsFiniteSet(S), \A x \in S : w[x] = v[x]
    PROVE  SumOf(w, S) = SumOf(v, S)
<1>1. PICK F : Sums(F, w, S)
  BY SumsExist
<1>2. Sums(F, v, S)
  <2> DEFINE E(u) == [T \in SUBSET S |-> IF T = {} THEN 0 ELSE u[Taken(T)] + F[T \ {Taken(T)}]]
  <2>1. \A T \in SUBSET S : T # {} => w[Taken(T)] = v[Taken(T)]
    BY TakenIsIn
  <2>2. E(w) = E(v)
    BY <2>1
  <2> QED BY <1>1, <2>2 DEF Sums
<1>3. S \in SUBSET S
  OBVIOUS
<1>4. F[S] = SumOf(w, S) /\ F[S] = SumOf(v, S)
  BY <1>1, <1>2, <1>3, SumIs
<1> QED BY <1>4

-----------------------------------------------------------------------------
(* A sequence of whatever elements, and one that is longer by one.         *)
IsSeq(s) == \E S : s \in Seq(S)

LEMMA AppendAny ==
    ASSUME NEW s, IsSeq(s), NEW e
    PROVE  /\ IsSeq(Append(s, e)) /\ Len(s) \in Nat /\ DOMAIN s = 1..Len(s)
           /\ DOMAIN Append(s, e) = 1..(Len(s) + 1)
           /\ \A i \in 1..Len(s) : Append(s, e)[i] = s[i]
           /\ Append(s, e)[Len(s) + 1] = e
<1>1. PICK S : s \in Seq(S)
  BY DEF IsSeq
<1>2. s \in Seq(S \cup {e}) /\ e \in S \cup {e}
  BY <1>1
<1>3. Append(s, e) \in Seq(S \cup {e})
  BY <1>2
<1> QED
  BY <1>2, <1>3 DEF IsSeq
=============================================================================
