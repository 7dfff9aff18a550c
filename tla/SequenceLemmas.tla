--------------------------- MODULE SequenceLemmas ----------------------------
(* Facts about sequences and positions that several proofs share.  *)
EXTENDS Naturals, Sequences, SequencesExt, Ranks, SequenceTheorems, FiniteSetTheorems,
        WellFoundedInduction, TLAPS

\* A set of natural numbers has a least one.
LEMMA Least ==
  ASSUME NEW T \in SUBSET Nat, T # {}
  PROVE  \E m \in T : \A n \in T : m <= n
<1> DEFINE R == OpToRel(<, Nat)
<1>1. IsWellFoundedOn(R, Nat) BY NatLessThanWellFounded
<1>2. \A x, y \in Nat : x < y => <<x, y>> \in R BY DEF OpToRel
<1> HIDE DEF R
<1>3. PICK m \in T : \A y \in T : ~(<<y, m>> \in R) BY <1>1, WFMin
<1>4. \A n \in T : ~(n < m) BY <1>2, <1>3
<1>. QED BY <1>4

\* How many elements of a set of positions are not above k.
LEMMA UpToFacts ==
  ASSUME NEW m \in Nat, NEW K, \A j \in K : j \in 1 .. m, NEW k \in Nat
  PROVE  /\ IsFiniteSet(K) /\ Cardinality(K) \in Nat
         /\ IsFiniteSet({j \in K : j <= k})
         /\ UpTo(K, k) \in Nat /\ UpTo(K, k) <= Cardinality(K)
<1> DEFINE D == 1 .. m
<1>1. K \in SUBSET D OBVIOUS
<1>2. IsFiniteSet(K)
  <2>1. IsFiniteSet(D) BY FS_Interval
  <2> HIDE DEF D
  <2>. QED BY <1>1, <2>1, FS_Subset
<1>3. {j \in K : j <= k} \in SUBSET K OBVIOUS
<1>. QED BY <1>2, <1>3, FS_Subset, FS_CardinalityType DEF UpTo

\* Each element is the n-th for one n.
LEMMA NthIs ==
  ASSUME NEW m \in Nat, NEW K, \A j \in K : j \in 1 .. m, NEW k \in K
  PROVE  Nth(K, UpTo(K, k)) = k
<1>1. \A i, j \in K : i < j => UpTo(K, i) # UpTo(K, j)
  <2> SUFFICES ASSUME NEW i \in K, NEW j \in K, i < j PROVE UpTo(K, i) # UpTo(K, j) OBVIOUS
  <2> DEFINE I == {x \in K : x <= i}
             J == {x \in K : x <= j}
  <2>1. I \in SUBSET J /\ j \in J /\ j \notin I OBVIOUS
  <2>2. IsFiniteSet(J) BY UpToFacts
  <2> HIDE DEF I, J
  <2>3. Cardinality(J) # Cardinality(I) BY <2>1, <2>2, FS_Subset
  <2>. QED BY <2>3 DEF I, J, UpTo
<1>2. \A j \in K : UpTo(K, j) = UpTo(K, k) => j = k
  <2>1. \A j \in K : j < k \/ k < j \/ j = k OBVIOUS
  <2>. QED BY <1>1, <2>1
<1>3. \E j \in K : UpTo(K, j) = UpTo(K, k) OBVIOUS
<1>4. UpTo(K, Nth(K, UpTo(K, k))) = UpTo(K, k) /\ Nth(K, UpTo(K, k)) \in K
  BY <1>3 DEF Nth
<1>. QED BY <1>2, <1>4

\* One position further there is one more, or none.
LEMMA UpToStep ==
  ASSUME NEW m \in Nat, NEW K, \A j \in K : j \in 1 .. m, NEW p \in Nat \ {0}
  PROVE  UpTo(K, p) = UpTo(K, p - 1) + (IF p \in K THEN 1 ELSE 0)
<1> DEFINE q == p - 1
           Q == {j \in K : j <= q}
<1>1. q \in Nat /\ ~(p <= q) OBVIOUS
<1>2. \A j \in K : j \in Nat /\ (j <= p <=> j <= q \/ j = p) OBVIOUS
<1>3. IsFiniteSet(Q) /\ UpTo(K, q) \in Nat BY <1>1, UpToFacts
<1>4. CASE p \in K
  <2>1. {j \in K : j <= p} = Q \cup {p} /\ p \notin Q BY <1>1, <1>2, <1>4
  <2> HIDE DEF Q, q
  <2>2. UpTo(K, p) = UpTo(K, q) + 1 BY <1>3, <2>1, FS_AddElement DEF UpTo, Q
  <2>. QED BY <1>4, <2>2 DEF q
<1>5. CASE p \notin K
  <2>1. {j \in K : j <= p} = Q BY <1>2, <1>5
  <2> HIDE DEF q
  <2>2. UpTo(K, p) = UpTo(K, q) BY <2>1 DEF UpTo
  <2>. QED BY <1>3, <1>5, <2>2 DEF q
<1>. QED BY <1>4, <1>5

\* No position, none.
LEMMA UpToZero ==
  ASSUME NEW m \in Nat, NEW K, \A j \in K : j \in 1 .. m
  PROVE  UpTo(K, 0) = 0
<1>1. {j \in K : j <= 0} = {} OBVIOUS
<1>. QED BY <1>1, FS_EmptySet DEF UpTo

\* Each n has an element.
LEMMA NthExists ==
  ASSUME NEW m \in Nat, NEW K, \A j \in K : j \in 1 .. m, NEW n \in 1 .. Cardinality(K)
  PROVE  Nth(K, n) \in K /\ UpTo(K, Nth(K, n)) = n
<1> DEFINE T == {p \in Nat : n <= UpTo(K, p)}
<1>1. m \in T
  <2>1. {j \in K : j <= m} = K OBVIOUS
  <2>. QED BY <2>1, UpToFacts DEF UpTo
<1>2. PICK p \in T : \A q \in T : p <= q BY <1>1, Least
<1>3. p \in Nat /\ n <= UpTo(K, p) BY <1>2
<1>4. \A q \in Nat : q < p => ~(n <= UpTo(K, q)) BY <1>2
<1> HIDE DEF T
<1>5. p # 0 BY <1>3, UpToZero
<1> DEFINE q == p - 1
<1>6. q \in Nat /\ q < p BY <1>3, <1>5
<1>7. ~(n <= UpTo(K, q)) /\ UpTo(K, q) \in Nat BY <1>4, <1>6, UpToFacts
<1>8. UpTo(K, p) = UpTo(K, q) + (IF p \in K THEN 1 ELSE 0) BY <1>3, <1>5, UpToStep
<1> HIDE DEF q
<1>9. p \in K /\ UpTo(K, p) = n BY <1>3, <1>7, <1>8
<1>. QED BY <1>9, NthIs

\* What SubSeq cuts out of a sequence, also behind its end.
LEMMA CutFacts ==
  ASSUME NEW S, NEW s \in Seq(S), NEW m \in Nat \ {0}, NEW n \in 0 .. Len(s)
  PROVE  /\ SubSeq(s, m, n) \in Seq(S)
         /\ Len(SubSeq(s, m, n)) = IF m <= n THEN n - m + 1 ELSE 0
         /\ \A i \in 1 .. n - m + 1 : SubSeq(s, m, n)[i] = s[m + i - 1]
<1>1. Len(s) \in Nat BY LenProperties
<1>2. \A i \in m .. n : i \in 1 .. Len(s) BY <1>1
<1>3. \A i \in m .. n : s[i] \in S BY <1>2, ElementOfSeq
<1>. QED BY <1>1, <1>3, SubSeqProperties

\* What is left of a sequence after RemoveAt.
LEMMA RemoveAtFacts ==
  ASSUME NEW S, NEW s \in Seq(S), NEW i \in 1 .. Len(s)
  PROVE  /\ RemoveAt(s, i) \in Seq(S)
         /\ Len(RemoveAt(s, i)) = Len(s) - 1
         /\ \A j \in 1 .. Len(s) - 1 :
              RemoveAt(s, i)[j] = IF j < i THEN s[j] ELSE s[j + 1]
<1> DEFINE l == SubSeq(s, 1, i - 1)
           r == SubSeq(s, i + 1, Len(s))
<1>1. l \in Seq(S) /\ Len(l) = i - 1 /\ \A j \in 1 .. i - 1 : l[j] = s[j]
  BY SubSeqProperties
<1>2. r \in Seq(S) /\ Len(r) = Len(s) - i /\ \A j \in 1 .. Len(s) - i : r[j] = s[i + j]
  BY SubSeqProperties
<1>3. RemoveAt(s, i) = l \o r
  BY DEF RemoveAt
<1> HIDE DEF l, r
<1>4. l \o r \in Seq(S) /\ Len(l \o r) = Len(s) - 1
  <2>1. l \o r \in Seq(S) /\ Len(l \o r) = Len(l) + Len(r)
    BY <1>1, <1>2, ConcatProperties
  <2>2. Len(s) \in Nat
    BY LenProperties
  <2> QED BY <2>1, <2>2, <1>1, <1>2
<1>5. \A j \in 1 .. Len(s) - 1 : (l \o r)[j] = IF j < i THEN s[j] ELSE s[j + 1]
  <2> TAKE j \in 1 .. Len(s) - 1
  <2>1. CASE j < i
    BY <2>1, <1>1, <1>2, ConcatProperties
  <2>2. CASE ~(j < i)
    <3>1. (l \o r)[j] = r[j - (i - 1)]
      BY <2>2, <1>1, <1>2, ConcatProperties
    <3> QED BY <2>2, <3>1, <1>2
  <2> QED BY <2>1, <2>2
<1> QED BY <1>3, <1>4, <1>5
=============================================================================
