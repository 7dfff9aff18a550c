--------------------------- MODULE AtsParseProofs ----------------------------
(***************************************************************************)
(* AtCmdExec takes every text apart as it is meant, whatever its length,   *)
(* the names that are registered and the room for parameters.              *)
(*                                                                         *)
(* Every call of strtok_r takes the first parameter off what is left, and  *)
(* leaves the others: so the parameters found and those of what is left    *)
(* always make up the parameters of the line, and a full argv is an error  *)
(* exactly when something is left.                                         *)
(***************************************************************************)
EXTENDS AtsParse, SequenceLemmas

(* Least positions *)

\* i is the first position from k on that FirstOf looks for.
IsFirst(s, k, C, i) ==
  /\ i \in k .. Len(s) + 1
  /\ i = Len(s) + 1 \/ s[i] \in C
  /\ \A j \in k .. i - 1 : s[j] \notin C

LEMMA FirstOfIsFirst ==
  ASSUME NEW s, Len(s) \in Nat, NEW k \in 1 .. Len(s) + 1, NEW C
  PROVE  IsFirst(s, k, C, FirstOf(s, k, C))
<1> DEFINE T == {i \in k .. Len(s) + 1 : i = Len(s) + 1 \/ s[i] \in C}
<1>1. T \in SUBSET Nat /\ Len(s) + 1 \in T OBVIOUS
<1>2. PICK m \in T : \A n \in T : m <= n BY <1>1, Least
<1>3. \A j \in k .. m - 1 : s[j] \notin C BY <1>2
<1>4. \E i \in k .. Len(s) + 1 : /\ i = Len(s) + 1 \/ s[i] \in C
                                 /\ \A j \in k .. i - 1 : s[j] \notin C
  BY <1>2, <1>3
<1>. QED BY <1>4 DEF FirstOf, IsFirst

LEMMA FirstOfIsUnique ==
  ASSUME NEW s, Len(s) \in Nat, NEW k \in 1 .. Len(s) + 1, NEW C, NEW i, IsFirst(s, k, C, i)
  PROVE  FirstOf(s, k, C) = i
<1> DEFINE f == FirstOf(s, k, C)
<1>1. IsFirst(s, k, C, f) BY FirstOfIsFirst
<1> HIDE DEF f
<1>2. f \in k .. Len(s) + 1 /\ i \in k .. Len(s) + 1 BY <1>1 DEF IsFirst
<1>3. ~(f < i)
  <2>1. f < i => f \in k .. i - 1 /\ f # Len(s) + 1 BY <1>2
  <2>. QED BY <1>1, <2>1 DEF IsFirst
<1>4. ~(i < f)
  <2>1. i < f => i \in k .. f - 1 /\ i # Len(s) + 1 BY <1>2
  <2>. QED BY <1>1, <2>1 DEF IsFirst
<1>. QED BY <1>2, <1>3, <1>4 DEF f

-----------------------------------------------------------------------------
(* Positions *)

\* Positions moved to the right by e.
LEMMA Shifted ==
  ASSUME NEW K \in SUBSET Nat, IsFiniteSet(K), NEW e \in Nat
  PROVE  /\ IsFiniteSet({e + k : k \in K})
         /\ Cardinality({e + k : k \in K}) = Cardinality(K)
<1> DEFINE J == {e + k : k \in K}
           f == [k \in K |-> e + k]
<1>1. f \in Bijection(K, J)
  <2>1. f \in [K -> J] OBVIOUS
  <2>2. \A x, y \in K : f[x] = f[y] => x = y OBVIOUS
  <2>3. \A y \in J : \E x \in K : f[x] = y OBVIOUS
  <2> HIDE DEF f, J
  <2>. QED BY <2>1, <2>2, <2>3 DEF Bijection, Injection, IsInjective, Surjection
<1>. QED BY <1>1, FS_Bijection DEF ExistsBijection

-----------------------------------------------------------------------------
(* One call of strtok_r *)

\* The first token of s is in front of e and starts at b.
Cuts(s, d, b, e) ==
  /\ b \in 1 .. Len(s) /\ e \in b + 1 .. Len(s) + 1
  /\ \A j \in 1 .. b - 1 : s[j] = d
  /\ \A j \in b .. e - 1 : s[j] # d
  /\ e = Len(s) + 1 \/ s[e] = d

LEMMA Token ==
  ASSUME NEW S \in SUBSET Char, NEW s \in Seq(S), NEW d
  PROVE  \/ /\ \A j \in 1 .. Len(s) : s[j] = d
            /\ StrTok(s, d).tok = <<>>
         \/ \E b, e : /\ Cuts(s, d, b, e)
                      /\ StrTok(s, d) = [tok |-> SubSeq(s, b, e - 1), at |-> e - 1,
                                         left |-> SubSeq(s, e + 1, Len(s))]
                      /\ StrTok(s, d).tok # <<>>
<1> DEFINE b == FirstOf(s, 1, Char \ {d})
           e == FirstOf(s, b, {d})
<1>1. Len(s) \in Nat /\ \A j \in 1 .. Len(s) : s[j] \in Char BY LenProperties, ElementOfSeq
<1>2. IsFirst(s, 1, Char \ {d}, b) BY <1>1, FirstOfIsFirst
<1>3. b \in 1 .. Len(s) + 1 BY <1>2 DEF IsFirst
<1>4. IsFirst(s, b, {d}, e) BY <1>1, <1>3, FirstOfIsFirst
<1>5. StrTok(s, d) = [tok |-> SubSeq(s, b, e - 1), at |-> e - 1,
                      left |-> SubSeq(s, e + 1, Len(s))]
  BY DEF StrTok
<1> HIDE DEF b, e
<1>6. \A j \in 1 .. b - 1 : s[j] = d
  <2>1. \A j \in 1 .. b - 1 : j \in 1 .. Len(s) BY <1>1, <1>3
  <2>. QED BY <1>1, <1>2, <2>1 DEF IsFirst
<1>7. e \in b .. Len(s) + 1 /\ (e = Len(s) + 1 \/ s[e] = d) /\ \A j \in b .. e - 1 : s[j] # d
  BY <1>4 DEF IsFirst
<1>8. CASE b = Len(s) + 1
  <2>1. e - 1 < b /\ e - 1 \in Int /\ b \in Int BY <1>1, <1>7, <1>8
  <2>2. SubSeq(s, b, e - 1) = <<>> BY <2>1, SubSeqEmpty
  <2>3. \A j \in 1 .. Len(s) : j \in 1 .. b - 1 BY <1>1, <1>8
  <2>. QED BY <1>5, <1>6, <2>2, <2>3
<1>9. CASE b # Len(s) + 1
  <2>1. b \in 1 .. Len(s) /\ s[b] # d BY <1>1, <1>2, <1>3, <1>9 DEF IsFirst
  <2>2. e \in b + 1 .. Len(s) + 1 BY <1>1, <1>7, <2>1
  <2>3. Cuts(s, d, b, e) BY <1>6, <1>7, <2>1, <2>2 DEF Cuts
  <2>4. b \in Nat \ {0} /\ e - 1 \in 0 .. Len(s) /\ b <= e - 1 BY <1>1, <2>1, <2>2
  <2>5. Len(SubSeq(s, b, e - 1)) = (e - 1) - b + 1 BY <2>4, CutFacts
  <2>6. Len(SubSeq(s, b, e - 1)) # 0 BY <1>1, <2>1, <2>2, <2>5
  <2>7. SubSeq(s, b, e - 1) # <<>> BY <2>6, EmptySeq
  <2>8. StrTok(s, d).tok # <<>> BY <1>5, <2>7
  <2>. QED BY <1>5, <2>3, <2>8, Zenon
<1>. QED BY <1>8, <1>9

-----------------------------------------------------------------------------
(* The parameters of a text, one by one *)

LEMMA StartsFacts ==
  ASSUME NEW s, Len(s) \in Nat
  PROVE  /\ \A j \in Starts(s) : j \in 1 .. Len(s)
         /\ IsFiniteSet(Starts(s)) /\ Cardinality(Starts(s)) \in Nat
<1>1. \A j \in Starts(s) : j \in 1 .. Len(s) BY DEF Starts
<1>. QED BY <1>1, UpToFacts

LEMMA NoParams ==
  ASSUME NEW s, Len(s) \in Nat, \A j \in 1 .. Len(s) : s[j] = PARAM_DILM
  PROVE  Params(s) = <<>>
<1>1. Starts(s) = {} BY DEF Starts
<1>2. Cardinality(Starts(s)) = 0 BY <1>1, FS_EmptySet
<1>3. Params(s) = [n \in 1 .. 0 |-> Piece(s, Nth(Starts(s), n))] BY <1>2 DEF Params
<1>. QED BY <1>3

\* What starts behind the first parameter.
LEMMA StartsBehind ==
  ASSUME NEW S, NEW s \in Seq(S), NEW b, NEW e, Cuts(s, PARAM_DILM, b, e)
  PROVE  LET l == SubSeq(s, e + 1, Len(s)) IN
         /\ l \in Seq(S) /\ Len(l) \in Nat /\ b \in Nat \ {0} /\ e \in Nat /\ b < e
         /\ e <= Len(s) => Len(l) = Len(s) - e
         /\ e = Len(s) + 1 => Len(l) = 0
         /\ \A j \in 1 .. Len(l) : l[j] = s[e + j]
         /\ Starts(s) = {b} \cup {e + k : k \in Starts(l)}
<1> DEFINE l == SubSeq(s, e + 1, Len(s))
<1> HIDE DEF l
<1>1. Len(s) \in Nat BY LenProperties
<1>2. b \in 1 .. Len(s) /\ e \in b + 1 .. Len(s) + 1 BY DEF Cuts
<1>3. b \in Nat \ {0} /\ e \in Nat /\ b < e /\ e + 1 \in Nat \ {0} /\ Len(s) \in 0 .. Len(s)
  <2>1. b \in Nat \ {0} BY <1>1, <1>2
  <2>2. e \in Nat /\ b < e BY <1>1, <1>2, <2>1
  <2>3. e + 1 \in Nat \ {0} BY <2>2
  <2>4. Len(s) \in 0 .. Len(s) BY <1>1
  <2>. QED BY <2>1, <2>2, <2>3, <2>4
<1>4. /\ l \in Seq(S)
      /\ Len(l) = IF e + 1 <= Len(s) THEN Len(s) - (e + 1) + 1 ELSE 0
      /\ \A j \in 1 .. Len(s) - (e + 1) + 1 : l[j] = s[e + 1 + j - 1]
  BY <1>3, CutFacts DEF l
<1>5. /\ Len(l) \in Nat
      /\ e <= Len(s) => Len(l) = Len(s) - e
      /\ e = Len(s) + 1 => Len(l) = 0
  BY <1>1, <1>2, <1>4
<1>6. \A j \in 1 .. Len(l) : l[j] = s[e + j]
  <2> SUFFICES ASSUME NEW j \in 1 .. Len(l) PROVE l[j] = s[e + j] OBVIOUS
  <2>1. e <= Len(s) BY <1>1, <1>2, <1>5
  <2>2. j \in 1 .. Len(s) - (e + 1) + 1 /\ e + 1 + j - 1 = e + j BY <1>1, <1>3, <1>5, <2>1
  <2>. QED BY <1>4, <2>2
<1>7. \A k \in 1 .. Len(s) : k \in Starts(s) <=> k = b \/ (k - e \in Starts(l))
  <2> SUFFICES ASSUME NEW k \in 1 .. Len(s)
               PROVE  k \in Starts(s) <=> k = b \/ (k - e \in Starts(l))
    OBVIOUS
  <2>0. k \in Nat /\ k - 1 \in Int BY <1>1
  <2>1. CASE k < b
    <3>1. s[k] = PARAM_DILM BY <1>3, <2>0, <2>1 DEF Cuts
    <3>2. ~(k - e \in 1 .. Len(l)) BY <1>3, <2>0, <2>1
    <3>. QED BY <1>3, <2>0, <2>1, <3>1, <3>2 DEF Starts
  <2>2. CASE k = b
    <3>1. s[b] # PARAM_DILM BY <1>3 DEF Cuts
    <3>2. b # 1 => s[b - 1] = PARAM_DILM BY <1>3 DEF Cuts
    <3>. QED BY <2>2, <3>1, <3>2 DEF Starts
  <2>3. CASE b < k /\ k < e
    <3>1. k - 1 \in b .. e - 1 /\ k # 1 BY <1>3, <2>0, <2>3
    <3>2. s[k - 1] # PARAM_DILM BY <3>1 DEF Cuts
    <3>3. ~(k - e \in 1 .. Len(l)) BY <1>3, <2>0, <2>3
    <3>. QED BY <2>0, <1>3, <2>3, <3>1, <3>2, <3>3 DEF Starts
  <2>4. CASE k = e
    <3>1. s[k] = PARAM_DILM BY <1>1, <2>4 DEF Cuts
    <3>2. ~(k - e \in 1 .. Len(l)) BY <1>3, <2>4
    <3>. QED BY <1>3, <2>4, <3>1, <3>2 DEF Starts
  <2>5. CASE e < k
    <3> DEFINE i == k - e
    <3>1. i \in 1 .. Len(l) /\ k = e + i /\ k # 1 /\ k # b BY <1>1, <1>3, <1>5, <2>0, <2>5
    <3>2. l[i] = s[k] BY <1>6, <3>1
    <3>3. i = 1 => s[k - 1] = PARAM_DILM
      <4>1. i = 1 => k - 1 = e /\ e # Len(s) + 1 BY <1>1, <1>3, <2>0, <3>1
      <4>. QED BY <4>1 DEF Cuts
    <3>4. i # 1 => l[i - 1] = s[k - 1]
      <4>1. i # 1 => i - 1 \in 1 .. Len(l) /\ e + (i - 1) = k - 1 BY <1>3, <1>5, <3>1
      <4>. QED BY <1>6, <4>1
    <3> HIDE DEF i
    <3>5. k \in Starts(s) <=> i \in Starts(l) BY <3>1, <3>2, <3>3, <3>4 DEF Starts
    <3>. QED BY <3>1, <3>5 DEF i
  <2>. QED BY <1>3, <2>0, <2>1, <2>2, <2>3, <2>4, <2>5
<1>8. \A k \in Starts(s) : k \in 1 .. Len(s) BY <1>1, StartsFacts
<1>9. \A k \in Starts(l) : e + k \in 1 .. Len(s) /\ (e + k) - e = k
  <2>1. \A k \in Starts(l) : k \in 1 .. Len(l) BY <1>5, StartsFacts
  <2>. QED BY <1>1, <1>2, <1>3, <1>5, <2>1
<1>10. Starts(s) = {b} \cup {e + k : k \in Starts(l)}
  <2>1. \A k \in Starts(s) : k = b \/ \E i \in Starts(l) : k = e + i
    <3>1. \A k \in Starts(s) : e + (k - e) = k BY <1>3, <1>8
    <3>. QED BY <1>7, <1>8, <3>1
  <2>2. b \in Starts(s) BY <1>2, <1>7
  <2>3. \A i \in Starts(l) : e + i \in Starts(s)
    <3> SUFFICES ASSUME NEW i \in Starts(l) PROVE e + i \in Starts(s) OBVIOUS
    <3> DEFINE k == e + i
    <3>0. e + i \in 1 .. Len(s) /\ (e + i) - e = i BY <1>9
    <3>1. k \in 1 .. Len(s) /\ k - e = i BY <3>0
    <3> HIDE DEF k
    <3>2. k \in Starts(s) BY <1>7, <3>1
    <3>. QED BY <3>2 DEF k
  <2>. QED BY <2>1, <2>2, <2>3
<1>. QED BY <1>3, <1>4, <1>5, <1>6, <1>10 DEF l

LEMMA PieceBehind ==
  ASSUME NEW S, NEW s \in Seq(S), NEW b, NEW e, Cuts(s, PARAM_DILM, b, e),
         NEW k \in Starts(SubSeq(s, e + 1, Len(s)))
  PROVE  Piece(s, e + k) = Piece(SubSeq(s, e + 1, Len(s)), k)
<1> DEFINE l == SubSeq(s, e + 1, Len(s))
<1> HIDE DEF l
<1>1. Len(s) \in Nat BY LenProperties
<1>2. /\ l \in Seq(S) /\ Len(l) \in Nat /\ e \in Nat
      /\ \A j \in 1 .. Len(l) : l[j] = s[e + j]
  BY StartsBehind DEF l
<1>3. k \in 1 .. Len(l)
  <2>1. k \in Starts(l) BY DEF l
  <2>. QED BY <1>2, <2>1, StartsFacts
<1>4. Len(s) = e + Len(l)
  <2>1. /\ e <= Len(s) => Len(l) = Len(s) - e
        /\ e = Len(s) + 1 => Len(l) = 0
    BY StartsBehind DEF l
  <2>2. e <= Len(s) \/ e = Len(s) + 1
    <3>1. b \in 1 .. Len(s) /\ e \in b + 1 .. Len(s) + 1 BY DEF Cuts
    <3>. QED BY <1>1, <1>2, <3>1
  <2>3. Len(l) # 0 BY <1>2, <1>3
  <2>. QED BY <1>1, <1>2, <2>1, <2>2, <2>3
<1> DEFINE C == {PARAM_DILM}
           f == FirstOf(l, k, C)
<1>5. IsFirst(l, k, C, f)
  <2>1. k \in 1 .. Len(l) + 1 BY <1>2, <1>3
  <2>. QED BY <1>2, <2>1, FirstOfIsFirst
<1> HIDE DEF f, C
<1>6. f \in k .. Len(l) + 1 /\ k \in Nat /\ f \in Nat /\ 0 < f /\ 0 < k
  <2>1. f \in k .. Len(l) + 1 BY <1>5 DEF IsFirst
  <2>2. k \in Nat /\ 0 < k BY <1>2, <1>3
  <2>. QED BY <1>2, <2>1, <2>2
<1>7. IsFirst(s, e + k, C, e + f)
  <2>1. e + f \in e + k .. Len(s) + 1 BY <1>2, <1>4, <1>6
  <2>2. e + f = Len(s) + 1 \/ s[e + f] \in C
    <3>1. CASE f = Len(l) + 1 BY <1>2, <1>4, <3>1
    <3>2. CASE f # Len(l) + 1
      <4>1. f \in 1 .. Len(l) /\ l[f] \in C BY <1>2, <1>5, <1>6, <3>2 DEF IsFirst
      <4>. QED BY <1>2, <4>1
    <3>. QED BY <3>1, <3>2
  <2>3. \A j \in e + k .. (e + f) - 1 : s[j] \notin C
    <3> SUFFICES ASSUME NEW j \in e + k .. (e + f) - 1 PROVE s[j] \notin C OBVIOUS
    <3> DEFINE i == j - e
    <3>1. i \in k .. f - 1 /\ j = e + i /\ i \in 1 .. Len(l) BY <1>2, <1>6
    <3> HIDE DEF i
    <3>2. l[i] \notin C BY <1>5, <3>1 DEF IsFirst
    <3>. QED BY <1>2, <3>1, <3>2
  <2> DEFINE x == e + k
             y == e + f
  <2> HIDE DEF x, y
  <2>4. y \in x .. Len(s) + 1 /\ (y = Len(s) + 1 \/ s[y] \in C) /\ \A j \in x .. y - 1 : s[j] \notin C
    BY <2>1, <2>2, <2>3 DEF x, y
  <2>5. IsFirst(s, x, C, y) BY <2>4 DEF IsFirst
  <2>. QED BY <2>5 DEF x, y
<1>8. FirstOf(s, e + k, C) = e + f
  <2>1. e + k \in 1 .. Len(s) + 1 BY <1>2, <1>3, <1>4
  <2>. QED BY <1>1, <1>7, <2>1, FirstOfIsUnique
<1>9. SubSeq(s, e + k, (e + f) - 1) = SubSeq(l, k, f - 1)
  <2> DEFINE p == SubSeq(s, e + k, (e + f) - 1)
             q == SubSeq(l, k, f - 1)
  <2>1. /\ e + k \in Nat \ {0} /\ (e + f) - 1 \in 0 .. Len(s)
        /\ k \in Nat \ {0} /\ f - 1 \in 0 .. Len(l)
    BY <1>2, <1>4, <1>6
  <2>2. /\ p \in Seq(S) /\ Len(p) = IF e + k <= (e + f) - 1 THEN (e + f) - 1 - (e + k) + 1 ELSE 0
        /\ \A i \in 1 .. (e + f) - 1 - (e + k) + 1 : p[i] = s[e + k + i - 1]
    BY <2>1, CutFacts
  <2>3. /\ q \in Seq(S) /\ Len(q) = IF k <= f - 1 THEN f - 1 - k + 1 ELSE 0
        /\ \A i \in 1 .. f - 1 - k + 1 : q[i] = l[k + i - 1]
    BY <1>2, <2>1, CutFacts
  <2> HIDE DEF p, q
  <2>4. Len(p) = Len(q) /\ Len(q) = f - k BY <1>2, <1>6, <2>2, <2>3
  <2>5. \A i \in 1 .. Len(p) : p[i] = q[i]
    <3> SUFFICES ASSUME NEW i \in 1 .. Len(p) PROVE p[i] = q[i] OBVIOUS
    <3> DEFINE j == k + i - 1
    <3>1. i \in 1 .. (e + f) - 1 - (e + k) + 1 /\ i \in 1 .. f - 1 - k + 1
      BY <1>2, <1>6, <2>4
    <3>2. p[i] = s[e + k + i - 1] /\ q[i] = l[j] BY <2>2, <2>3, <3>1
    <3>3. e + k + i - 1 = e + j /\ j \in 1 .. Len(l) BY <1>2, <1>6, <3>1
    <3> HIDE DEF j
    <3>. QED BY <1>2, <3>2, <3>3
  <2>6. p = q BY <2>2, <2>3, <2>4, <2>5, SeqEqual
  <2>. QED BY <2>6 DEF p, q
<1>. QED BY <1>8, <1>9 DEF Piece, C, f, l

LEMMA ParamsType ==
  ASSUME NEW S, NEW s \in Seq(S)
  PROVE  /\ Params(s) \in Seq(Seq(S))
         /\ Len(Params(s)) = Cardinality(Starts(s))
         /\ \A n \in 1 .. Cardinality(Starts(s)) : Params(s)[n] = Piece(s, Nth(Starts(s), n))
<1> DEFINE K == Starts(s)
           N == Cardinality(K)
<1>1. Len(s) \in Nat BY LenProperties
<1>2. N \in Nat /\ \A j \in K : j \in 1 .. Len(s) BY <1>1, StartsFacts
<1>3. \A k \in K : Piece(s, k) \in Seq(S)
  <2> SUFFICES ASSUME NEW k \in K PROVE Piece(s, k) \in Seq(S) OBVIOUS
  <2> DEFINE C == {PARAM_DILM}
             f == FirstOf(s, k, C)
  <2>1. k \in 1 .. Len(s) /\ k \in 1 .. Len(s) + 1 BY <1>1, <1>2
  <2>2. IsFirst(s, k, C, f) BY <1>1, <2>1, FirstOfIsFirst
  <2> HIDE DEF C, f
  <2>3. f \in k .. Len(s) + 1 BY <2>2 DEF IsFirst
  <2>4. k \in Nat \ {0} /\ f - 1 \in 0 .. Len(s) BY <1>1, <2>1, <2>3
  <2>5. SubSeq(s, k, f - 1) \in Seq(S) BY <2>4, CutFacts
  <2>. QED BY <2>5 DEF Piece, C, f
<1> HIDE DEF K, N
<1>4. \A n \in 1 .. N : Nth(K, n) \in K BY <1>1, <1>2, NthExists DEF N
<1>5. \A n \in 1 .. N : Piece(s, Nth(K, n)) \in Seq(S) BY <1>3, <1>4
<1>6. Params(s) = [n \in 1 .. N |-> Piece(s, Nth(K, n))] BY DEF Params, K, N
<1>7. Params(s) \in [1 .. N -> Seq(S)] BY <1>5, <1>6
<1>8. Params(s) \in Seq(Seq(S)) BY <1>2, <1>7
<1>9. Len(Params(s)) = N
  <2>1. DOMAIN Params(s) = 1 .. N BY <1>7
  <2>. QED BY <1>2, <1>8, <2>1, LenProperties
<1>10. \A n \in 1 .. N : Params(s)[n] = Piece(s, Nth(K, n)) BY <1>6
<1>. QED BY <1>8, <1>9, <1>10 DEF K, N

LEMMA NthBehind ==
  ASSUME NEW S, NEW s \in Seq(S), NEW b, NEW e, Cuts(s, PARAM_DILM, b, e)
  PROVE  LET K == Starts(s)
             L == Starts(SubSeq(s, e + 1, Len(s)))
         IN  /\ Cardinality(K) = Cardinality(L) + 1
             /\ Nth(K, 1) = b
             /\ \A n \in 1 .. Cardinality(L) : Nth(L, n) \in L /\ Nth(K, n + 1) = e + Nth(L, n)
<1> DEFINE l == SubSeq(s, e + 1, Len(s))
           K == Starts(s)
           L == Starts(l)
<1> HIDE DEF l
<1>1. Len(s) \in Nat BY LenProperties
<1>2. /\ Len(l) \in Nat /\ b \in Nat \ {0} /\ e \in Nat /\ b < e
      /\ K = {b} \cup {e + k : k \in L}
  BY StartsBehind DEF l
<1>3. \A k \in K : k \in 1 .. Len(s) BY <1>1, StartsFacts
<1>4. /\ \A k \in L : k \in 1 .. Len(l)
      /\ IsFiniteSet(L) /\ Cardinality(L) \in Nat
  BY <1>2, StartsFacts
<1> HIDE DEF K, L
<1>5. \A k \in L : k \in Nat /\ 0 < k BY <1>2, <1>4
<1>6. ASSUME NEW M \in SUBSET L
      PROVE  /\ Cardinality({b} \cup {e + k : k \in M}) = Cardinality(M) + 1
             /\ Cardinality(M) \in Nat
  <2> DEFINE J == {e + k : k \in M}
  <2>1. IsFiniteSet(M) /\ Cardinality(M) \in Nat BY <1>4, FS_Subset, FS_CardinalityType
  <2>2. M \in SUBSET Nat BY <1>5
  <2>3. IsFiniteSet(J) /\ Cardinality(J) = Cardinality(M) BY <1>2, <2>1, <2>2, Shifted
  <2>4. b \notin J BY <1>2, <1>5
  <2> HIDE DEF J
  <2>5. Cardinality(J \cup {b}) = Cardinality(J) + 1 BY <2>3, <2>4, FS_AddElement
  <2>6. J \cup {b} = {b} \cup J OBVIOUS
  <2>. QED BY <2>1, <2>3, <2>5, <2>6 DEF J
<1>7. Cardinality(K) = Cardinality(L) + 1 BY <1>2, <1>6
<1>8. Nth(K, 1) = b
  <2>1. {j \in K : j <= b} = {b} BY <1>2, <1>5
  <2>2. UpTo(K, b) = 1 BY <2>1, FS_Singleton DEF UpTo
  <2>3. b \in K BY <1>2
  <2>. QED BY <1>1, <1>3, <2>2, <2>3, NthIs
<1>9. ASSUME NEW n \in 1 .. Cardinality(L)
      PROVE  Nth(L, n) \in L /\ Nth(K, n + 1) = e + Nth(L, n)
  <2> DEFINE k == Nth(L, n)
             M == {i \in L : i <= k}
  <2>1. k \in L /\ UpTo(L, k) = n BY <1>2, <1>4, NthExists
  <2> HIDE DEF k
  <2>2. {j \in K : j <= e + k} = {b} \cup {e + i : i \in M}
    <3>1. k \in Nat BY <1>5, <2>1
    <3>2. b <= e + k BY <1>2, <3>1
    <3>3. \A i \in L : e + i <= e + k <=> i <= k BY <1>2, <1>5, <3>1
    <3>. QED BY <1>2, <3>2, <3>3
  <2>3. M \in SUBSET L OBVIOUS
  <2>4. Cardinality(M) = n BY <2>1 DEF UpTo
  <2> HIDE DEF M
  <2>5. Cardinality({j \in K : j <= e + k}) = n + 1 BY <1>6, <2>2, <2>3, <2>4
  <2>6. UpTo(K, e + k) = n + 1 BY <2>5 DEF UpTo
  <2>7. e + k \in K BY <1>2, <2>1
  <2>8. Nth(K, UpTo(K, e + k)) = e + k BY <1>1, <1>3, <2>7, NthIs
  <2>. QED BY <2>1, <2>6, <2>8 DEF k
<1>. QED BY <1>7, <1>8, <1>9 DEF K, L, l

\* What strtok_r cuts off is the first parameter; the others are those of what
\* it leaves.
LEMMA ParamsStep ==
  ASSUME NEW S, NEW s \in Seq(S), NEW b, NEW e, Cuts(s, PARAM_DILM, b, e)
  PROVE  LET l == SubSeq(s, e + 1, Len(s)) IN
         /\ l \in Seq(S)
         /\ Len(Params(s)) = Len(Params(l)) + 1
         /\ Params(s) = <<SubSeq(s, b, e - 1)>> \o Params(l)
<1> DEFINE l == SubSeq(s, e + 1, Len(s))
           tok == SubSeq(s, b, e - 1)
           N == Cardinality(Starts(l))
           T == Seq(S)
<1>1. /\ Cardinality(Starts(s)) = N + 1
      /\ Nth(Starts(s), 1) = b
      /\ \A n \in 1 .. N : /\ Nth(Starts(l), n) \in Starts(l)
                           /\ Nth(Starts(s), n + 1) = e + Nth(Starts(l), n)
  BY NthBehind
<1>2. l \in Seq(S) /\ Len(l) \in Nat BY StartsBehind
<1>3. \A k \in Starts(l) : Piece(s, e + k) = Piece(l, k) BY PieceBehind
<1>4. Piece(s, b) = tok
  <2>1. Len(s) \in Nat BY LenProperties
  <2>2. b \in 1 .. Len(s) /\ e \in b + 1 .. Len(s) + 1 BY DEF Cuts
  <2>3. b \in 1 .. Len(s) + 1 /\ e \in b .. Len(s) + 1 BY <2>1, <2>2
  <2> DEFINE C == {PARAM_DILM}
  <2>4. (e = Len(s) + 1 \/ s[e] \in C) /\ \A j \in b .. e - 1 : s[j] \notin C BY DEF Cuts
  <2> HIDE DEF C
  <2>5. IsFirst(s, b, C, e) BY <2>3, <2>4 DEF IsFirst
  <2>6. FirstOf(s, b, C) = e BY <2>1, <2>3, <2>5, FirstOfIsUnique
  <2>. QED BY <2>6 DEF Piece, C
<1>5. N \in Nat BY <1>2, StartsFacts
<1> HIDE DEF l
<1>6. /\ Params(s) \in Seq(T) /\ Len(Params(s)) = N + 1
      /\ \A n \in 1 .. N + 1 : Params(s)[n] = Piece(s, Nth(Starts(s), n))
  BY <1>1, ParamsType
<1>7. /\ Params(l) \in Seq(T) /\ Len(Params(l)) = N
      /\ \A n \in 1 .. N : Params(l)[n] = Piece(l, Nth(Starts(l), n))
  BY <1>2, ParamsType
<1> HIDE DEF tok, N
<1>8. tok \in T
  <2>1. Params(s)[1] = tok BY <1>1, <1>4, <1>5, <1>6
  <2>2. 1 \in 1 .. Len(Params(s)) BY <1>5, <1>6
  <2>. QED BY <1>6, <2>1, <2>2, ElementOfSeq
<1>9. \A n \in 1 .. N : Params(s)[n + 1] = Params(l)[n]
  <2> SUFFICES ASSUME NEW n \in 1 .. N PROVE Params(s)[n + 1] = Params(l)[n] OBVIOUS
  <2> DEFINE m == n + 1
  <2>1. m \in 1 .. N + 1 BY <1>5
  <2>2. Nth(Starts(s), m) = e + Nth(Starts(l), n) /\ Nth(Starts(l), n) \in Starts(l) BY <1>1
  <2> HIDE DEF m
  <2>3. Params(s)[m] = Piece(s, Nth(Starts(s), m)) BY <1>6, <2>1
  <2>4. Params(l)[n] = Piece(l, Nth(Starts(l), n)) BY <1>7
  <2>5. Params(s)[m] = Params(l)[n] BY <1>3, <2>2, <2>3, <2>4
  <2>. QED BY <2>5 DEF m
<1> HIDE DEF T
<1>10. <<tok>> \in Seq(T) /\ Len(<<tok>>) = 1 /\ <<tok>>[1] = tok BY <1>8
<1> DEFINE p == Params(s)
           q == Params(l)
           r == <<tok>> \o q
<1>11. /\ r \in Seq(T) /\ Len(r) = 1 + N
       /\ \A i \in 1 .. 1 + N : r[i] = IF i <= 1 THEN <<tok>>[i] ELSE q[i - 1]
  BY <1>7, <1>10, ConcatProperties
<1>12. p[1] = tok BY <1>1, <1>4, <1>5, <1>6
<1> HIDE DEF p, q, r
<1>13. \A i \in 1 .. N + 1 : p[i] = r[i]
  <2> SUFFICES ASSUME NEW i \in 1 .. N + 1 PROVE p[i] = r[i] OBVIOUS
  <2>1. CASE i = 1 BY <1>5, <1>10, <1>11, <1>12, <2>1
  <2>2. CASE i # 1
    <3> DEFINE n == i - 1
    <3>1. n \in 1 .. N /\ n + 1 = i /\ i \in 1 .. 1 + N /\ ~(i <= 1) BY <1>5, <2>2
    <3>2. r[i] = q[n] BY <1>11, <3>1
    <3> HIDE DEF n
    <3>3. p[n + 1] = q[n] BY <1>9, <3>1 DEF p, q
    <3>. QED BY <3>1, <3>2, <3>3
  <2>. QED BY <2>1, <2>2
<1>14. p = r
  <2>1. p \in Seq(T) /\ Len(p) = N + 1 BY <1>6 DEF p
  <2>2. Len(r) = N + 1 BY <1>5, <1>11
  <2>. QED BY <1>11, <1>13, <2>1, <2>2, SeqEqual
<1>15. Len(p) = Len(q) + 1 BY <1>6, <1>7 DEF p, q
<1>. QED BY <1>2, <1>14, <1>15 DEF p, q, r, l, tok

LEMMA NextParam ==
  ASSUME NEW s \in Seq(Char)
  PROVE  LET t == StrTok(s, PARAM_DILM) IN
         \/ t.tok = <<>> /\ Params(s) = <<>>
         \/ /\ t.tok # <<>> /\ t.tok \in Seq(Char) /\ t.left \in Seq(Char)
            /\ Params(s) = <<t.tok>> \o Params(t.left)
            /\ Len(Params(s)) = Len(Params(t.left)) + 1
<1> DEFINE t == StrTok(s, PARAM_DILM)
<1>1. CASE /\ \A j \in 1 .. Len(s) : s[j] = PARAM_DILM
           /\ t.tok = <<>>
  <2>1. Len(s) \in Nat BY LenProperties
  <2>. QED BY <1>1, <2>1, NoParams
<1>2. ASSUME NEW b, NEW e, Cuts(s, PARAM_DILM, b, e),
             t = [tok |-> SubSeq(s, b, e - 1), at |-> e - 1, left |-> SubSeq(s, e + 1, Len(s))],
             t.tok # <<>>
      PROVE  /\ t.tok # <<>> /\ t.tok \in Seq(Char) /\ t.left \in Seq(Char)
             /\ Params(s) = <<t.tok>> \o Params(t.left)
             /\ Len(Params(s)) = Len(Params(t.left)) + 1
  <2> HIDE DEF t
  <2>1. t.tok = SubSeq(s, b, e - 1) /\ t.left = SubSeq(s, e + 1, Len(s)) BY <1>2
  <2>2. Len(s) \in Nat /\ b \in 1 .. Len(s) /\ e \in b + 1 .. Len(s) + 1
    BY <1>2, LenProperties DEF Cuts
  <2>3. b \in Nat \ {0} /\ e - 1 \in 0 .. Len(s) BY <2>2
  <2>4. t.tok \in Seq(Char) BY <2>1, <2>3, CutFacts
  <2> DEFINE l == SubSeq(s, e + 1, Len(s))
             tok == SubSeq(s, b, e - 1)
  <2>5. l \in Seq(Char) /\ Len(Params(s)) = Len(Params(l)) + 1 /\ Params(s) = <<tok>> \o Params(l)
    BY <1>2, ParamsStep
  <2>6. t.tok = tok /\ t.left = l BY <2>1
  <2> HIDE DEF l, tok
  <2>. QED BY <1>2, <2>4, <2>5, <2>6
<1>3. Char \in SUBSET Char OBVIOUS
<1>. QED BY <1>1, <1>2, <1>3, Token

-----------------------------------------------------------------------------
(* The invariant *)

\* Nothing but separators in front of the parameters.
NoName == \A k \in DOMAIN Line : Line[k] = PREFIX_DILM

\* The line names a command, and buf holds its name.
Named == text # <<>> /\ ~NoName /\ Name \in Names /\ buf = Name

Progress ==
  /\ pc \in {"enter", "prefix", "lookup"} => argv = <<>>
  /\ pc = "prefix" => text # <<>> /\ buf = Line
  /\ pc = "lookup" => /\ text # <<>> /\ ~NoName
                      /\ (buf = Name /\ left = Rest) \/ (buf \notin Names /\ Name \notin Names)
  /\ pc = "args" => /\ Named /\ left \in Seq(Char)
                    /\ Params(Rest) = argv \o Params(left)
                    /\ Len(argv) = MAX_PARAM_CNT => Params(left) = <<>>
  /\ pc = "call" => Named /\ argv = Params(Rest)

IInv ==
  /\ text \in Seq(Char)
  /\ argv \in Seq(Seq(Char))
  /\ pc \in {"enter", "prefix", "lookup", "args", "call", "done"}
  /\ Progress
  /\ ParsesTheLine
  /\ ArgvFits

LEMMA TextType == Init => text \in Seq(Char)
<1>1. BoundedSeq(Char, MaxText) \subseteq Seq(Char)
  <2> SUFFICES ASSUME NEW s \in BoundedSeq(Char, MaxText) PROVE s \in Seq(Char) OBVIOUS
  <2>1. \E n \in 0 .. MaxText : s \in [1 .. n -> Char] BY DEF BoundedSeq, SeqOf
  <2>2. PICK n \in Nat : s \in [1 .. n -> Char] BY <2>1, MaxTextAssumption
  <2>. QED BY <2>2
<1>. QED BY <1>1 DEF Init

LEMMA LineType ==
  ASSUME text \in Seq(Char)
  PROVE  /\ Line \in Seq(Char) /\ Name \in Seq(Char) /\ Rest \in Seq(Char)
         /\ IsFirst(Line, 1, {PREFIX_DILM}, Len(Name) + 1)
<1>1. ASSUME NEW s \in Seq(Char), NEW C
      PROVE  /\ SubSeq(s, 1, FirstOf(s, 1, C) - 1) \in Seq(Char)
             /\ IsFirst(s, 1, C, FirstOf(s, 1, C))
             /\ FirstOf(s, 1, C) = Len(SubSeq(s, 1, FirstOf(s, 1, C) - 1)) + 1
  <2> DEFINE f == FirstOf(s, 1, C)
  <2>1. Len(s) \in Nat BY LenProperties
  <2>2. IsFirst(s, 1, C, f) BY <2>1, FirstOfIsFirst
  <2> HIDE DEF f
  <2>3. f \in 1 .. Len(s) + 1 BY <2>2 DEF IsFirst
  <2>4. 1 \in Nat \ {0} /\ f - 1 \in 0 .. Len(s) BY <2>1, <2>3
  <2>5. /\ SubSeq(s, 1, f - 1) \in Seq(Char)
        /\ Len(SubSeq(s, 1, f - 1)) = IF 1 <= f - 1 THEN (f - 1) - 1 + 1 ELSE 0
    BY <2>4, CutFacts
  <2>6. f = Len(SubSeq(s, 1, f - 1)) + 1 BY <2>1, <2>3, <2>5
  <2>. QED BY <2>2, <2>5, <2>6 DEF f
<1>2. Line \in Seq(Char) BY <1>1 DEF Line
<1> DEFINE C == {PREFIX_DILM}
<1> HIDE DEF C
<1>3. /\ Name \in Seq(Char) /\ IsFirst(Line, 1, C, FirstOf(Line, 1, C))
      /\ FirstOf(Line, 1, C) = Len(Name) + 1
  BY <1>1, <1>2 DEF Name, C
<1>4. Len(Line) \in Nat /\ Len(Name) \in Nat BY <1>2, <1>3, LenProperties
<1>5. Rest \in Seq(Char)
  <2>1. Len(Name) + 2 \in Nat \ {0} /\ Len(Line) \in 0 .. Len(Line) BY <1>4
  <2>. QED BY <1>2, <2>1, CutFacts DEF Rest
<1>. QED BY <1>2, <1>3, <1>5 DEF C

\* strtok_r finds the name of the line, with what is behind its separator; or
\* the line starts with a separator, and neither its empty name nor the buffer,
\* which still starts with the separator, is the name of a command.
LEMMA Prefix ==
  ASSUME text \in Seq(Char)
  PROVE  LET t == StrTok(Line, PREFIX_DILM)
             p == SubSeq(Line, 1, t.at)
         IN  \/ t.tok = <<>> /\ NoName
             \/ /\ t.tok # <<>> /\ ~NoName
                /\ (p = Name /\ t.left = Rest) \/ (p \notin Names /\ Name \notin Names)
<1> DEFINE t == StrTok(Line, PREFIX_DILM)
           P == PREFIX_DILM
<1>1. /\ Line \in Seq(Char) /\ Name \in Seq(Char) /\ Rest \in Seq(Char)
      /\ IsFirst(Line, 1, {P}, Len(Name) + 1)
  BY LineType
<1>2. Len(Line) \in Nat /\ DOMAIN Line = 1 .. Len(Line) /\ Len(Name) \in Nat
  BY <1>1, LenProperties
<1>3. CASE (\A j \in 1 .. Len(Line) : Line[j] = P) /\ t.tok = <<>>
  <2>1. NoName BY <1>2, <1>3 DEF NoName
  <2>. QED BY <1>3, <2>1
<1>4. ASSUME NEW b, NEW e, Cuts(Line, P, b, e),
             t = [tok |-> SubSeq(Line, b, e - 1), at |-> e - 1,
                  left |-> SubSeq(Line, e + 1, Len(Line))],
             t.tok # <<>>
      PROVE  LET p == SubSeq(Line, 1, t.at) IN
             /\ ~NoName
             /\ (p = Name /\ t.left = Rest) \/ (p \notin Names /\ Name \notin Names)
  <2> HIDE DEF t, P
  <2> DEFINE p == SubSeq(Line, 1, e - 1)
  <2>1. t.at = e - 1 /\ t.left = SubSeq(Line, e + 1, Len(Line)) BY <1>4
  <2>2. b \in 1 .. Len(Line) /\ e \in b + 1 .. Len(Line) + 1 BY <1>4 DEF Cuts
  <2>3. Line[b] # P BY <1>2, <1>4, <2>2 DEF Cuts
  <2>4. ~NoName BY <1>2, <2>2, <2>3 DEF NoName, P
  <2>5. e \in Nat /\ 1 < e /\ 1 \in Nat \ {0} /\ e - 1 \in 0 .. Len(Line) /\ 1 \in 1 .. e - 1
    BY <1>2, <2>2
  <2>6. CASE b = 1
    <3>1. IsFirst(Line, 1, {P}, e)
      <4>1. e \in 1 .. Len(Line) + 1 BY <1>2, <2>2
      <4>2. e = Len(Line) + 1 \/ Line[e] \in {P} BY <1>4 DEF Cuts
      <4>3. \A j \in 1 .. e - 1 : Line[j] \notin {P} BY <1>4, <2>6 DEF Cuts
      <4>. QED BY <4>1, <4>2, <4>3 DEF IsFirst
    <3>2. FirstOf(Line, 1, {P}) = e
      <4>1. 1 \in 1 .. Len(Line) + 1 BY <1>2
      <4>. QED BY <1>2, <3>1, <4>1, FirstOfIsUnique
    <3>3. p = Name BY <3>2 DEF Name, P
    <3>4. Len(Name) + 1 = e
      <4>1. 1 \in 1 .. Len(Line) + 1 BY <1>2
      <4>. QED BY <1>1, <1>2, <3>2, <4>1, FirstOfIsUnique
    <3>5. Len(Name) + 2 = e + 1 BY <1>2, <3>4
    <3>6. t.left = Rest BY <2>1, <3>5 DEF Rest
    <3>. QED BY <2>1, <2>4, <3>3, <3>6
  <2>7. CASE b # 1
    <3>1. 1 \in 1 .. b - 1 BY <1>2, <2>2, <2>7
    <3>2. Line[1] = P BY <1>4, <3>1 DEF Cuts
    <3>3. Name \notin Names
      <4>1. ~(1 \in 1 .. (Len(Name) + 1) - 1) BY <1>1, <3>2 DEF IsFirst
      <4>2. Len(Name) = 0 BY <1>2, <4>1
      <4>3. Name = <<>> BY <1>1, <4>2, EmptySeq
      <4>. QED BY <4>3, NamesAssumption
    <3>4. /\ Len(p) = IF 1 <= e - 1 THEN (e - 1) - 1 + 1 ELSE 0
          /\ \A i \in 1 .. (e - 1) - 1 + 1 : p[i] = Line[1 + i - 1]
      BY <1>1, <2>5, CutFacts
    <3> HIDE DEF p
    <3>5. 1 \in 1 .. Len(p) BY <2>5, <3>4
    <3>6. p[1] = P
      <4>1. 1 \in 1 .. (e - 1) - 1 + 1 /\ 1 + 1 - 1 = 1 BY <2>5
      <4>. QED BY <3>2, <3>4, <4>1
    <3>7. p \notin Names
      <4>1. SUFFICES ASSUME p \in Names PROVE FALSE OBVIOUS
      <4> DEFINE S == Char \ {PREFIX_DILM, "eol", "nul"}
      <4>2. p \in Seq(S) BY <4>1, NamesAssumption
      <4>3. P \notin S BY DEF P
      <4> HIDE DEF S
      <4>4. p[1] \in S BY <3>5, <4>2, ElementOfSeq
      <4>. QED BY <3>6, <4>3, <4>4
    <3>. QED BY <2>1, <2>4, <3>3, <3>7 DEF p
  <2>. QED BY <2>6, <2>7
<1>5. Char \in SUBSET Char OBVIOUS
<1>. QED BY <1>1, <1>3, <1>4, <1>5, Token

LEMMA InitIInv == Init => IInv
<1>. SUFFICES ASSUME Init PROVE IInv OBVIOUS
<1>1. text \in Seq(Char) BY TextType
<1>2. pc = "enter" /\ argv = <<>> BY DEF Init
<1>3. argv \in Seq(Seq(Char)) /\ Len(argv) = 0 BY <1>2, EmptySeq
<1>4. Progress BY <1>2 DEF Progress
<1>5. ArgvFits BY <1>3, ParamAssumption DEF ArgvFits
<1>. QED BY <1>1, <1>2, <1>3, <1>4, <1>5 DEF IInv, ParsesTheLine

\* What a line means does not depend on how far it is parsed.
LEMMA SameLine ==
  ASSUME text' = text
  PROVE  /\ Line' = Line /\ Name' = Name /\ Rest' = Rest
         /\ NoName' <=> NoName
         /\ Meaning' = Meaning
<1>1. Line' = Line BY DEF Line
<1>2. Name' = Name BY <1>1 DEF Name
<1>3. Rest' = Rest BY <1>1, <1>2 DEF Rest
<1>4. NoName' <=> NoName BY <1>1 DEF NoName
<1>. QED BY <1>1, <1>2, <1>3, <1>4 DEF Meaning

\* The meaning of a line that names a command.
LEMMA MeaningNamed ==
  ASSUME Named
  PROVE  Meaning = IF Len(Params(Rest)) > MAX_PARAM_CNT THEN "RET_ERROR" ELSE "called"
BY DEF Named, NoName, Meaning

LEMMA EnterStep == IInv /\ Enter => IInv'
<1>. SUFFICES ASSUME IInv, Enter PROVE IInv' OBVIOUS
<1>1. text' = text /\ argv' = argv /\ argv = <<>> BY DEF IInv, Progress, Enter
<1>2. Line' = Line /\ Meaning' = Meaning BY <1>1, SameLine
<1>3. text' \in Seq(Char) /\ argv' \in Seq(Seq(Char)) BY <1>1 DEF IInv
<1>4. ArgvFits' BY <1>1 DEF IInv, ArgvFits
<1>5. CASE text = <<>>
  <2>1. pc' = "done" /\ ret' = "RET_INVALID_PARAM" BY <1>5 DEF Enter, Return
  <2>2. Progress' BY <2>1 DEF Progress
  <2>3. ParsesTheLine' BY <1>2, <1>5, <2>1 DEF ParsesTheLine, Meaning
  <2>. QED BY <1>3, <1>4, <2>1, <2>2, <2>3 DEF IInv
<1>6. CASE text # <<>>
  <2>1. pc' = "prefix" /\ buf' = Line BY <1>6 DEF Enter, Line
  <2>2. Progress' BY <1>1, <1>2, <1>6, <2>1 DEF Progress
  <2>3. ParsesTheLine' BY <2>1 DEF ParsesTheLine
  <2>. QED BY <1>3, <1>4, <2>1, <2>2, <2>3 DEF IInv
<1>. QED BY <1>5, <1>6

LEMMA TakePrefixStep == IInv /\ TakePrefix => IInv'
<1>. SUFFICES ASSUME IInv, TakePrefix PROVE IInv' OBVIOUS
<1> DEFINE t == StrTok(Line, PREFIX_DILM)
<1>1. /\ text \in Seq(Char) /\ text # <<>> /\ buf = Line
      /\ text' = text /\ argv' = argv /\ argv = <<>>
  BY DEF IInv, Progress, TakePrefix
<1>2. /\ Line' = Line /\ Name' = Name /\ Rest' = Rest /\ (NoName' <=> NoName)
      /\ Meaning' = Meaning
  BY <1>1, SameLine
<1>3. text' \in Seq(Char) /\ argv' \in Seq(Seq(Char)) BY <1>1 DEF IInv
<1>4. ArgvFits' BY <1>1 DEF IInv, ArgvFits
<1>5. \/ t.tok = <<>> /\ NoName
      \/ /\ t.tok # <<>> /\ ~NoName
         /\ \/ SubSeq(Line, 1, t.at) = Name /\ t.left = Rest
            \/ SubSeq(Line, 1, t.at) \notin Names /\ Name \notin Names
  BY <1>1, Prefix
<1>6. \/ t.tok = <<>> /\ Return("RET_ERROR") /\ UNCHANGED <<buf, left>>
      \/ /\ t.tok # <<>> /\ buf' = SubSeq(Line, 1, t.at) /\ left' = t.left /\ pc' = "lookup"
  BY <1>1 DEF TakePrefix
<1> HIDE DEF t
<1>7. CASE t.tok = <<>>
  <2>1. pc' = "done" /\ ret' = "RET_ERROR" /\ NoName BY <1>5, <1>6, <1>7 DEF Return
  <2>2. Progress' BY <2>1 DEF Progress
  <2>3. Meaning = "RET_ERROR" BY <1>1, <2>1 DEF Meaning, NoName
  <2>4. ParsesTheLine' BY <1>2, <2>1, <2>3 DEF ParsesTheLine
  <2>. QED BY <1>3, <1>4, <2>1, <2>2, <2>4 DEF IInv
<1>8. CASE t.tok # <<>>
  <2>1. pc' = "lookup" /\ ~NoName BY <1>5, <1>6, <1>8
  <2>2. (buf' = Name /\ left' = Rest) \/ (buf' \notin Names /\ Name \notin Names)
    BY <1>5, <1>6, <1>8
  <2>3. Progress' BY <1>1, <1>2, <2>1, <2>2 DEF Progress
  <2>4. ParsesTheLine' BY <2>1 DEF ParsesTheLine
  <2>. QED BY <1>3, <1>4, <2>1, <2>3, <2>4 DEF IInv
<1>. QED BY <1>7, <1>8

LEMMA LookUpStep == IInv /\ LookUp => IInv'
<1>. SUFFICES ASSUME IInv, LookUp PROVE IInv' OBVIOUS
<1>1. /\ text \in Seq(Char) /\ text # <<>> /\ ~NoName /\ argv = <<>>
      /\ (buf = Name /\ left = Rest) \/ (buf \notin Names /\ Name \notin Names)
      /\ text' = text /\ argv' = argv /\ buf' = buf /\ left' = left
  BY DEF IInv, Progress, LookUp
<1>2. /\ Line' = Line /\ Name' = Name /\ Rest' = Rest /\ (NoName' <=> NoName)
      /\ Meaning' = Meaning
  BY <1>1, SameLine
<1>3. text' \in Seq(Char) /\ argv' \in Seq(Seq(Char)) BY <1>1 DEF IInv
<1>4. ArgvFits' BY <1>1 DEF IInv, ArgvFits
<1>5. CASE buf \in Names
  <2>1. pc' = "args" BY <1>5 DEF LookUp, Return
  <2>2. buf = Name /\ left = Rest /\ Rest \in Seq(Char) BY <1>1, <1>5, LineType
  <2>3. Named' BY <1>1, <1>2, <1>5, <2>2 DEF Named
  <2>4. Params(Rest) = <<>> \o Params(Rest)
    <3>1. Params(Rest) \in Seq(Seq(Char)) BY <2>2, ParamsType
    <3>. QED BY <3>1, ConcatEmptySeq
  <2>5. Len(argv) = 0 /\ 0 # MAX_PARAM_CNT BY <1>1, ParamAssumption
  <2>6. Progress' BY <1>1, <1>2, <2>1, <2>2, <2>3, <2>4, <2>5 DEF Progress
  <2>7. ParsesTheLine' BY <2>1 DEF ParsesTheLine
  <2>. QED BY <1>3, <1>4, <2>1, <2>6, <2>7 DEF IInv
<1>6. CASE buf \notin Names
  <2>1. pc' = "done" /\ ret' = "RET_NOT_EXISTS" BY <1>6 DEF LookUp, Return
  <2>2. Name \notin Names BY <1>1, <1>6
  <2>3. Meaning = "RET_NOT_EXISTS" BY <1>1, <2>2 DEF Meaning, NoName
  <2>4. Progress' BY <2>1 DEF Progress
  <2>5. ParsesTheLine' BY <1>2, <2>1, <2>3 DEF ParsesTheLine
  <2>. QED BY <1>3, <1>4, <2>1, <2>4, <2>5 DEF IInv
<1>. QED BY <1>5, <1>6

LEMMA CallBackStep == IInv /\ CallBack => IInv'
<1>. SUFFICES ASSUME IInv, CallBack PROVE IInv' OBVIOUS
<1>1. /\ Named /\ argv = Params(Rest)
      /\ text' = text /\ argv' = argv /\ buf' = buf /\ pc' = "done" /\ ret' = "called"
  BY DEF IInv, Progress, CallBack, Return
<1>2. Name' = Name /\ Rest' = Rest /\ Meaning' = Meaning BY <1>1, SameLine
<1>3. text' \in Seq(Char) /\ argv' \in Seq(Seq(Char)) BY <1>1 DEF IInv
<1>4. ArgvFits' BY <1>1 DEF IInv, ArgvFits
<1>5. Meaning = "called"
  <2>1. Len(argv) \in Nat /\ Len(argv) <= MAX_PARAM_CNT BY LenProperties DEF IInv, ArgvFits
  <2>2. ~(Len(Params(Rest)) > MAX_PARAM_CNT) BY <1>1, <2>1, ParamAssumption
  <2>. QED BY <1>1, <2>2, MeaningNamed
<1>6. Params(Rest)' = Params(Rest) BY <1>2
<1>7. buf = Name BY <1>1 DEF Named
<1>8. ParsesTheLine' BY <1>1, <1>2, <1>5, <1>6, <1>7 DEF ParsesTheLine
<1>9. Progress' BY <1>1 DEF Progress
<1>. QED BY <1>1, <1>3, <1>4, <1>8, <1>9 DEF IInv

LEMMA TakeParamStep == IInv /\ TakeParam => IInv'
<1>. SUFFICES ASSUME IInv, TakeParam PROVE IInv' OBVIOUS
<1> DEFINE t == StrTok(left, PARAM_DILM)
           u == StrTok(t.left, PARAM_DILM)
           T == Seq(Char)
<1>1. /\ Named /\ left \in T /\ Params(Rest) = argv \o Params(left)
      /\ Len(argv) = MAX_PARAM_CNT => Params(left) = <<>>
      /\ text' = text /\ buf' = buf
  BY DEF IInv, Progress, TakeParam
<1>2. argv \in Seq(T) /\ Len(argv) \in Nat /\ Len(argv) <= MAX_PARAM_CNT
  BY LenProperties DEF IInv, ArgvFits
<1>3. /\ Line' = Line /\ Name' = Name /\ Rest' = Rest /\ (NoName' <=> NoName)
      /\ Meaning' = Meaning
  BY <1>1, SameLine
<1>4. Named' /\ text' \in T /\ Params(Rest)' = Params(Rest) BY <1>1, <1>3 DEF Named, IInv
<1>5. \/ t.tok = <<>> /\ Params(left) = <<>>
      \/ /\ t.tok # <<>> /\ t.tok \in T /\ t.left \in T
         /\ Params(left) = <<t.tok>> \o Params(t.left)
         /\ Len(Params(left)) = Len(Params(t.left)) + 1
  BY <1>1, NextParam
<1>6. t.left \in T =>
        \/ u.tok = <<>> /\ Params(t.left) = <<>>
        \/ u.tok # <<>> /\ \E l \in T : Len(Params(t.left)) = Len(Params(l)) + 1
  BY NextParam
<1>7. \/ Len(argv) < MAX_PARAM_CNT /\ t.tok = <<>> /\ pc' = "call" /\ argv' = argv
      \/ /\ Len(argv) < MAX_PARAM_CNT /\ t.tok # <<>> /\ argv' = Append(argv, t.tok)
         /\ IF Len(argv') >= MAX_PARAM_CNT /\ u.tok # <<>>
            THEN pc' = "done" /\ ret' = "RET_ERROR"
            ELSE left' = t.left /\ pc' = pc
      \/ Len(argv) >= MAX_PARAM_CNT /\ pc' = "call" /\ argv' = argv
  BY DEF TakeParam, Return
<1>8. \A l \in T : Params(l) \in Seq(T) /\ Len(Params(l)) \in Nat
  BY ParamsType, LenProperties
<1> HIDE DEF t, u, T
\* No parameter is left: the parameters found are those of the line.
<1>9. ASSUME Params(left) = <<>>, pc' = "call", argv' = argv PROVE IInv'
  <2>1. Params(Rest) = argv BY <1>1, <1>2, <1>9, ConcatEmptySeq
  <2>2. Progress' BY <1>4, <1>9, <2>1 DEF Progress
  <2>3. ParsesTheLine' BY <1>9 DEF ParsesTheLine
  <2>4. ArgvFits' BY <1>9 DEF IInv, ArgvFits
  <2>. QED BY <1>2, <1>4, <1>9, <2>2, <2>3, <2>4 DEF IInv, T
<1>10. CASE Len(argv) < MAX_PARAM_CNT /\ t.tok = <<>> BY <1>5, <1>7, <1>9, <1>10
<1>11. CASE Len(argv) >= MAX_PARAM_CNT
  <2>1. Len(argv) = MAX_PARAM_CNT BY <1>2, <1>11, ParamAssumption
  <2>2. ~(Len(argv) < MAX_PARAM_CNT) BY <1>2, <1>11, ParamAssumption
  <2>. QED BY <1>1, <1>7, <1>9, <2>1, <2>2
<1>12. CASE Len(argv) < MAX_PARAM_CNT /\ t.tok # <<>>
  <2>1. ~(Len(argv) >= MAX_PARAM_CNT) BY <1>2, <1>12, ParamAssumption
  <2>2. /\ t.tok \in T /\ t.left \in T
        /\ Params(left) = <<t.tok>> \o Params(t.left)
        /\ argv' = Append(argv, t.tok)
    BY <1>5, <1>7, <1>12, <2>1
  <2> DEFINE q == Params(t.left)
             p == <<t.tok>>
  <2>3. q \in Seq(T) /\ Len(q) \in Nat BY <1>8, <2>2
  <2>4. p \in Seq(T) BY <2>2
  <2>5. argv' = argv \o p BY <1>2, <2>2
  <2>6. argv' \in Seq(T) /\ Len(argv') = Len(argv) + 1 BY <1>2, <2>2
  <2>7. Params(Rest) = argv' \o q
    <3>1. Params(Rest) = argv \o (p \o q) BY <1>1, <2>2
    <3> HIDE DEF p, q
    <3>2. (argv \o p) \o q = argv \o (p \o q) BY <1>2, <2>3, <2>4, ConcatAssociative
    <3>. QED BY <2>5, <3>1, <3>2
  <2>8. ArgvFits' BY <1>2, <1>12, <2>6, ParamAssumption DEF ArgvFits
  <2>9. CASE Len(argv') >= MAX_PARAM_CNT /\ u.tok # <<>>
    <3>1. pc' = "done" /\ ret' = "RET_ERROR" BY <1>7, <1>12, <2>1, <2>9
    <3>2. Progress' BY <3>1 DEF Progress
    <3>3. Len(q) > 0
      <4>1. PICK l \in T : Len(q) = Len(Params(l)) + 1 BY <1>6, <2>2, <2>9
      <4>2. Len(Params(l)) \in Nat BY <1>8
      <4> HIDE DEF q
      <4>. QED BY <4>1, <4>2
    <3>4. Len(Params(Rest)) = Len(argv') + Len(q)
      <4> HIDE DEF q
      <4>. QED BY <2>3, <2>6, <2>7, ConcatProperties
    <3> HIDE DEF q
    <3>5. Len(Params(Rest)) > MAX_PARAM_CNT BY <1>2, <2>3, <2>6, <2>9, <3>3, <3>4, ParamAssumption
    <3>6. Meaning = "RET_ERROR" BY <1>1, <3>5, MeaningNamed
    <3>7. ParsesTheLine' BY <1>3, <3>1, <3>6 DEF ParsesTheLine
    <3>. QED BY <1>4, <2>6, <2>8, <3>1, <3>2, <3>7 DEF IInv, T
  <2>10. CASE ~(Len(argv') >= MAX_PARAM_CNT /\ u.tok # <<>>)
    <3>1. left' = t.left /\ pc' = pc /\ pc = "args"
      BY <1>7, <1>12, <2>1, <2>10 DEF TakeParam
    <3>2. Params(left)' = q /\ left' \in T BY <2>2, <3>1
    <3>3. Len(argv') = MAX_PARAM_CNT => q = <<>>
      BY <1>6, <2>2, <2>10, ParamAssumption
    <3> HIDE DEF q
    <3>4. Progress' BY <1>4, <2>7, <3>1, <3>2, <3>3 DEF Progress, T
    <3>5. ParsesTheLine' BY <3>1 DEF ParsesTheLine
    <3>. QED BY <1>4, <2>6, <2>8, <3>1, <3>4, <3>5 DEF IInv, T
  <2>. QED BY <2>9, <2>10
<1>. QED BY <1>2, <1>10, <1>11, <1>12, ParamAssumption

LEMMA StepIInv == IInv /\ [Next]_vars => IInv'
<1>. SUFFICES ASSUME IInv, [Next]_vars PROVE IInv' OBVIOUS
<1>1. CASE UNCHANGED vars
  <2>1. /\ text' = text /\ pc' = pc /\ buf' = buf /\ left' = left /\ argv' = argv /\ ret' = ret
    BY <1>1 DEF vars
  <2>2. /\ Line' = Line /\ Name' = Name /\ Rest' = Rest /\ (NoName' <=> NoName)
        /\ Meaning' = Meaning
    BY <2>1, SameLine
  <2>3. Params(Rest)' = Params(Rest) /\ Params(left)' = Params(left) BY <2>1, <2>2
  <2>4. Progress' BY <2>1, <2>2, <2>3 DEF IInv, Progress, Named
  <2>5. ParsesTheLine' BY <2>1, <2>2, <2>3 DEF IInv, ParsesTheLine
  <2>6. ArgvFits' BY <2>1 DEF IInv, ArgvFits
  <2>. QED BY <2>1, <2>4, <2>5, <2>6 DEF IInv
<1>2. CASE Done BY <1>1, <1>2 DEF Done
<1>. QED BY <1>1, <1>2, EnterStep, TakePrefixStep, LookUpStep, TakeParamStep, CallBackStep
         DEF Next

LEMMA Invariance == Spec => []IInv
BY InitIInv, StepIInv, PTL DEF Spec

-----------------------------------------------------------------------------
(* The theorems *)

\* For every set of commands, every text and every size of argv: the callback
\* of a command runs exactly for the lines that name it with no more parameters
\* than argv holds, and gets those parameters; every other line gets the error
\* of its kind (AtCmdExec).
THEOREM EveryLineIsParsed == Spec => []ParsesTheLine
<1>1. IInv => ParsesTheLine BY DEF IInv
<1>. QED BY Invariance, <1>1, PTL

\* Whatever the text, no parameter is written behind argv (AtCmdExec).
THEOREM NothingBehindArgv == Spec => []ArgvFits
<1>1. IInv => ArgvFits BY DEF IInv
<1>. QED BY Invariance, <1>1, PTL

-----------------------------------------------------------------------------
(* Type correctness *)

\* What can be in a line.
LineChar == Char \ {"eol", "nul"}

TypeInv ==
  /\ TypeOK
  /\ text \in Seq(Char)
  /\ buf \in Seq(LineChar)
  /\ left \in Seq(LineChar)

LEMMA TokenType ==
  ASSUME NEW S \in SUBSET Char, NEW s \in Seq(S), NEW d, StrTok(s, d).tok # <<>>
  PROVE  LET t == StrTok(s, d) IN
         /\ t.tok \in Seq(S \ {d})
         /\ t.left \in Seq(S)
         /\ SubSeq(s, 1, t.at) \in Seq(S)
<1>1. PICK b, e : /\ Cuts(s, d, b, e)
                  /\ StrTok(s, d) = [tok |-> SubSeq(s, b, e - 1), at |-> e - 1,
                                     left |-> SubSeq(s, e + 1, Len(s))]
  BY Token
<1>2. Len(s) \in Nat BY LenProperties
<1>3. b \in 1 .. Len(s) /\ e \in b + 1 .. Len(s) + 1 /\ \A j \in b .. e - 1 : s[j] # d
  BY <1>1 DEF Cuts
<1>4. SubSeq(s, b, e - 1) \in Seq(S \ {d})
  <2>1. \A j \in b .. e - 1 : j \in 1 .. Len(s) BY <1>2, <1>3
  <2>2. \A j \in b .. e - 1 : s[j] \in S \ {d} BY <1>3, <2>1, ElementOfSeq
  <2>3. b \in Int /\ e - 1 \in Int BY <1>2, <1>3
  <2>. QED BY <2>2, <2>3, SubSeqProperties
<1>5. e + 1 \in Nat \ {0} /\ 1 \in Nat \ {0} /\ e - 1 \in 0 .. Len(s) /\ Len(s) \in 0 .. Len(s)
  BY <1>2, <1>3
<1>6. SubSeq(s, e + 1, Len(s)) \in Seq(S) /\ SubSeq(s, 1, e - 1) \in Seq(S) BY <1>5, CutFacts
<1>. QED BY <1>1, <1>4, <1>6

LEMMA TypeInit == Init => TypeInv
<1>. SUFFICES ASSUME Init PROVE TypeInv OBVIOUS
<1>1. text \in Seq(Char) BY TextType
<1>2. pc = "enter" /\ ret = "none" /\ buf = <<>> /\ left = <<>> /\ argv = <<>> BY DEF Init
<1>3. \A S : <<>> \in Seq(S) BY EmptySeq
<1>. QED BY <1>1, <1>2, <1>3 DEF TypeInv, TypeOK

LEMMA TypeStep == TypeInv /\ [Next]_vars => TypeInv'
<1>. SUFFICES ASSUME TypeInv, [Next]_vars PROVE TypeInv' OBVIOUS
<1> DEFINE Param == Seq(Char \ {PARAM_DILM, "eol", "nul"}) \ {<<>>}
           PC == {"enter", "prefix", "lookup", "args", "call", "done"}
           Ret == {"none", "RET_INVALID_PARAM", "RET_ERROR", "RET_NOT_EXISTS", "called"}
<1>1. /\ text \in Seq(Char) /\ buf \in Seq(LineChar) /\ left \in Seq(LineChar)
      /\ argv \in Seq(Param) /\ pc \in PC /\ ret \in Ret
  BY DEF TypeInv, TypeOK
<1>2. SUFFICES /\ text' \in Seq(Char) /\ buf' \in Seq(LineChar) /\ left' \in Seq(LineChar)
               /\ argv' \in Seq(Param) /\ pc' \in PC /\ ret' \in Ret
  <2>1. LineChar \subseteq Char BY DEF LineChar
  <2>2. \A s \in Seq(LineChar) : s \in Seq(Char) BY <2>1, SeqMonotonic
  <2>. QED BY <1>2, <2>2 DEF TypeInv, TypeOK
<1>3. LineChar \in SUBSET Char BY DEF LineChar
<1>4. CASE Enter
  <2>1. /\ text' = text /\ left' = left /\ argv' = argv
        /\ pc' \in {"done", "prefix"} /\ (ret' = ret \/ ret' = "RET_INVALID_PARAM")
    BY <1>4 DEF Enter, Return
  <2>2. buf' = buf \/ buf' = SubSeq(text, 1, FirstOf(text, 1, {"eol", "nul"}) - 1)
    BY <1>4 DEF Enter
  <2> DEFINE C == {"eol", "nul"}
             f == FirstOf(text, 1, C)
  <2>3. SubSeq(text, 1, f - 1) \in Seq(LineChar)
    <3>1. Len(text) \in Nat BY <1>1, LenProperties
    <3>2. IsFirst(text, 1, C, f) BY <3>1, FirstOfIsFirst
    <3> HIDE DEF f
    <3>3. f \in 1 .. Len(text) + 1 BY <3>2 DEF IsFirst
    <3>4. \A j \in 1 .. f - 1 : j \in 1 .. Len(text) BY <3>1, <3>3
    <3>5. \A j \in 1 .. f - 1 : text[j] \in Char BY <1>1, <3>4, ElementOfSeq
    <3>6. \A j \in 1 .. f - 1 : text[j] \in LineChar BY <3>2, <3>5 DEF IsFirst, LineChar
    <3>7. 1 \in Int /\ f - 1 \in Int BY <3>1, <3>3
    <3>. QED BY <3>6, <3>7, SubSeqProperties
  <2>. QED BY <1>1, <2>1, <2>2, <2>3
<1>5. CASE TakePrefix
  <2> DEFINE t == StrTok(buf, PREFIX_DILM)
  <2>1. /\ text' = text /\ argv' = argv
        /\ pc' \in {"done", "lookup"} /\ (ret' = ret \/ ret' = "RET_ERROR")
        /\ \/ buf' = buf /\ left' = left
           \/ t.tok # <<>> /\ buf' = SubSeq(buf, 1, t.at) /\ left' = t.left
    BY <1>5 DEF TakePrefix, Return
  <2>2. t.tok # <<>> => SubSeq(buf, 1, t.at) \in Seq(LineChar) /\ t.left \in Seq(LineChar)
    BY <1>1, <1>3, TokenType
  <2> HIDE DEF t
  <2>. QED BY <1>1, <2>1, <2>2
<1>6. CASE LookUp
  <2>1. /\ text' = text /\ buf' = buf /\ left' = left /\ argv' = argv
        /\ pc' \in {"done", "args"} /\ (ret' = ret \/ ret' = "RET_NOT_EXISTS")
    BY <1>6 DEF LookUp, Return
  <2>. QED BY <1>1, <2>1
<1>7. CASE TakeParam
  <2> DEFINE t == StrTok(left, PARAM_DILM)
             P == PARAM_DILM
  <2>1. /\ text' = text /\ buf' = buf
        /\ pc' \in {"args", "done", "call"} /\ (ret' = ret \/ ret' = "RET_ERROR")
        /\ \/ left' = left /\ argv' = argv
           \/ t.tok # <<>> /\ (left' = left \/ left' = t.left) /\ argv' = Append(argv, t.tok)
    BY <1>7 DEF TakeParam, Return
  <2>2. t.tok # <<>> => t.tok \in Seq(LineChar \ {P}) /\ t.left \in Seq(LineChar)
    BY <1>1, <1>3, TokenType
  <2>3. LineChar \ {P} = Char \ {P, "eol", "nul"} BY DEF LineChar
  <2> HIDE DEF t, P
  <2>4. t.tok # <<>> => t.tok \in Param BY <2>2, <2>3 DEF P
  <2> HIDE DEF Param
  <2>5. pc' \in PC /\ ret' \in Ret BY <1>1, <2>1
  <2>6. left' \in Seq(LineChar) BY <1>1, <2>1, <2>2
  <2>7. argv' \in Seq(Param)
    <3>1. \A S : \A q \in Seq(S) : \A p \in S : Append(q, p) \in Seq(S) OBVIOUS
    <3>2. argv' = argv \/ (argv' = Append(argv, t.tok) /\ t.tok \in Param) BY <2>1, <2>4
    <3>. QED BY <1>1, <3>1, <3>2, Zenon
  <2>. QED BY <1>1, <2>1, <2>5, <2>6, <2>7
<1>8. CASE CallBack
  <2>1. /\ text' = text /\ buf' = buf /\ left' = left /\ argv' = argv
        /\ pc' = "done" /\ ret' = "called"
    BY <1>8 DEF CallBack, Return
  <2>. QED BY <1>1, <2>1
<1>9. CASE Done \/ UNCHANGED vars
  <2>1. /\ text' = text /\ pc' = pc /\ buf' = buf /\ left' = left /\ argv' = argv /\ ret' = ret
    BY <1>9 DEF Done, vars
  <2>. QED BY <1>1, <2>1
<1>. QED BY <1>4, <1>5, <1>6, <1>7, <1>8, <1>9 DEF Next

\* What strtok_r cuts off is never empty and holds no separator of parameters
\* and no end of the line, whatever the text (AtCmdExec).
THEOREM ParamsAreClean == Spec => []TypeOK
<1>1. TypeInv => TypeOK BY DEF TypeInv
<1>. QED BY TypeInit, TypeStep, <1>1, PTL DEF Spec
=============================================================================
