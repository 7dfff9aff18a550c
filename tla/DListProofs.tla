----------------------------- MODULE DListProofs -----------------------------
(***************************************************************************)
(* The pointers of DList represent the lists, and the loops of DListLoops  *)
(* visit every entry once and in order, for any number of lists and        *)
(* entries, any sequence of legal calls and any legal body.                *)
(*                                                                         *)
(* Every function is one or two changes of a ring: an entry goes in, an    *)
(* entry goes out, a ring goes into another ring.  The first lemmas say    *)
(* what the pointer functions write, the next ones what that does to one   *)
(* ring, the last ones what it does to all lists.                          *)
(*                                                                         *)
(* A loop that has visited k entries stands on entry k + 1 of the list as  *)
(* it was when the loop began.  The body of a safe loop may have taken     *)
(* entries out, but only ones the loop has reached: what lies behind them  *)
(* has only moved to the front, by as many places as entries are missing.  *)
(***************************************************************************)
EXTENDS DListLoops, SequenceLemmas

(* What the pointer functions write *)

\* r is hp with x between p and n.
Between(hp, r, x, p, n) ==
  /\ r \in Heap
  /\ \A q \in Ptr : r.next[q] = IF q = p THEN x ELSE IF q = x THEN n ELSE hp.next[q]
  /\ \A q \in Ptr : r.prev[q] = IF q = x THEN p ELSE IF q = n THEN x ELSE hp.prev[q]

LEMMA AddedFields ==
  ASSUME NEW hp \in Heap, NEW x \in Ptr, NEW p \in Ptr, NEW n \in Ptr
  PROVE  Between(hp, AddedBetween(hp, x, p, n), x, p, n)
BY DEF Between, AddedBetween, Heap

LEMMA BridgedFields ==
  ASSUME NEW hp \in Heap, NEW p \in Ptr, NEW n \in Ptr
  PROVE  LET r == Bridged(hp, p, n) IN
           /\ r \in Heap
           /\ \A q \in Ptr : r.next[q] = IF q = p THEN n ELSE hp.next[q]
           /\ \A q \in Ptr : r.prev[q] = IF q = n THEN p ELSE hp.prev[q]
BY DEF Bridged, Heap

LEMMA OneCellFields ==
  ASSUME NEW hp \in Heap, NEW x \in Ptr,
         NEW r \in {Initialised(hp, x), Cleared(hp, x)}
  PROVE  /\ r \in Heap
         /\ \A q \in Ptr : q # x => r.next[q] = hp.next[q] /\ r.prev[q] = hp.prev[q]
BY DEF Initialised, Cleared, Heap

LEMMA InitialisedFields ==
  ASSUME NEW hp \in Heap, NEW x \in Ptr
  PROVE  Initialised(hp, x).next[x] = x /\ Initialised(hp, x).prev[x] = x
BY DEF Initialised, Heap

LEMMA ClearedFields ==
  ASSUME NEW hp \in Heap, NEW x \in Ptr
  PROVE  Cleared(hp, x).next[x] = NULL /\ Cleared(hp, x).prev[x] = NULL
BY DEF Cleared, Heap

LEMMA SplicedFields ==
  ASSUME NEW hp \in Heap, NEW l \in Ptr, NEW h \in Ptr,
         hp.next[l] \in Ptr, hp.prev[l] \in Ptr, hp.next[h] \in Ptr
  PROVE  LET r == Spliced(hp, l, h) IN
           /\ r \in Heap
           /\ \A q \in Ptr : r.next[q] = IF q = hp.prev[l] THEN hp.next[h]
                                         ELSE IF q = h THEN hp.next[l] ELSE hp.next[q]
           /\ \A q \in Ptr : r.prev[q] = IF q = hp.next[h] THEN hp.prev[l]
                                         ELSE IF q = hp.next[l] THEN h ELSE hp.prev[q]
BY DEF Spliced, Heap

-----------------------------------------------------------------------------
(* One ring *)

Injective(s) == \A i, j \in DOMAIN s : s[i] = s[j] => i = j

LEMMA RingFacts ==
  ASSUME NEW h \in Heads, NEW s \in Seq(Nodes)
  PROVE  /\ Len(s) \in Nat
         /\ DOMAIN s = 1 .. Len(s)
         /\ \A i \in 1 .. Len(s) : s[i] \in Nodes
         /\ \A i \in Int : Ring(h, s, i) \in Ptr
         /\ \A i \in 1 .. Len(s) : Ring(h, s, i) = s[i]
         /\ Ring(h, s, 0) = h /\ Ring(h, s, Len(s) + 1) = h
<1>1. Len(s) \in Nat /\ DOMAIN s = 1 .. Len(s) /\ \A i \in 1 .. Len(s) : s[i] \in Nodes
  BY LenProperties, ElementOfSeq
<1> QED BY <1>1 DEF Ring, Ptr

\* x has the same pointers in hp and r.
Same(hp, r, x) == r.next[x] = hp.next[x] /\ r.prev[x] = hp.prev[x]

\* A ring stays while none of its structures is written.
LEMMA RingKept ==
  ASSUME NEW hp, NEW r, NEW h \in Heads, NEW s \in Seq(Nodes), Rings(hp, h, s),
         \A i \in Int : Same(hp, r, Ring(h, s, i))
  PROVE  Rings(r, h, s)
<1>1. Len(s) \in Nat
  BY LenProperties
<1>2. \A i \in 0 .. Len(s) : i \in Int /\ i + 1 \in Int
  BY <1>1
<1> QED BY <1>2 DEF Rings, Same

\* t is s with x behind position k.
InsertedAt(s, k, x, t) ==
  /\ t \in Seq(Nodes) /\ Len(t) = Len(s) + 1
  /\ \A i \in 1 .. Len(t) :
       t[i] = IF i <= k THEN s[i] ELSE IF i = k + 1 THEN x ELSE s[i - 1]

\* An entry goes in behind position k.
LEMMA RingGrows ==
  ASSUME NEW hp \in Heap, NEW h \in Heads, NEW s \in Seq(Nodes), Rings(hp, h, s), Injective(s),
         NEW x \in Nodes, \A i \in DOMAIN s : s[i] # x,
         NEW k \in 0 .. Len(s), NEW t, InsertedAt(s, k, x, t)
  PROVE  Rings(AddedBetween(hp, x, Ring(h, s, k), Ring(h, s, k + 1)), h, t)
<1> DEFINE p == Ring(h, s, k)
           n == Ring(h, s, k + 1)
           r == AddedBetween(hp, x, p, n)
<1>1. /\ Len(s) \in Nat
      /\ DOMAIN s = 1 .. Len(s)
      /\ \A i \in 1 .. Len(s) : s[i] \in Nodes
      /\ \A i \in Int : Ring(h, s, i) \in Ptr
  BY RingFacts
<1>2. h \notin Nodes /\ x \in Ptr /\ h # x
  BY PointerAssumption DEF Ptr
<1> USE DEF InsertedAt
<1>3. /\ \A q \in Ptr : r.next[q] = IF q = p THEN x ELSE IF q = x THEN n ELSE hp.next[q]
      /\ \A q \in Ptr : r.prev[q] = IF q = x THEN p ELSE IF q = n THEN x ELSE hp.prev[q]
  <2>1. k \in Int /\ k + 1 \in Int
    BY <1>1
  <2>2. p \in Ptr /\ n \in Ptr
    BY <1>1, <2>1
  <2> HIDE DEF p, n
  <2>3. x \in Ptr
    BY <1>2
  <2>4. Between(hp, r, x, p, n)
    BY <2>2, <2>3, AddedFields
  <2> HIDE DEF r
  <2> QED BY <2>4 DEF Between
<1>4. \A i \in 0 .. Len(s) + 2 :
        Ring(h, t, i) = IF i <= k THEN Ring(h, s, i)
                        ELSE IF i = k + 1 THEN x ELSE Ring(h, s, i - 1)
  BY <1>1 DEF Ring
<1>5. \A i \in 0 .. Len(s) : Ring(h, s, i) = p => i = k
  BY <1>1, <1>2 DEF Ring, Injective
<1>6. \A i \in 1 .. Len(s) + 1 : Ring(h, s, i) = n => i = k + 1
  BY <1>1, <1>2 DEF Ring, Injective
<1>7. \A i \in 0 .. Len(s) + 1 : Ring(h, s, i) # x
  BY <1>1, <1>2 DEF Ring
<1>8. \A i \in 0 .. Len(s) : hp.next[Ring(h, s, i)] = Ring(h, s, i + 1)
                          /\ hp.prev[Ring(h, s, i + 1)] = Ring(h, s, i)
  BY DEF Rings
<1> HIDE DEF p, n, r
<1> SUFFICES ASSUME NEW i \in 0 .. Len(t)
             PROVE  /\ r.next[Ring(h, t, i)] = Ring(h, t, i + 1)
                    /\ r.prev[Ring(h, t, i + 1)] = Ring(h, t, i)
  BY DEF Rings, r, p, n
<1>9. CASE i < k
  <2>1. Ring(h, t, i) = Ring(h, s, i) /\ Ring(h, t, i + 1) = Ring(h, s, i + 1)
    BY <1>1, <1>4, <1>9
  <2>2. Ring(h, s, i) \notin {p, x} /\ Ring(h, s, i + 1) \notin {n, x}
    BY <1>1, <1>5, <1>6, <1>7, <1>9
  <2> QED BY <2>1, <2>2, <1>1, <1>3, <1>8, <1>9
<1>10. CASE i = k
  <2>1. Ring(h, t, i) = p /\ Ring(h, t, i + 1) = x
    BY <1>1, <1>4, <1>10 DEF p
  <2> QED BY <2>1, <1>1, <1>2, <1>3 DEF p
<1>11. CASE i = k + 1
  <2>1. Ring(h, t, i) = x /\ Ring(h, t, i + 1) = n
    BY <1>1, <1>4, <1>11 DEF n
  <2>2. p # x /\ n # x
    BY <1>1, <1>7 DEF p, n
  <2> QED BY <2>1, <2>2, <1>1, <1>2, <1>3 DEF n
<1>12. CASE i > k + 1
  <2>1. Ring(h, t, i) = Ring(h, s, i - 1) /\ Ring(h, t, i + 1) = Ring(h, s, i)
    BY <1>1, <1>4, <1>12
  <2>2. Ring(h, s, i - 1) \notin {p, x} /\ Ring(h, s, i) \notin {n, x}
    BY <1>1, <1>5, <1>6, <1>7, <1>12
  <2>3. i - 1 \in 0 .. Len(s) /\ (i - 1) + 1 = i
    BY <1>1, <1>12
  <2> QED BY <2>1, <2>2, <2>3, <1>1, <1>3, <1>8
<1> QED BY <1>1, <1>9, <1>10, <1>11, <1>12

\* The entry at position k goes out.
LEMMA RingShrinks ==
  ASSUME NEW hp \in Heap, NEW h \in Heads, NEW s \in Seq(Nodes), Rings(hp, h, s), Injective(s),
         NEW k \in 1 .. Len(s),
         NEW t \in Seq(Nodes), Len(t) = Len(s) - 1,
         \A i \in 1 .. Len(t) : t[i] = IF i < k THEN s[i] ELSE s[i + 1]
  PROVE  Rings(Unlinked(hp, s[k]), h, t)
<1> DEFINE p == Ring(h, s, k - 1)
           n == Ring(h, s, k + 1)
           r == Unlinked(hp, s[k])
<1>1. /\ Len(s) \in Nat
      /\ DOMAIN s = 1 .. Len(s)
      /\ \A i \in 1 .. Len(s) : s[i] \in Nodes
      /\ \A i \in Int : Ring(h, s, i) \in Ptr
  BY RingFacts
<1>2. h \notin Nodes
  BY PointerAssumption
<1>3. \A i \in 0 .. Len(s) : hp.next[Ring(h, s, i)] = Ring(h, s, i + 1)
                          /\ hp.prev[Ring(h, s, i + 1)] = Ring(h, s, i)
  BY DEF Rings
<1>4. hp.next[s[k]] = n /\ hp.prev[s[k]] = p
  <2>1. k \in 0 .. Len(s) /\ k - 1 \in 0 .. Len(s) /\ (k - 1) + 1 = k /\ Ring(h, s, k) = s[k]
    BY <1>1 DEF Ring
  <2> QED BY <2>1, <1>3
<1>5. p \in Ptr /\ n \in Ptr
  BY <1>1
<1>6. /\ \A q \in Ptr : r.next[q] = IF q = p THEN n ELSE hp.next[q]
      /\ \A q \in Ptr : r.prev[q] = IF q = n THEN p ELSE hp.prev[q]
  <2> HIDE DEF p, n
  <2> QED BY <1>4, <1>5, BridgedFields DEF Unlinked
<1>7. \A i \in 0 .. Len(s) : Ring(h, t, i) = IF i < k THEN Ring(h, s, i) ELSE Ring(h, s, i + 1)
  BY <1>1 DEF Ring
<1>8. \A i \in 0 .. Len(s) : Ring(h, s, i) = p => i = k - 1
  BY <1>1, <1>2 DEF Ring, Injective
<1>9. \A i \in 1 .. Len(s) + 1 : Ring(h, s, i) = n => i = k + 1
  BY <1>1, <1>2 DEF Ring, Injective
<1> HIDE DEF p, n, r
<1> SUFFICES ASSUME NEW i \in 0 .. Len(t)
             PROVE  /\ r.next[Ring(h, t, i)] = Ring(h, t, i + 1)
                    /\ r.prev[Ring(h, t, i + 1)] = Ring(h, t, i)
  BY DEF Rings, r
<1>10. CASE i + 1 < k
  <2>1. Ring(h, t, i) = Ring(h, s, i) /\ Ring(h, t, i + 1) = Ring(h, s, i + 1)
    BY <1>1, <1>7, <1>10
  <2>2. Ring(h, s, i) # p /\ Ring(h, s, i + 1) # n
    BY <1>1, <1>8, <1>9, <1>10
  <2>3. i \in 0 .. Len(s) /\ Ring(h, s, i) \in Ptr /\ Ring(h, s, i + 1) \in Ptr
    BY <1>1, <1>10
  <2> QED BY <2>1, <2>2, <2>3, <1>3, <1>6
<1>11. CASE i + 1 = k
  <2>1. Ring(h, t, i) = p /\ Ring(h, t, i + 1) = n
    BY <1>1, <1>7, <1>11 DEF p, n
  <2> QED BY <2>1, <1>5, <1>6
<1>12. CASE i + 1 > k
  <2>1. Ring(h, t, i) = Ring(h, s, i + 1) /\ Ring(h, t, i + 1) = Ring(h, s, i + 2)
    BY <1>1, <1>7, <1>12
  <2>2. Ring(h, s, i + 1) # p /\ Ring(h, s, i + 2) # n
    BY <1>1, <1>8, <1>9, <1>12
  <2>3. i + 1 \in 0 .. Len(s) /\ (i + 1) + 1 = i + 2
    BY <1>1, <1>12
  <2> QED BY <2>1, <2>2, <2>3, <1>1, <1>3, <1>6
<1> QED BY <1>1, <1>10, <1>11, <1>12

\* The entries of the ring of l go between h and its first entry.
LEMMA RingsJoin ==
  ASSUME NEW hp \in Heap, NEW l \in Heads, NEW h \in Heads, l # h,
         NEW s \in Seq(Nodes), Rings(hp, l, s), Injective(s), Len(s) > 0,
         NEW t \in Seq(Nodes), Rings(hp, h, t), Injective(t),
         \A i \in DOMAIN s, j \in DOMAIN t : s[i] # t[j]
  PROVE  Rings(Spliced(hp, l, h), h, s \o t)
<1> DEFINE first == s[1]
           last == s[Len(s)]
           to == Ring(h, t, 1)
           r == Spliced(hp, l, h)
           u == s \o t
<1>1. /\ Len(s) \in Nat /\ DOMAIN s = 1 .. Len(s)
      /\ \A i \in 1 .. Len(s) : s[i] \in Nodes
      /\ \A i \in Int : Ring(l, s, i) \in Ptr
      /\ \A i \in 1 .. Len(s) : Ring(l, s, i) = s[i]
      /\ Ring(l, s, 0) = l /\ Ring(l, s, Len(s) + 1) = l
  BY RingFacts
<1>2. /\ Len(t) \in Nat /\ DOMAIN t = 1 .. Len(t)
      /\ \A i \in 1 .. Len(t) : t[i] \in Nodes
      /\ \A i \in Int : Ring(h, t, i) \in Ptr
      /\ \A i \in 1 .. Len(t) : Ring(h, t, i) = t[i]
      /\ Ring(h, t, 0) = h /\ Ring(h, t, Len(t) + 1) = h
  BY RingFacts
<1>3. h \notin Nodes /\ l \notin Nodes /\ h \in Ptr /\ l \in Ptr
  BY PointerAssumption DEF Ptr
<1>4. /\ \A i \in 0 .. Len(s) : hp.next[Ring(l, s, i)] = Ring(l, s, i + 1)
                            /\ hp.prev[Ring(l, s, i + 1)] = Ring(l, s, i)
      /\ \A i \in 0 .. Len(t) : hp.next[Ring(h, t, i)] = Ring(h, t, i + 1)
                            /\ hp.prev[Ring(h, t, i + 1)] = Ring(h, t, i)
  BY DEF Rings
<1>5. hp.next[l] = first /\ hp.prev[l] = last /\ hp.next[h] = to
  <2>1. 0 \in 0 .. Len(s) /\ Len(s) \in 0 .. Len(s) /\ 0 \in 0 .. Len(t) /\ 0 + 1 = 1
    BY <1>1, <1>2
  <2>2. hp.next[l] = Ring(l, s, 1) /\ hp.prev[l] = Ring(l, s, Len(s)) /\ hp.next[h] = to
    BY <2>1, <1>1, <1>2, <1>4
  <2> QED BY <2>2, <1>1
<1>6. first \in Nodes /\ last \in Nodes /\ to \in Ptr
  BY <1>1, <1>2
<1>7. /\ \A q \in Ptr : r.next[q] = IF q = last THEN to ELSE IF q = h THEN first ELSE hp.next[q]
      /\ \A q \in Ptr : r.prev[q] = IF q = to THEN last ELSE IF q = first THEN h ELSE hp.prev[q]
  <2> HIDE DEF first, last, to
  <2>1. first \in Ptr /\ last \in Ptr
    BY <1>6 DEF Ptr
  <2> QED BY <2>1, <1>3, <1>5, <1>6, SplicedFields
<1>8. /\ Len(u) = Len(s) + Len(t)
      /\ \A i \in 1 .. Len(u) : u[i] = IF i <= Len(s) THEN s[i] ELSE t[i - Len(s)]
  BY <1>1, <1>2, ConcatProperties
<1> HIDE DEF u
<1>9. \A i \in 0 .. Len(u) + 1 :
        Ring(h, u, i) = IF i = 0 THEN h ELSE IF i <= Len(s) THEN s[i] ELSE Ring(h, t, i - Len(s))
  BY <1>1, <1>2, <1>8 DEF Ring
<1>10. /\ \A i \in 1 .. Len(s) : s[i] # h /\ s[i] # to
       /\ \A i \in 1 .. Len(s) : s[i] = last => i = Len(s)
       /\ \A i \in 1 .. Len(s) : s[i] = first => i = 1
  <2>1. \A i \in 1 .. Len(s) : s[i] # h /\ s[i] # to
    BY <1>1, <1>2, <1>3 DEF Ring
  <2>2. 1 \in 1 .. Len(s) /\ Len(s) \in 1 .. Len(s)
    BY <1>1
  <2>3. \A i \in 1 .. Len(s) : s[i] = last => i = Len(s)
    BY <2>2, <1>1 DEF Injective
  <2>4. \A i \in 1 .. Len(s) : s[i] = first => i = 1
    BY <2>2, <1>1 DEF Injective
  <2> QED BY <2>1, <2>3, <2>4
<1>11. /\ \A i \in 1 .. Len(t) : Ring(h, t, i) # h /\ Ring(h, t, i) # last
       /\ \A i \in 2 .. Len(t) + 1 : Ring(h, t, i) # to /\ Ring(h, t, i) # first
  BY <1>1, <1>2, <1>3 DEF Injective, Ring
<1> HIDE DEF first, last, to, r
<1> SUFFICES ASSUME NEW i \in 0 .. Len(u)
             PROVE  /\ r.next[Ring(h, u, i)] = Ring(h, u, i + 1)
                    /\ r.prev[Ring(h, u, i + 1)] = Ring(h, u, i)
  BY DEF Rings, r, u
<1>11a. /\ i \in Nat /\ i <= Len(s) + Len(t) /\ 1 \in 1 .. Len(s)
        /\ Len(s) \in Nat /\ Len(s) > 0
  <2>1. Len(s) \in Nat /\ Len(t) \in Nat
    BY LenProperties
  <2>2. Len(u) = Len(s) + Len(t)
    BY <1>8
  <2> HIDE DEF u
  <2> QED BY <2>1, <2>2
<1>12. CASE i = 0
  <2>1. Ring(h, u, i) = h /\ Ring(h, u, i + 1) = first
    BY <1>1, <1>2, <1>8, <1>9, <1>12 DEF first
  <2>2. h # last /\ first \in Ptr
    BY <1>3, <1>6 DEF Ptr
  <2>3. first # to
    BY <1>11a, <1>10 DEF first
  <2> QED BY <2>1, <2>2, <2>3, <1>3, <1>7
<1>13. CASE 0 < i /\ i < Len(s)
  <2>1. Ring(h, u, i) = s[i] /\ Ring(h, u, i + 1) = s[i + 1]
    BY <1>1, <1>2, <1>8, <1>9, <1>13
  <2>2. s[i] \notin {last, h} /\ s[i + 1] \notin {first, to} /\ s[i] \in Ptr /\ s[i + 1] \in Ptr
    <3>1. i \in 1 .. Len(s) /\ i + 1 \in 1 .. Len(s) /\ i # Len(s) /\ i + 1 # 1
      BY <1>11a, <1>13
    <3>2. s[i] \in Ptr /\ s[i + 1] \in Ptr
      BY <3>1, <1>1 DEF Ptr
    <3>3. s[i] \notin {last, h}
      BY <3>1, <1>10
    <3>4. s[i + 1] \notin {first, to}
      BY <3>1, <1>10
    <3> QED BY <3>2, <3>3, <3>4
  <2>3. hp.next[s[i]] = s[i + 1] /\ hp.prev[s[i + 1]] = s[i]
    BY <1>1, <1>4, <1>13
  <2> QED BY <2>1, <2>2, <2>3, <1>7
<1>14. CASE i = Len(s)
  <2>1. Ring(h, u, i) = last /\ Ring(h, u, i + 1) = to
    BY <1>1, <1>2, <1>8, <1>9, <1>14 DEF last, to
  <2> QED BY <2>1, <1>6, <1>7 DEF Ptr
<1>15. CASE i > Len(s)
  <2> DEFINE j == i - Len(s)
  <2>1. j \in 1 .. Len(t) /\ j + 1 \in 2 .. Len(t) + 1 /\ (i + 1) - Len(s) = j + 1
    BY <1>1, <1>2, <1>8, <1>15
  <2>2. Ring(h, u, i) = Ring(h, t, j) /\ Ring(h, u, i + 1) = Ring(h, t, j + 1)
    BY <2>1, <1>1, <1>2, <1>8, <1>9, <1>15
  <2> HIDE DEF j
  <2>3. Ring(h, t, j) \in Ptr /\ Ring(h, t, j + 1) \in Ptr /\ j \in 0 .. Len(t)
    BY <2>1, <1>2
  <2>4. Ring(h, t, j) \notin {last, h} /\ Ring(h, t, j + 1) \notin {first, to}
    BY <2>1, <1>11
  <2> QED BY <2>2, <2>3, <2>4, <1>4, <1>7
<1>16. i = 0 \/ (0 < i /\ i < Len(s)) \/ i = Len(s) \/ i > Len(s)
  BY <1>11a
<1> QED BY <1>12, <1>13, <1>14, <1>15, <1>16

-----------------------------------------------------------------------------
(* All lists *)

\* The lists, and the pointers that represent them.
Good(hp, ls, st) ==
  /\ Typed(hp, ls, st)
  /\ \A h \in Heads \ st : Rings(hp, h, ls[h])
  /\ \A h \in Heads : Injective(ls[h])
  /\ \A h, k \in Heads : h # k =>
       \A i \in DOMAIN ls[h], j \in DOMAIN ls[k] : ls[h][i] # ls[k][j]
  /\ \A h \in st : ls[h] = <<>>

\* An entry of no list has no pointers or points at itself.
Cut(hp, x) == hp.next[x] \in {NULL, x} /\ hp.prev[x] = hp.next[x]

LooseAreCut(hp, ls) == \A x \in Nodes : Loose(ls, x) => Cut(hp, x)

IInv == Good(heap, lists, stale) /\ LooseAreCut(heap, lists)

LEMMA RingsApart ==
  ASSUME NEW hp, NEW ls, NEW st, Good(hp, ls, st),
         NEW g \in Heads, NEW h \in Heads, g # h
  PROVE  \A i, j \in Int : Ring(g, ls[g], i) # Ring(h, ls[h], j)
<1>1. ls[g] \in Seq(Nodes) /\ ls[h] \in Seq(Nodes)
  BY DEF Good, Typed
<1>2. \A i \in 1 .. Len(ls[g]), j \in 1 .. Len(ls[h]) : ls[g][i] # ls[h][j]
  BY <1>1, RingFacts DEF Good
<1>3. /\ \A i \in 1 .. Len(ls[g]) : ls[g][i] \in Nodes
      /\ \A i \in 1 .. Len(ls[h]) : ls[h][i] \in Nodes
  BY <1>1, RingFacts
<1> QED BY <1>2, <1>3, PointerAssumption DEF Ring

\* An entry of no list is in no ring.
LEMMA LooseIsApart ==
  ASSUME NEW hp, NEW ls, NEW st, Good(hp, ls, st), NEW x \in Nodes, Loose(ls, x), NEW h \in Heads
  PROVE  \A i \in Int : Ring(h, ls[h], i) # x
<1>1. ls[h] \in Seq(Nodes)
  BY DEF Good, Typed
<1>2. \A i \in 1 .. Len(ls[h]) : ls[h][i] # x
  BY <1>1, RingFacts DEF Loose, In
<1> QED BY <1>2, PointerAssumption DEF Ring

\* Every structure is in a ring or an entry of no list.
LEMMA CaseOfNode ==
  ASSUME NEW ls, NEW x \in Nodes, ~Loose(ls, x), \A h \in Heads : ls[h] \in Seq(Nodes)
  PROVE  \E h \in Heads : \E i \in 1 .. Len(ls[h]) : ls[h][i] = x
BY RingFacts DEF Loose, In

\* Writing the pointers of an entry of no list changes no list.
LEMMA LooseWritten ==
  ASSUME NEW hp, NEW ls, NEW st, Good(hp, ls, st), NEW x \in Nodes, Loose(ls, x),
         NEW r \in {Initialised(hp, x), Cleared(hp, x)}
  PROVE  Good(r, ls, st) /\ \A y \in Ptr : y # x => Same(hp, r, y)
<1>1. hp \in Heap /\ x \in Ptr /\ x \notin Heads
  BY PointerAssumption DEF Good, Typed, Ptr
<1>2. r \in Heap /\ \A q \in Ptr : q # x => Same(hp, r, q)
  BY <1>1, OneCellFields DEF Same
<1>3. Typed(r, ls, st)
  BY <1>1, <1>2 DEF Good, Typed, Same, Ptr
<1>4. ASSUME NEW h \in Heads \ st
      PROVE  Rings(r, h, ls[h])
  <2>1. ls[h] \in Seq(Nodes) /\ Rings(hp, h, ls[h])
    BY DEF Good, Typed
  <2>2. \A i \in Int : Ring(h, ls[h], i) \in Ptr /\ Ring(h, ls[h], i) # x
    BY <2>1, RingFacts, LooseIsApart
  <2>3. \A i \in Int : Same(hp, r, Ring(h, ls[h], i))
    BY <1>2, <2>1, <2>2, RingFacts
  <2> QED BY <2>1, <2>3, RingKept
<1> QED BY <1>2, <1>3, <1>4 DEF Good

\* INIT_LIST_HEAD on a head without entries gives an empty ring.
LEMMA HeadInitialised ==
  ASSUME NEW hp, NEW ls, NEW st, Good(hp, ls, st), NEW h \in Heads, ls[h] = <<>>
  PROVE  /\ Good(Initialised(hp, h), ls, st \ {h})
         /\ \A y \in Ptr : y # h => Same(hp, Initialised(hp, h), y)
<1> DEFINE r == Initialised(hp, h)
<1>1. hp \in Heap /\ h \in Ptr
  BY DEF Good, Typed, Ptr
<1>2. r \in Heap /\ \A q \in Ptr : q # h => Same(hp, r, q)
  BY <1>1, OneCellFields DEF Same
<1>3. r.next[h] = h /\ r.prev[h] = h
  BY <1>1, InitialisedFields
<1> HIDE DEF r
<1>4. Typed(r, ls, st \ {h})
  BY <1>1, <1>2, <1>3, PointerAssumption DEF Good, Typed, Same, Ptr
<1>5. ASSUME NEW k \in Heads \ (st \ {h})
      PROVE  Rings(r, k, ls[k])
  <2>1. CASE k = h
    <3>1. Len(ls[h]) = 0
      BY EmptySeq
    <3>2. \A i \in 0 .. 1 : Ring(h, ls[h], i) = h
      BY <3>1 DEF Ring
    <3> QED BY <2>1, <3>1, <3>2, <1>3 DEF Rings
  <2>2. CASE k # h
    <3>1. ls[k] \in Seq(Nodes) /\ Rings(hp, k, ls[k])
      BY <2>2 DEF Good, Typed
    <3>2. Len(ls[h]) = 0
      BY EmptySeq
    <3>3. \A i \in Int : Ring(k, ls[k], i) \in Ptr /\ Ring(k, ls[k], i) # h
      <4>1. \A i \in Int : Ring(k, ls[k], i) # Ring(h, ls[h], 0)
        BY <2>2, RingsApart
      <4> QED BY <4>1, <3>1, <3>2, RingFacts DEF Ring
    <3>4. \A i \in Int : Same(hp, r, Ring(k, ls[k], i))
      BY <1>2, <3>1, <3>3, RingFacts
    <3> QED BY <3>1, <3>4, RingKept
  <2> QED BY <2>1, <2>2
<1>6. Good(r, ls, st \ {h})
  BY <1>4, <1>5 DEF Good
<1> QED BY <1>2, <1>6 DEF r

\* The callers' view of a deletion.
LEMMA WithoutFacts ==
  ASSUME NEW s \in Seq(Nodes), Injective(s), NEW x, NEW i \in 1 .. Len(s), s[i] = x
  PROVE  Without(s, x) = RemoveAt(s, i)
<1>1. DOMAIN s = 1 .. Len(s)
  BY LenProperties
<1>2. (CHOOSE j \in DOMAIN s : s[j] = x) = i
  BY <1>1 DEF Injective
<1> QED BY <1>1, <1>2 DEF Without

\* Taking an entry out of the list it is in, or cutting it off a ring it has
\* for itself.
LEMMA EntryTakenOut ==
  ASSUME NEW hp, NEW ls, NEW st, Good(hp, ls, st), NEW x \in Nodes,
         ~Loose(ls, x) \/ (hp.next[x] = x /\ hp.prev[x] = x)
  PROVE  /\ Good(Unlinked(hp, x), TakenOut(ls, x), st)
         /\ Loose(TakenOut(ls, x), x)
         /\ \A y \in Nodes : y # x /\ Loose(TakenOut(ls, x), y) =>
              Loose(ls, y) /\ Same(hp, Unlinked(hp, x), y)
<1> DEFINE r == Unlinked(hp, x)
           new == TakenOut(ls, x)
<1>1. /\ hp \in Heap /\ ls \in [Heads -> Seq(Nodes)] /\ st \subseteq Heads
      /\ \A h \in Heads : hp.next[h] # NULL /\ hp.prev[h] # NULL
      /\ x \in Ptr /\ x \notin Heads
  BY PointerAssumption DEF Good, Typed, Ptr
<1>2. CASE Loose(ls, x)
  <2>1. new = ls
    BY <1>1, <1>2 DEF TakenOut, Without, Loose, In
  <2>2. r \in Heap /\ \A q \in Ptr : Same(hp, r, q)
    <3>1. hp.next[x] = x /\ hp.prev[x] = x
      BY <1>2
    <3>2. r = Bridged(hp, x, x)
      BY <3>1 DEF Unlinked
    <3> HIDE DEF r
    <3> QED BY <1>1, <3>1, <3>2, BridgedFields DEF Same
  <2> HIDE DEF r, new
  <2>3. Typed(r, ls, st)
    BY <1>1, <2>2 DEF Typed, Same, Ptr
  <2>4. ASSUME NEW h \in Heads \ st
        PROVE  Rings(r, h, ls[h])
    <3>1. ls[h] \in Seq(Nodes) /\ Rings(hp, h, ls[h])
      BY DEF Good, Typed
    <3>2. \A i \in Int : Same(hp, r, Ring(h, ls[h], i))
      BY <2>2, <3>1, RingFacts
    <3> QED BY <3>1, <3>2, RingKept
  <2>5. Good(r, new, st)
    BY <2>1, <2>3, <2>4 DEF Good
  <2> QED BY <1>2, <2>1, <2>2, <2>5 DEF r, new, Ptr
<1>3. CASE ~Loose(ls, x)
  <2>1. PICK g \in Heads : \E i \in 1 .. Len(ls[g]) : ls[g][i] = x
    BY <1>1, <1>3, CaseOfNode
  <2>2. PICK k \in 1 .. Len(ls[g]) : ls[g][k] = x
    BY <2>1
  <2> DEFINE s == ls[g]
             t == RemoveAt(s, k)
             p == Ring(g, s, k - 1)
             n == Ring(g, s, k + 1)
  <2>3. s \in Seq(Nodes) /\ Injective(s) /\ Len(s) \in Nat /\ DOMAIN s = 1 .. Len(s)
    BY <1>1, LenProperties DEF Good
  <2>4. g \notin st /\ Rings(hp, g, s)
    <3>1. Len(<<>>) = 0
      BY EmptySeq
    <3> QED BY <2>2, <2>3, <3>1 DEF Good
  <2>5. /\ t \in Seq(Nodes) /\ Len(t) = Len(s) - 1
        /\ \A j \in 1 .. Len(s) - 1 : t[j] = IF j < k THEN s[j] ELSE s[j + 1]
    BY <2>2, <2>3, RemoveAtFacts
  <2>6. DOMAIN t = 1 .. Len(s) - 1
    BY <2>5, LenProperties
  <2> HIDE DEF t
  <2>7. new = [ls EXCEPT ![g] = t]
    <3>1. Without(s, x) = t
      BY <2>2, <2>3, WithoutFacts DEF t
    <3>2. \A h \in Heads : h # g => Without(ls[h], x) = ls[h]
      BY <2>2, <2>3 DEF Without, Good
    <3> QED BY <1>1, <3>1, <3>2 DEF TakenOut
  <2> HIDE DEF new
  <2>8. new \in [Heads -> Seq(Nodes)] /\ new[g] = t /\ \A h \in Heads : h # g => new[h] = ls[h]
    BY <1>1, <2>5, <2>7
  <2>9. p \in Ptr /\ n \in Ptr /\ hp.prev[x] = p /\ hp.next[x] = n
    <3>1. /\ k \in 0 .. Len(s) /\ k - 1 \in 0 .. Len(s) /\ (k - 1) + 1 = k
          /\ k - 1 \in Int /\ k + 1 \in Int /\ Ring(g, s, k) = x
      BY <2>2, <2>3 DEF Ring
    <3>2. hp.next[Ring(g, s, k)] = Ring(g, s, k + 1) /\ hp.prev[Ring(g, s, (k - 1) + 1)] = Ring(g, s, k - 1)
      BY <2>4, <3>1 DEF Rings
    <3>3. p \in Ptr /\ n \in Ptr
      BY <2>3, <3>1, RingFacts
    <3> QED BY <3>1, <3>2, <3>3
  <2>10. /\ r \in Heap
         /\ \A q \in Ptr : r.next[q] = IF q = p THEN n ELSE hp.next[q]
         /\ \A q \in Ptr : r.prev[q] = IF q = n THEN p ELSE hp.prev[q]
    <3> HIDE DEF p, n
    <3> QED BY <1>1, <2>9, BridgedFields DEF Unlinked
  <2>11. Rings(r, g, t)
    BY <1>1, <2>2, <2>3, <2>4, <2>5, RingShrinks
  <2> HIDE DEF r
  <2>12. Typed(r, new, st)
    <3>1. NULL \notin Ptr
      BY PointerAssumption
    <3> HIDE DEF p, n
    <3>2. p # NULL /\ n # NULL
      BY <2>9, <3>1
    <3>3. ASSUME NEW h \in Heads
          PROVE  r.next[h] # NULL /\ r.prev[h] # NULL
      <4>1. h \in Ptr /\ hp.next[h] # NULL /\ hp.prev[h] # NULL
        BY <1>1 DEF Ptr
      <4> QED BY <2>10, <3>2, <4>1
    <3> QED BY <1>1, <2>8, <2>10, <3>3 DEF Typed
  <2>13. ASSUME NEW h \in Heads \ st
         PROVE  Rings(r, h, new[h])
    <3>1. CASE h = g
      BY <3>1, <2>8, <2>11
    <3>2. CASE h # g
      <4>1. ls[h] \in Seq(Nodes) /\ Rings(hp, h, ls[h])
        BY DEF Good, Typed
      <4>2. k - 1 \in Int /\ k + 1 \in Int
        BY <2>3
      <4>3. \A i \in Int : Ring(h, ls[h], i) \in Ptr /\ Ring(h, ls[h], i) \notin {p, n}
        BY <3>2, <4>1, <4>2, RingFacts, RingsApart
      <4>4. \A i \in Int : Same(hp, r, Ring(h, ls[h], i))
        <5> HIDE DEF p, n
        <5> QED BY <2>10, <4>3 DEF Same
      <4> QED BY <3>2, <2>8, <4>1, <4>4, RingKept
    <3> QED BY <3>1, <3>2
  <2>14. /\ Injective(t) /\ \A j \in DOMAIN t : t[j] # x
         /\ \A j \in DOMAIN t : \E i \in DOMAIN s : t[j] = s[i]
         /\ \A i \in DOMAIN s : s[i] # x => \E j \in DOMAIN t : t[j] = s[i]
    <3> DEFINE Old(j) == IF j < k THEN j ELSE j + 1
               New(i) == IF i < k THEN i ELSE i - 1
    <3>1. \A j \in DOMAIN t : Old(j) \in DOMAIN s /\ Old(j) # k /\ t[j] = s[Old(j)]
      BY <2>2, <2>3, <2>5, <2>6
    <3>2. \A i, j \in DOMAIN t : Old(i) = Old(j) => i = j
      BY <2>2, <2>3, <2>6
    <3>3. \A i \in DOMAIN s : i # k => New(i) \in DOMAIN t /\ Old(New(i)) = i
      BY <2>2, <2>3, <2>6
    <3> HIDE DEF Old, New
    <3>4. \A j \in DOMAIN t : t[j] # x
      BY <3>1, <2>2, <2>3 DEF Injective
    <3>5. Injective(t)
      BY <3>1, <3>2, <2>3 DEF Injective
    <3>6. \A i \in DOMAIN s : s[i] # x => \E j \in DOMAIN t : t[j] = s[i]
      BY <3>1, <3>3, <2>2
    <3> QED BY <3>1, <3>4, <3>5, <3>6
  <2>15. Good(r, new, st)
    <3>1. \A h \in Heads : Injective(new[h])
      BY <2>8, <2>14 DEF Good
    <3>2. \A h, j \in Heads : h # j =>
            \A a \in DOMAIN new[h], b \in DOMAIN new[j] : new[h][a] # new[j][b]
      <4> SUFFICES ASSUME NEW h \in Heads, NEW j \in Heads, h # j,
                          NEW a \in DOMAIN new[h], NEW b \in DOMAIN new[j]
                   PROVE  new[h][a] # new[j][b]
        OBVIOUS
      <4>1. \E c \in DOMAIN ls[h] : new[h][a] = ls[h][c]
        <5>1. CASE h = g
          BY <5>1, <2>8, <2>14
        <5>2. CASE h # g
          BY <5>2, <2>8
        <5> QED BY <5>1, <5>2
      <4>2. \E c \in DOMAIN ls[j] : new[j][b] = ls[j][c]
        BY <2>8, <2>14
      <4> QED BY <4>1, <4>2 DEF Good
    <3>3. \A h \in st : new[h] = <<>>
      BY <1>1, <2>4, <2>8 DEF Good
    <3> QED BY <2>12, <2>13, <3>1, <3>2, <3>3 DEF Good
  <2>16. Loose(new, x)
    BY <2>2, <2>3, <2>8, <2>14 DEF Loose, In, Good
  <2>17. ASSUME NEW y \in Nodes, y # x, Loose(new, y)
         PROVE  Loose(ls, y) /\ Same(hp, r, y)
    <3>1. Loose(ls, y)
      <4> SUFFICES ASSUME NEW h \in Heads, NEW i \in DOMAIN ls[h], ls[h][i] = y
                   PROVE  \E j \in DOMAIN new[h] : new[h][j] = y
        BY <2>17 DEF Loose, In
      <4>1. CASE h = g
        BY <4>1, <2>8, <2>14, <2>17
      <4>2. CASE h # g
        BY <4>2, <2>8
      <4> QED BY <4>1, <4>2
    <3>2. y # p /\ y # n
      <4>1. k - 1 \in Int /\ k + 1 \in Int
        BY <2>3
      <4> QED BY <3>1, <4>1, LooseIsApart
    <3>3. y \in Ptr
      BY DEF Ptr
    <3> HIDE DEF p, n
    <3> QED BY <2>10, <3>1, <3>2, <3>3 DEF Same
  <2> QED BY <2>15, <2>16, <2>17 DEF r, new
<1> QED BY <1>2, <1>3

\* The lists gain x, and only x.
Gained(hp, ls, st, x, r, new) ==
  /\ Good(r, new, st)
  /\ ~Loose(new, x)
  /\ \A y \in Nodes : y # x /\ Loose(new, y) => Loose(ls, y) /\ Same(hp, r, y)

\* Putting an entry of no list behind position k of list h; t is the new list.
LEMMA EntryPutIn ==
  ASSUME NEW hp, NEW ls, NEW st, Good(hp, ls, st), NEW x \in Nodes, Loose(ls, x),
         NEW h \in Heads \ st, NEW k \in 0 .. Len(ls[h]),
         NEW t, InsertedAt(ls[h], k, x, t), NEW new, new = [ls EXCEPT ![h] = t],
         NEW r, r = AddedBetween(hp, x, Ring(h, ls[h], k), Ring(h, ls[h], k + 1))
  PROVE  Gained(hp, ls, st, x, r, new)
<1> DEFINE s == ls[h]
           p == Ring(h, s, k)
           n == Ring(h, s, k + 1)
<1>1. /\ hp \in Heap /\ ls \in [Heads -> Seq(Nodes)] /\ st \subseteq Heads
      /\ \A g \in Heads : hp.next[g] # NULL /\ hp.prev[g] # NULL
      /\ x \in Ptr /\ x \notin Heads /\ NULL \notin Ptr
  BY PointerAssumption DEF Good, Typed, Ptr
<1>2. /\ s \in Seq(Nodes) /\ Injective(s) /\ Rings(hp, h, s)
      /\ Len(s) \in Nat /\ DOMAIN s = 1 .. Len(s) /\ \A i \in DOMAIN s : s[i] # x
  BY <1>1, LenProperties DEF Good, Loose, In
<1>3. k \in Int /\ k + 1 \in Int /\ p \in Ptr /\ n \in Ptr
  <2>1. k \in Int /\ k + 1 \in Int
    BY <1>2
  <2> QED BY <2>1, <1>2, RingFacts
<1>4. /\ r \in Heap
      /\ \A q \in Ptr : r.next[q] = IF q = p THEN x ELSE IF q = x THEN n ELSE hp.next[q]
      /\ \A q \in Ptr : r.prev[q] = IF q = x THEN p ELSE IF q = n THEN x ELSE hp.prev[q]
  <2>1. r = AddedBetween(hp, x, p, n)
    OBVIOUS
  <2>2. p \in Ptr /\ n \in Ptr /\ x \in Ptr /\ hp \in Heap
    BY <1>1, <1>3
  <2> HIDE DEF p, n
  <2>3. Between(hp, r, x, p, n)
    BY <2>1, <2>2, AddedFields, Zenon
  <2> QED BY <2>3, Zenon DEF Between
<1>5. Rings(r, h, t)
  <2>1. Rings(AddedBetween(hp, x, Ring(h, s, k), Ring(h, s, k + 1)), h, t)
    BY <1>1, <1>2, RingGrows
  <2> QED BY <2>1
<1>6. new \in [Heads -> Seq(Nodes)] /\ new[h] = t /\ \A g \in Heads : g # h => new[g] = ls[g]
  BY <1>1 DEF InsertedAt
<1>7. DOMAIN t = 1 .. Len(s) + 1
  BY LenProperties DEF InsertedAt
<1>8. /\ Injective(t) /\ \E j \in DOMAIN t : t[j] = x
      /\ \A j \in DOMAIN t : t[j] = x \/ \E i \in DOMAIN s : t[j] = s[i]
      /\ \A i \in DOMAIN s : \E j \in DOMAIN t : t[j] = s[i]
  <2> DEFINE Old(j) == IF j <= k THEN j ELSE j - 1
             New(i) == IF i <= k THEN i ELSE i + 1
  <2>1. k + 1 \in DOMAIN t /\ t[k + 1] = x
    BY <1>2, <1>7 DEF InsertedAt
  <2>2. \A j \in DOMAIN t : j # k + 1 => Old(j) \in DOMAIN s /\ t[j] = s[Old(j)]
    BY <1>2, <1>7 DEF InsertedAt
  <2>3. \A i, j \in DOMAIN t : i # k + 1 /\ j # k + 1 /\ Old(i) = Old(j) => i = j
    BY <1>2, <1>7
  <2>4. \A i \in DOMAIN s : New(i) \in DOMAIN t /\ New(i) # k + 1 /\ Old(New(i)) = i
    BY <1>2, <1>7
  <2> HIDE DEF Old, New
  <2>5. Injective(t)
    <3> SUFFICES ASSUME NEW i \in DOMAIN t, NEW j \in DOMAIN t, t[i] = t[j]
                 PROVE  i = j
      BY DEF Injective
    <3>1. CASE i = k + 1 \/ j = k + 1
      BY <3>1, <2>1, <2>2, <1>2
    <3>2. CASE i # k + 1 /\ j # k + 1
      <4>1. s[Old(i)] = s[Old(j)] /\ Old(i) \in DOMAIN s /\ Old(j) \in DOMAIN s
        BY <3>2, <2>2
      <4>2. Old(i) = Old(j)
        BY <4>1, <1>2 DEF Injective
      <4> QED BY <4>2, <3>2, <2>3
    <3> QED BY <3>1, <3>2
  <2>6. \A i \in DOMAIN s : \E j \in DOMAIN t : t[j] = s[i]
    <3> TAKE i \in DOMAIN s
    <3>1. New(i) \in DOMAIN t /\ t[New(i)] = s[i]
      BY <2>2, <2>4
    <3> QED BY <3>1
  <2> QED BY <2>1, <2>2, <2>5, <2>6
<1>9. Typed(r, new, st)
  <2> HIDE DEF p, n
  <2>1. p # NULL /\ n # NULL /\ x # NULL
    BY <1>1, <1>3
  <2>2. ASSUME NEW g \in Heads
        PROVE  r.next[g] # NULL /\ r.prev[g] # NULL
    <3>1. g \in Ptr /\ hp.next[g] # NULL /\ hp.prev[g] # NULL
      BY <1>1 DEF Ptr
    <3> QED BY <1>4, <2>1, <3>1
  <2> QED BY <1>1, <1>4, <1>6, <2>2 DEF Typed
<1>10. ASSUME NEW g \in Heads \ st
       PROVE  Rings(r, g, new[g])
  <2>1. CASE g = h
    BY <2>1, <1>5, <1>6
  <2>2. CASE g # h
    <3>1. ls[g] \in Seq(Nodes) /\ Rings(hp, g, ls[g])
      BY DEF Good, Typed
    <3>2. \A i \in Int : Ring(g, ls[g], i) \in Ptr /\ Ring(g, ls[g], i) \notin {p, n, x}
      BY <2>2, <3>1, <1>3, RingFacts, RingsApart, LooseIsApart
    <3>3. \A i \in Int : Same(hp, r, Ring(g, ls[g], i))
      <4> HIDE DEF p, n
      <4> QED BY <1>4, <3>2 DEF Same
    <3> QED BY <2>2, <1>6, <3>1, <3>3, RingKept
  <2> QED BY <2>1, <2>2
<1>11. Good(r, new, st)
  <2>1. \A g \in Heads : Injective(new[g])
    BY <1>6, <1>8 DEF Good
  <2>2. ASSUME NEW g \in Heads, NEW j \in Heads, g # j,
               NEW a \in DOMAIN new[g], NEW b \in DOMAIN new[j]
        PROVE  new[g][a] # new[j][b]
    <3>1. ASSUME NEW f \in Heads, f # h, NEW c \in DOMAIN t, NEW d \in DOMAIN ls[f]
          PROVE  t[c] # ls[f][d]
      BY <3>1, <1>8 DEF Good, Loose, In
    <3>2. CASE g = h
      BY <3>1, <3>2, <2>2, <1>6
    <3>3. CASE j = h
      BY <3>1, <3>3, <2>2, <1>6
    <3>4. CASE g # h /\ j # h
      BY <3>4, <2>2, <1>6 DEF Good
    <3> QED BY <3>2, <3>3, <3>4
  <2>3. \A g \in st : new[g] = <<>>
    BY <1>1, <1>6 DEF Good
  <2> QED BY <1>9, <1>10, <2>1, <2>2, <2>3 DEF Good
<1>12. ~Loose(new, x)
  BY <1>6, <1>8 DEF Loose, In
<1>13. ASSUME NEW y \in Nodes, y # x, Loose(new, y)
       PROVE  Loose(ls, y) /\ Same(hp, r, y)
  <2>1. Loose(ls, y)
    <3> SUFFICES ASSUME NEW g \in Heads, NEW i \in DOMAIN ls[g], ls[g][i] = y
                 PROVE  \E j \in DOMAIN new[g] : new[g][j] = y
      BY <1>13 DEF Loose, In
    <3>1. CASE g = h
      BY <3>1, <1>6, <1>8
    <3>2. CASE g # h
      BY <3>2, <1>6
    <3> QED BY <3>1, <3>2
  <2>2. y # p /\ y # n /\ y \in Ptr
    BY <2>1, <1>3, LooseIsApart DEF Ptr
  <2> HIDE DEF p, n
  <2> QED BY <1>4, <2>1, <2>2, <1>13 DEF Same
<1> QED BY <1>11, <1>12, <1>13 DEF Gained

\* list_add and list_add_tail put an entry of no list at an end of a list.
LEMMA EntryAdded ==
  ASSUME NEW hp, NEW ls, NEW st, Good(hp, ls, st), NEW x \in Nodes, Loose(ls, x),
         NEW h \in Heads \ st, NEW r, NEW new,
         \/ r = AddedFirst(hp, x, h) /\ new = [ls EXCEPT ![h] = <<x>> \o @]
         \/ r = AddedLast(hp, x, h) /\ new = [ls EXCEPT ![h] = Append(@, x)]
  PROVE  Gained(hp, ls, st, x, r, new)
<1> DEFINE s == ls[h]
<1>1. /\ s \in Seq(Nodes) /\ Len(s) \in Nat /\ Rings(hp, h, s)
      /\ Ring(h, s, 0) = h /\ Ring(h, s, Len(s) + 1) = h
  <2>1. s \in Seq(Nodes) /\ Rings(hp, h, s)
    BY DEF Good, Typed
  <2> QED BY <2>1, RingFacts
<1>2. hp.next[h] = Ring(h, s, 1) /\ hp.prev[h] = Ring(h, s, Len(s))
  <2>1. 0 \in 0 .. Len(s) /\ Len(s) \in 0 .. Len(s) /\ 0 + 1 = 1
    BY <1>1
  <2> HIDE DEF s
  <2>2. hp.next[Ring(h, s, 0)] = Ring(h, s, 0 + 1) /\ hp.prev[Ring(h, s, Len(s) + 1)] = Ring(h, s, Len(s))
    BY <1>1, <2>1 DEF Rings
  <2> QED BY <1>1, <2>1, <2>2
<1>3. CASE r = AddedFirst(hp, x, h) /\ new = [ls EXCEPT ![h] = <<x>> \o @]
  <2> DEFINE t == <<x>> \o s
  <2>1. InsertedAt(s, 0, x, t)
    <3>1. <<x>> \in Seq(Nodes) /\ Len(<<x>>) = 1 /\ <<x>>[1] = x
      OBVIOUS
    <3>2. /\ t \in Seq(Nodes) /\ Len(t) = Len(<<x>>) + Len(s)
          /\ \A i \in 1 .. Len(<<x>>) + Len(s) :
               t[i] = IF i <= Len(<<x>>) THEN <<x>>[i] ELSE s[i - Len(<<x>>)]
      BY <1>1, <3>1, ConcatProperties
    <3> HIDE DEF t, s
    <3> QED BY <1>1, <3>1, <3>2 DEF InsertedAt
  <2>2. r = AddedBetween(hp, x, Ring(h, s, 0), Ring(h, s, 0 + 1)) /\ 0 \in 0 .. Len(s)
    <3> HIDE DEF s
    <3> QED BY <1>1, <1>2, <1>3 DEF AddedFirst
  <2>3. new = [ls EXCEPT ![h] = t]
    BY <1>3
  <2> HIDE DEF t
  <2> QED BY <2>1, <2>2, <2>3, EntryPutIn, Zenon
<1>4. CASE r = AddedLast(hp, x, h) /\ new = [ls EXCEPT ![h] = Append(@, x)]
  <2> DEFINE t == Append(s, x)
  <2>1. InsertedAt(s, Len(s), x, t)
    <3>1. /\ t \in Seq(Nodes) /\ Len(t) = Len(s) + 1
          /\ \A i \in 1 .. Len(s) : t[i] = s[i]
          /\ t[Len(s) + 1] = x
      BY <1>1, AppendProperties
    <3> HIDE DEF t, s
    <3> QED BY <1>1, <3>1 DEF InsertedAt
  <2>2. r = AddedBetween(hp, x, Ring(h, s, Len(s)), Ring(h, s, Len(s) + 1)) /\ Len(s) \in 0 .. Len(s)
    <3> HIDE DEF s
    <3> QED BY <1>1, <1>2, <1>4 DEF AddedLast
  <2>3. new = [ls EXCEPT ![h] = t]
    BY <1>4
  <2> HIDE DEF t
  <2> QED BY <2>1, <2>2, <2>3, EntryPutIn, Zenon
<1> QED BY <1>3, <1>4

\* A head whose ring is itself has no entries.
LEMMA EmptyRing ==
  ASSUME NEW hp, NEW ls, NEW st, Good(hp, ls, st), NEW h \in Heads \ st
  PROVE  ListEmpty(hp, h) <=> ls[h] = <<>>
<1> DEFINE s == ls[h]
<1>1. /\ s \in Seq(Nodes) /\ Rings(hp, h, s)
  BY DEF Good, Typed
<1>2. Len(s) \in Nat /\ Ring(h, s, 0) = h /\ \A i \in 1 .. Len(s) : Ring(h, s, i) \in Nodes
  BY <1>1, RingFacts
<1>3. hp.next[h] = Ring(h, s, 1)
  <2>1. 0 \in 0 .. Len(s) /\ 0 + 1 = 1
    BY <1>2
  <2> HIDE DEF s
  <2> QED BY <1>1, <1>2, <2>1 DEF Rings
<1>4. s = <<>> <=> Len(s) = 0
  BY <1>1, EmptySeq
<1> HIDE DEF s
<1>5. CASE Len(s) = 0
  <2>1. Ring(h, s, 1) = h
    BY <1>5 DEF Ring
  <2> QED BY <2>1, <1>3, <1>4, <1>5 DEF s, ListEmpty
<1>6. CASE Len(s) # 0
  <2>1. 1 \in 1 .. Len(s)
    BY <1>2, <1>6
  <2>2. hp.next[h] # h
    BY <2>1, <1>2, <1>3, PointerAssumption
  <2> QED BY <2>2, <1>4, <1>6 DEF s, ListEmpty
<1> QED BY <1>5, <1>6

\* __list_splice moves the entries of l to the front of h; only the pointers of
\* the head l are wrong then.
LEMMA ListJoined ==
  ASSUME NEW hp, NEW ls, NEW st, Good(hp, ls, st),
         NEW l \in Heads \ st, NEW h \in Heads \ st, l # h, ls[l] # <<>>,
         NEW r, r = Spliced(hp, l, h),
         NEW new, new = Joined(ls, l, h)
  PROVE  /\ Good(r, new, st \cup {l})
         /\ \A y \in Nodes : Loose(new, y) => Loose(ls, y) /\ Same(hp, r, y)
<1> DEFINE s == ls[l]
           t == ls[h]
           u == s \o t
           first == Ring(l, s, 1)
           last == Ring(l, s, Len(s))
           to == Ring(h, t, 1)
<1>1. /\ hp \in Heap /\ ls \in [Heads -> Seq(Nodes)] /\ st \subseteq Heads
      /\ \A g \in Heads : hp.next[g] # NULL /\ hp.prev[g] # NULL
      /\ l \in Ptr /\ h \in Ptr /\ NULL \notin Ptr
  BY PointerAssumption DEF Good, Typed, Ptr
<1>2. /\ s \in Seq(Nodes) /\ Injective(s) /\ Rings(hp, l, s)
      /\ t \in Seq(Nodes) /\ Injective(t) /\ Rings(hp, h, t)
  BY <1>1 DEF Good
<1>3. /\ Len(s) \in Nat /\ Len(s) > 0 /\ DOMAIN s = 1 .. Len(s)
      /\ Len(t) \in Nat /\ DOMAIN t = 1 .. Len(t)
      /\ Ring(l, s, 0) = l /\ Ring(l, s, Len(s) + 1) = l /\ Ring(h, t, 0) = h
  <2>1. Len(s) \in Nat \ {0} /\ Len(t) \in Nat
    BY <1>2, EmptySeq, LenProperties
  <2> QED BY <2>1, <1>2, RingFacts
<1>4. first \in Ptr /\ last \in Ptr /\ to \in Ptr
  BY <1>2, <1>3, RingFacts
<1>5. \A i \in DOMAIN s, j \in DOMAIN t : s[i] # t[j]
  BY DEF Good
<1>6. hp.next[l] = first /\ hp.prev[l] = last /\ hp.next[h] = to
  <2>1. 0 \in 0 .. Len(s) /\ Len(s) \in 0 .. Len(s) /\ 0 \in 0 .. Len(t) /\ 0 + 1 = 1
    BY <1>3
  <2> HIDE DEF s, t
  <2>2. /\ hp.next[Ring(l, s, 0)] = Ring(l, s, 0 + 1)
        /\ hp.prev[Ring(l, s, Len(s) + 1)] = Ring(l, s, Len(s))
        /\ hp.next[Ring(h, t, 0)] = Ring(h, t, 0 + 1)
    BY <1>2, <2>1 DEF Rings
  <2> QED BY <1>3, <2>1, <2>2
<1>7. /\ r \in Heap
      /\ \A q \in Ptr : r.next[q] = IF q = last THEN to ELSE IF q = h THEN first ELSE hp.next[q]
      /\ \A q \in Ptr : r.prev[q] = IF q = to THEN last ELSE IF q = first THEN h ELSE hp.prev[q]
  <2> HIDE DEF first, last, to
  <2> QED BY <1>1, <1>4, <1>6, SplicedFields
<1>8. Rings(r, h, u)
  <2> HIDE DEF s, t
  <2>1. Rings(Spliced(hp, l, h), h, u)
    BY <1>1, <1>2, <1>3, <1>5, RingsJoin
  <2> QED BY <2>1
<1>9. /\ u \in Seq(Nodes) /\ DOMAIN u = 1 .. Len(s) + Len(t)
      /\ \A i \in 1 .. Len(s) + Len(t) : u[i] = IF i <= Len(s) THEN s[i] ELSE t[i - Len(s)]
  <2>1. u \in Seq(Nodes) /\ Len(u) = Len(s) + Len(t)
    BY <1>2, ConcatProperties
  <2>2. DOMAIN u = 1 .. Len(u)
    BY <2>1, LenProperties
  <2> QED BY <1>2, <2>1, <2>2, ConcatProperties
<1>10. new \in [Heads -> Seq(Nodes)] /\ new[h] = u /\ new[l] = <<>>
       /\ \A g \in Heads \ {h, l} : new[g] = ls[g]
  <2>1. <<>> \in Seq(Nodes)
    BY EmptySeq
  <2>2. new = [ls EXCEPT ![l] = <<>>, ![h] = u]
    BY DEF Joined
  <2> HIDE DEF u
  <2> QED BY <1>1, <1>9, <2>1, <2>2
<1> HIDE DEF u
<1>11. /\ Injective(u)
       /\ \A j \in DOMAIN u : (\E i \in DOMAIN s : u[j] = s[i]) \/ (\E i \in DOMAIN t : u[j] = t[i])
       /\ \A i \in DOMAIN s : \E j \in DOMAIN u : u[j] = s[i]
       /\ \A i \in DOMAIN t : \E j \in DOMAIN u : u[j] = t[i]
  <2> HIDE DEF s, t
  <2>1. ASSUME NEW j \in DOMAIN u
        PROVE  \/ j \in DOMAIN s /\ u[j] = s[j]
               \/ j - Len(s) \in DOMAIN t /\ u[j] = t[j - Len(s)] /\ j \notin DOMAIN s
    BY <1>3, <1>9
  <2>2. \A i \in DOMAIN s : i \in DOMAIN u /\ u[i] = s[i]
    BY <1>3, <1>9
  <2>3. \A i \in DOMAIN t : i + Len(s) \in DOMAIN u /\ u[i + Len(s)] = t[i]
    BY <1>3, <1>9
  <2>4. Injective(u)
    <3> SUFFICES ASSUME NEW i \in DOMAIN u, NEW j \in DOMAIN u, u[i] = u[j]
                 PROVE  i = j
      BY DEF Injective
    <3>1. CASE i \in DOMAIN s /\ j \in DOMAIN s
      BY <3>1, <2>1, <1>2 DEF Injective
    <3>2. CASE i \notin DOMAIN s /\ j \notin DOMAIN s
      <4>1. i - Len(s) = j - Len(s)
        BY <3>2, <2>1, <1>2 DEF Injective
      <4> QED BY <4>1, <1>3, <1>9
    <3>3. CASE i \in DOMAIN s /\ j \notin DOMAIN s
      BY <3>3, <2>1, <1>5
    <3>4. CASE i \notin DOMAIN s /\ j \in DOMAIN s
      BY <3>4, <2>1, <1>5
    <3> QED BY <3>1, <3>2, <3>3, <3>4
  <2> QED BY <2>1, <2>2, <2>3, <2>4
<1> HIDE DEF first, last, to
<1>12. Typed(r, new, st \cup {l})
  <2>1. first # NULL /\ last # NULL /\ to # NULL /\ h # NULL
    BY <1>1, <1>4
  <2>2. ASSUME NEW g \in Heads
        PROVE  r.next[g] # NULL /\ r.prev[g] # NULL
    <3>1. g \in Ptr /\ hp.next[g] # NULL /\ hp.prev[g] # NULL
      BY <1>1 DEF Ptr
    <3> QED BY <1>7, <2>1, <3>1
  <2> QED BY <1>1, <1>7, <1>10, <2>2 DEF Typed
<1>13. ASSUME NEW g \in Heads \ (st \cup {l})
       PROVE  Rings(r, g, new[g])
  <2>1. CASE g = h
    BY <2>1, <1>8, <1>10
  <2>2. CASE g # h
    <3>1. ls[g] \in Seq(Nodes) /\ Rings(hp, g, ls[g]) /\ g # l /\ new[g] = ls[g]
      BY <2>2, <1>10 DEF Good, Typed
    <3>2. \A i \in Int : Ring(g, ls[g], i) \in Ptr
      BY <3>1, RingFacts
    <3>3. \A i \in Int : Ring(g, ls[g], i) \notin {first, last, to, h}
      <4>1. \A i, j \in Int :
              Ring(g, ls[g], i) # Ring(l, s, j) /\ Ring(g, ls[g], i) # Ring(h, t, j)
        BY <2>2, <3>1, RingsApart
      <4> QED BY <4>1, <1>3 DEF first, last, to
    <3>4. \A i \in Int : Same(hp, r, Ring(g, ls[g], i))
      BY <1>7, <3>2, <3>3 DEF Same
    <3> QED BY <3>1, <3>4, RingKept
  <2> QED BY <2>1, <2>2
<1>14. Good(r, new, st \cup {l})
  <2>1. \A g \in Heads : Injective(new[g])
    <3>1. Injective(<<>>)
      BY DEF Injective
    <3> QED BY <3>1, <1>10, <1>11 DEF Good
  <2>2. ASSUME NEW g \in Heads, NEW j \in Heads, g # j,
               NEW a \in DOMAIN new[g], NEW b \in DOMAIN new[j]
        PROVE  new[g][a] # new[j][b]
    <3>1. g # l /\ j # l
      <4>1. DOMAIN <<>> = {}
        OBVIOUS
      <4> QED BY <4>1, <1>10, <2>2
    <3>2. ASSUME NEW f \in Heads \ {h, l}, NEW c \in DOMAIN u, NEW d \in DOMAIN ls[f]
          PROVE  u[c] # ls[f][d]
      BY <1>11 DEF Good
    <3>3. CASE g = h
      BY <3>1, <3>2, <3>3, <2>2, <1>10
    <3>4. CASE j = h
      BY <3>1, <3>2, <3>4, <2>2, <1>10
    <3>5. CASE g # h /\ j # h
      BY <3>1, <3>5, <2>2, <1>10 DEF Good
    <3> QED BY <3>3, <3>4, <3>5
  <2>3. \A g \in st \cup {l} : new[g] = <<>>
    BY <1>1, <1>10 DEF Good
  <2> QED BY <1>12, <1>13, <2>1, <2>2, <2>3 DEF Good
<1>15. ASSUME NEW y \in Nodes, Loose(new, y)
       PROVE  Loose(ls, y) /\ Same(hp, r, y)
  <2>1. Loose(ls, y)
    <3> SUFFICES ASSUME NEW g \in Heads, NEW i \in DOMAIN ls[g], ls[g][i] = y
                 PROVE  \E f \in Heads : \E j \in DOMAIN new[f] : new[f][j] = y
      BY <1>15 DEF Loose, In
    <3>1. CASE g \in {h, l}
      <4>1. \E j \in DOMAIN u : u[j] = y
        BY <3>1, <1>11
      <4> QED BY <4>1, <1>10
    <3>2. CASE g \notin {h, l}
      BY <3>2, <1>10
    <3> QED BY <3>1, <3>2
  <2>2. y \notin {first, last, to, h} /\ y \in Ptr
    <3>1. \A i \in Int : Ring(l, s, i) # y /\ Ring(h, t, i) # y
      BY <2>1, LooseIsApart
    <3> QED BY <3>1, <1>3, PointerAssumption DEF first, last, to, Ptr
  <2> QED BY <2>1, <2>2, <1>7 DEF Same
<1> QED BY <1>14, <1>15

\* An entry of no list stays cut while its pointers stay.
LEMMA CutKept ==
  ASSUME NEW hp, NEW ls, LooseAreCut(hp, ls), NEW r, NEW new,
         \A y \in Nodes : Loose(new, y) => (Loose(ls, y) /\ Same(hp, r, y)) \/ Cut(r, y)
  PROVE  LooseAreCut(r, new)
BY DEF LooseAreCut, Cut, Same

-----------------------------------------------------------------------------
(* The invariant *)

LEMMA Initially == Init => IInv
<1> SUFFICES ASSUME Init PROVE IInv
  OBVIOUS
<1>1. /\ \A p \in Ptr : heap.next[p] = IF p \in Heads THEN p ELSE NULL
      /\ \A p \in Ptr : heap.prev[p] = IF p \in Heads THEN p ELSE NULL
      /\ heap \in Heap
  BY DEF Init, Heap, Ptr
<1>2. /\ lists \in [Heads -> Seq(Nodes)] /\ stale = {}
      /\ \A h \in Heads : lists[h] = <<>> /\ Len(lists[h]) = 0 /\ DOMAIN lists[h] = {}
  <2>1. <<>> \in Seq(Nodes)
    BY EmptySeq
  <2> QED BY <2>1 DEF Init
<1>3. Typed(heap, lists, stale)
  BY <1>1, <1>2, PointerAssumption DEF Typed, Ptr
<1>4. ASSUME NEW h \in Heads
      PROVE  Rings(heap, h, lists[h])
  <2>1. \A i \in 0 .. 1 : Ring(h, lists[h], i) = h
    BY <1>2 DEF Ring
  <2>2. heap.next[h] = h /\ heap.prev[h] = h
    BY <1>1 DEF Ptr
  <2> QED BY <2>1, <2>2, <1>2 DEF Rings
<1>5. Good(heap, lists, stale)
  BY <1>2, <1>3, <1>4 DEF Good, Injective
<1>6. LooseAreCut(heap, lists)
  BY <1>1, PointerAssumption DEF LooseAreCut, Cut, Ptr
<1> QED BY <1>5, <1>6 DEF IInv

LEMMA InitListHeadKeeps == ASSUME IInv, NEW p \in Ptr, InitListHead(p) PROVE IInv'
<1>1. Good(heap, lists, stale) /\ LooseAreCut(heap, lists)
  BY DEF IInv
<1>2. heap' = Initialised(heap, p) /\ stale' = stale \ {p} /\ lists' = lists
  BY DEF InitListHead
<1>3. CASE p \in Heads
  <2>1. Good(heap', lists', stale') /\ \A y \in Ptr : y # p => Same(heap, heap', y)
    BY <1>1, <1>2, <1>3, HeadInitialised DEF InitListHead
  <2>2. LooseAreCut(heap', lists')
    BY <2>1, <1>1, <1>2, <1>3, PointerAssumption, CutKept DEF Ptr
  <2> QED BY <2>1, <2>2 DEF IInv
<1>4. CASE p \in Nodes
  <2>1. Loose(lists, p) /\ p \notin Heads /\ stale \ {p} = stale
    BY <1>1, <1>4, PointerAssumption DEF InitListHead, Good, Typed
  <2>2. Good(heap', lists', stale') /\ \A y \in Ptr : y # p => Same(heap, heap', y)
    BY <1>1, <1>2, <1>4, <2>1, LooseWritten
  <2>3. Cut(heap', p)
    BY <1>1, <1>2, <1>4, InitialisedFields DEF Cut, Good, Typed, Ptr
  <2>4. LooseAreCut(heap', lists')
    BY <2>2, <2>3, <1>1, <1>2, CutKept DEF Ptr
  <2> QED BY <2>2, <2>4 DEF IInv
<1> QED BY <1>3, <1>4 DEF Ptr

\* What list_add, list_add_tail and the second half of the moves give.
LEMMA GainedKeeps ==
  ASSUME NEW hp, NEW ls, NEW st, LooseAreCut(hp, ls), NEW x \in Nodes, NEW r, NEW new,
         Gained(hp, ls, st, x, r, new)
  PROVE  Good(r, new, st) /\ LooseAreCut(r, new)
BY CutKept DEF Gained

LEMMA ListAddKeeps ==
  ASSUME IInv, NEW x \in Nodes, NEW h \in Heads, ListAdd(x, h) \/ ListAddTail(x, h)
  PROVE  IInv'
<1>1. Good(heap, lists, stale) /\ LooseAreCut(heap, lists)
  BY DEF IInv
<1>2. /\ Loose(lists, x) /\ h \in Heads \ stale /\ stale' = stale
      /\ \/ heap' = AddedFirst(heap, x, h) /\ lists' = [lists EXCEPT ![h] = <<x>> \o @]
         \/ heap' = AddedLast(heap, x, h) /\ lists' = [lists EXCEPT ![h] = Append(@, x)]
  BY DEF ListAdd, ListAddTail, Usable
<1>3. Gained(heap, lists, stale, x, heap', lists')
  BY <1>1, <1>2, EntryAdded
<1> QED BY <1>1, <1>2, <1>3, GainedKeeps DEF IInv

\* Where the first half of a deletion or a move leads.
LEMMA Unlinks ==
  ASSUME IInv, NEW x \in Nodes, Deletable(x)
  PROVE  /\ Good(Unlinked(heap, x), TakenOut(lists, x), stale)
         /\ Loose(TakenOut(lists, x), x)
         /\ \A y \in Nodes : y # x /\ Loose(TakenOut(lists, x), y) =>
              Loose(lists, y) /\ Same(heap, Unlinked(heap, x), y)
<1>1. Good(heap, lists, stale)
  BY DEF IInv
<1>2. ~Loose(lists, x) \/ (heap.next[x] = x /\ heap.prev[x] = x)
  BY DEF IInv, LooseAreCut, Cut, Deletable
<1> QED BY <1>1, <1>2, EntryTakenOut

LEMMA ListDelKeeps ==
  ASSUME IInv, NEW x \in Nodes, ListDel(x) \/ ListDelInit(x)
  PROVE  IInv'
<1> DEFINE u == Unlinked(heap, x)
           new == TakenOut(lists, x)
<1>1. /\ Deletable(x) /\ lists' = new /\ stale' = stale
      /\ heap' \in {Initialised(u, x), Cleared(u, x)}
  BY DEF ListDel, ListDelInit
<1>2. /\ Good(u, new, stale) /\ Loose(new, x)
      /\ \A y \in Nodes : y # x /\ Loose(new, y) => Loose(lists, y) /\ Same(heap, u, y)
  BY <1>1, Unlinks
<1> HIDE DEF u, new
<1>3. Good(heap', new, stale) /\ \A y \in Ptr : y # x => Same(u, heap', y)
  BY <1>1, <1>2, LooseWritten
<1>4. Cut(heap', x)
  <2>1. u \in Heap /\ x \in Ptr
    BY <1>2 DEF Good, Typed, Ptr
  <2> QED BY <1>1, <2>1, InitialisedFields, ClearedFields DEF Cut
<1>5. \A y \in Nodes : Loose(new, y) => (Loose(lists, y) /\ Same(heap, heap', y)) \/ Cut(heap', y)
  BY <1>2, <1>3, <1>4 DEF Same, Ptr
<1>6. LooseAreCut(heap', new)
  BY <1>5, CutKept DEF IInv
<1> QED BY <1>1, <1>3, <1>6 DEF IInv

LEMMA ListMoveKeeps ==
  ASSUME IInv, NEW x \in Nodes, NEW h \in Heads, ListMove(x, h) \/ ListMoveTail(x, h)
  PROVE  IInv'
<1> DEFINE u == Unlinked(heap, x)
           mid == TakenOut(lists, x)
<1>1. /\ Deletable(x) /\ h \in Heads \ stale /\ stale' = stale
      /\ \/ heap' = AddedFirst(u, x, h) /\ lists' = [mid EXCEPT ![h] = <<x>> \o @]
         \/ heap' = AddedLast(u, x, h) /\ lists' = [mid EXCEPT ![h] = Append(@, x)]
  BY DEF ListMove, ListMoveTail, Usable
<1>2. /\ Good(u, mid, stale) /\ Loose(mid, x)
      /\ \A y \in Nodes : y # x /\ Loose(mid, y) => Loose(lists, y) /\ Same(heap, u, y)
  BY <1>1, Unlinks
<1> HIDE DEF u, mid
<1>3. Gained(u, mid, stale, x, heap', lists')
  BY <1>1, <1>2, EntryAdded
<1>4. \A y \in Nodes : Loose(lists', y) => Loose(lists, y) /\ Same(heap, heap', y)
  BY <1>2, <1>3 DEF Gained, Same
<1>5. LooseAreCut(heap', lists')
  BY <1>4, CutKept DEF IInv
<1> QED BY <1>1, <1>3, <1>5 DEF IInv, Gained

LEMMA ListSpliceKeeps ==
  ASSUME IInv, NEW l \in Heads, NEW h \in Heads, ListSplice(l, h) \/ ListSpliceInit(l, h)
  PROVE  IInv'
<1> DEFINE new == Joined(lists, l, h)
<1>1. /\ Good(heap, lists, stale) /\ LooseAreCut(heap, lists)
      /\ l \in Heads \ stale /\ h \in Heads \ stale /\ l # h /\ lists' = new
  BY DEF IInv, ListSplice, ListSpliceInit, Usable
<1>2. CASE ListEmpty(heap, l)
  <2>1. lists[l] = <<>> /\ heap' = heap /\ stale' = stale
    BY <1>1, <1>2, EmptyRing DEF ListSplice, ListSpliceInit
  <2>2. lists' = lists
    <3>1. lists \in [Heads -> Seq(Nodes)]
      BY <1>1 DEF Good, Typed
    <3>2. <<>> \o lists[h] = lists[h]
      BY <3>1, ConcatEmptySeq
    <3> QED BY <1>1, <2>1, <3>1, <3>2 DEF Joined
  <2> QED BY <1>1, <2>1, <2>2 DEF IInv
<1>3. CASE ~ListEmpty(heap, l)
  <2> DEFINE r == Spliced(heap, l, h)
  <2>1. /\ Good(r, new, stale \cup {l})
        /\ \A y \in Nodes : Loose(new, y) => Loose(lists, y) /\ Same(heap, r, y)
    <3>1. lists[l] # <<>>
      BY <1>1, <1>3, EmptyRing
    <3>2. r = Spliced(heap, l, h) /\ new = Joined(lists, l, h)
      OBVIOUS
    <3> HIDE DEF r, new
    <3> QED BY <1>1, <3>1, <3>2, ListJoined
  <2>2. new[l] = <<>>
    BY <1>1 DEF Good, Typed, Joined
  <2> HIDE DEF r, new
  <2>3. CASE heap' = r /\ stale' = stale \cup {l}
    BY <1>1, <2>1, <2>3, CutKept DEF IInv
  <2>4. CASE heap' = Initialised(r, l) /\ stale' = stale
    <3>1. Good(heap', new, (stale \cup {l}) \ {l}) /\ \A y \in Ptr : y # l => Same(r, heap', y)
      BY <2>1, <2>2, <2>4, HeadInitialised
    <3>2. (stale \cup {l}) \ {l} = stale
      BY <1>1
    <3>3. \A y \in Nodes : Loose(new, y) => Loose(lists, y) /\ Same(heap, heap', y)
      BY <2>1, <3>1, PointerAssumption DEF Same, Ptr
    <3>4. LooseAreCut(heap', new)
      BY <1>1, <3>3, CutKept
    <3> QED BY <1>1, <2>4, <3>1, <3>2, <3>4 DEF IInv
  <2> QED BY <1>3, <2>3, <2>4 DEF ListSplice, ListSpliceInit, r
<1> QED BY <1>2, <1>3

LEMMA Inductive == IInv /\ [Next]_vars => IInv'
<1> SUFFICES ASSUME IInv, [Next]_vars PROVE IInv'
  OBVIOUS
<1>1. ASSUME NEW p \in Ptr, InitListHead(p) PROVE IInv'
  BY <1>1, InitListHeadKeeps
<1>2. ASSUME NEW x \in Nodes, NEW h \in Heads, ListAdd(x, h) \/ ListAddTail(x, h) PROVE IInv'
  BY <1>2, ListAddKeeps
<1>3. ASSUME NEW x \in Nodes, ListDel(x) \/ ListDelInit(x) PROVE IInv'
  BY <1>3, ListDelKeeps
<1>4. ASSUME NEW x \in Nodes, NEW h \in Heads, ListMove(x, h) \/ ListMoveTail(x, h) PROVE IInv'
  BY <1>4, ListMoveKeeps
<1>5. ASSUME NEW l \in Heads, NEW h \in Heads, ListSplice(l, h) \/ ListSpliceInit(l, h) PROVE IInv'
  BY <1>5, ListSpliceKeeps
<1>6. CASE UNCHANGED vars
  BY <1>6 DEF vars, IInv
<1> QED BY <1>1, <1>2, <1>3, <1>4, <1>5, <1>6 DEF Next

\* The pointers represent the lists in every reachable state.
THEOREM Invariance == Spec => []IInv
BY Initially, Inductive, PTL DEF Spec

\* dlist.h, all functions: the variables keep their types, and no field of a
\* list head is ever null.
THEOREM TypeCorrect == Spec => []TypeOK
<1>1. IInv => TypeOK
  BY DEF IInv, Good, TypeOK
<1> QED BY <1>1, Invariance, PTL

\* dlist.h, all functions: after any sequence of legal calls both directions
\* of every list walk through the entries the callers have put there.
THEOREM PointersRepresentLists == Spec => []Linked
<1>1. IInv => Linked
  BY DEF IInv, Good, Linked
<1> QED BY <1>1, Invariance, PTL

-----------------------------------------------------------------------------
(* The loops *)

Kinds == {"off", "each", "prev", "safe"}

LoopTypeOK ==
  it \in [kind: Kinds, head: Ptr \cup {NULL}, pos: Ptr \cup {NULL}, n: Ptr \cup {NULL},
          seen: Seq(Nodes), all: Seq(Nodes)]

\* The list l has the entries of a from position i on at its end.
SameRest(l, a, i) ==
  \A j \in i .. Len(a) : /\ j - (Len(a) - Len(l)) \in 1 .. Len(l)
                         /\ l[j - (Len(a) - Len(l))] = a[j]

Visited == Len(it.seen)

\* What the list that is walked still has of the one the loop began with.
Remains(l) ==
  /\ it.kind = "each" => l = it.all /\ it.head \notin stale
  /\ it.kind = "prev" => it.all = Reverse(l) /\ it.head \notin stale
  /\ it.kind = "safe" =>
       /\ it.pos # it.head => it.n = Ring(it.head, it.all, Visited + 2)
       /\ SameRest(l, it.all, Visited + 2)
       /\ SameRest(l, it.all, Visited + 1) \/ \A i \in DOMAIN l : l[i] # it.pos

OnItsWay ==
  /\ it.head \in Heads
  /\ Visited <= Len(it.all)
  /\ \A i \in 1 .. Visited : it.seen[i] = it.all[i]
  /\ it.pos = Ring(it.head, it.all, Visited + 1)
  /\ Remains(lists[it.head])

LoopIInv == IInv /\ LoopTypeOK /\ (Running => OnItsWay)

-----------------------------------------------------------------------------
(* The steps of a loop *)

LEMMA ReverseFacts ==
  ASSUME NEW s \in Seq(Nodes)
  PROVE  /\ Reverse(s) \in Seq(Nodes) /\ Len(Reverse(s)) = Len(s)
         /\ \A i \in 1 .. Len(s) : Reverse(s)[i] = s[(Len(s) - i) + 1]
<1>1. Len(s) \in Nat /\ \A i \in 1 .. Len(s) : s[i] \in Nodes
  BY LenProperties, ElementOfSeq
<1>2. \A i \in 1 .. Len(s) : (Len(s) - i) + 1 \in 1 .. Len(s)
  BY <1>1
<1>. QED BY <1>1, <1>2 DEF Reverse

\* The reversed ring is the ring, counted from its end.
LEMMA RingReversed ==
  ASSUME NEW h \in Heads, NEW s \in Seq(Nodes), NEW i \in Int
  PROVE  Ring(h, Reverse(s), i) = Ring(h, s, (Len(s) - i) + 1)
<1>1. Len(s) \in Nat BY LenProperties
<1>. QED BY <1>1, ReverseFacts DEF Ring

\* Where the pointers lead from a list's head and from each of its entries.
LEMMA Follow ==
  ASSUME IInv, NEW h \in Heads \ stale, NEW i \in 0 .. Len(lists[h])
  PROVE  /\ heap.next[Ring(h, lists[h], i)] = Ring(h, lists[h], i + 1)
         /\ heap.prev[Ring(h, lists[h], i + 1)] = Ring(h, lists[h], i)
BY DEF IInv, Good, Rings

LEMMA ListFacts ==
  ASSUME IInv, NEW h \in Heads
  PROVE  /\ lists[h] \in Seq(Nodes) /\ Len(lists[h]) \in Nat
         /\ DOMAIN lists[h] = 1 .. Len(lists[h])
         /\ \A i, j \in DOMAIN lists[h] : lists[h][i] = lists[h][j] => i = j
         /\ h \in stale => Len(lists[h]) = 0
<1>1. lists[h] \in Seq(Nodes) BY DEF IInv, Good, Typed
<1>2. Len(lists[h]) \in Nat /\ DOMAIN lists[h] = 1 .. Len(lists[h]) BY <1>1, LenProperties
<1>3. h \in stale => Len(lists[h]) = 0 BY EmptySeq DEF IInv, Good
<1>. QED BY <1>1, <1>2, <1>3 DEF IInv, Good, Injective

LEMMA RestShrinks ==
  ASSUME NEW l, NEW a, Len(a) \in Nat, NEW i \in Int, SameRest(l, a, i)
  PROVE  SameRest(l, a, i + 1)
BY DEF SameRest

\* What is behind an entry of the rest of the list is behind it in the list as
\* it was.
LEMMA FollowRest ==
  ASSUME IInv, NEW h \in Heads, NEW a \in Seq(Nodes), NEW i \in 1 .. Len(a),
         SameRest(lists[h], a, i)
  PROVE  heap.next[a[i]] = Ring(h, a, i + 1)
<1> DEFINE l == lists[h]
           j == i - (Len(a) - Len(l))
<1>1. l \in Seq(Nodes) /\ Len(l) \in Nat /\ (h \in stale => Len(l) = 0) BY ListFacts
<1>2. Len(a) \in Nat BY LenProperties
<1>3. i \in i .. Len(a) BY <1>2
<1>4. j \in 1 .. Len(l) /\ l[j] = a[i] BY <1>3 DEF SameRest
<1>5. h \in Heads \ stale /\ j \in 0 .. Len(l) BY <1>1, <1>4
<1>6. heap.next[Ring(h, l, j)] = Ring(h, l, j + 1) BY <1>5, Follow
<1>7. Ring(h, l, j) = a[i] BY <1>4 DEF Ring
<1>8. CASE i = Len(a)
  <2>1. j = Len(l) BY <1>1, <1>2, <1>8
  <2>2. Ring(h, l, j + 1) = h /\ Ring(h, a, i + 1) = h BY <2>1, <1>1, <1>2, <1>8 DEF Ring
  <2>. QED BY <2>2, <1>6, <1>7
<1>9. CASE i # Len(a)
  <2>1. i + 1 \in i .. Len(a) /\ i + 1 \in 1 .. Len(a) BY <1>2, <1>9
  <2>2. (i + 1) - (Len(a) - Len(l)) = j + 1
    <3> HIDE DEF l
    <3>1. i \in Int /\ Len(a) \in Int /\ Len(l) \in Int BY <1>1, <1>2
    <3>. QED BY <3>1
  <2>3. j + 1 \in 1 .. Len(l) /\ l[j + 1] = a[i + 1] BY <2>1, <2>2 DEF SameRest
  <2>4. Ring(h, l, j + 1) = a[i + 1] BY <2>3 DEF Ring
  <2>5. Ring(h, a, i + 1) = a[i + 1] BY <2>1 DEF Ring
  <2>. QED BY <2>4, <2>5, <1>6, <1>7
<1>. QED BY <1>8, <1>9

LEMMA NextTyped ==
  ASSUME IInv, NEW p \in Ptr
  PROVE  heap.next[p] \in Ptr \cup {NULL} /\ heap.prev[p] \in Ptr \cup {NULL} /\ p # NULL
BY PointerAssumption DEF IInv, Good, Typed, Heap

LEMMA BeginKeeps ==
  ASSUME LoopIInv, NEW kind \in {"each", "prev", "safe"}, NEW h \in Heads, Begin(kind, h)
  PROVE  LoopIInv'
<1> DEFINE l == lists[h]
           first == IF kind = "prev" THEN heap.prev[h] ELSE heap.next[h]
           all == IF kind = "prev" THEN Reverse(l) ELSE l
<1>1. IInv /\ h \in Heads \ stale /\ UNCHANGED vars BY DEF LoopIInv, Begin, Usable
<1>2. /\ it' = [kind |-> kind, head |-> h, pos |-> first, seen |-> <<>>,
                n |-> Following(kind, first), all |-> all]
  BY DEF Begin
<1>3. l \in Seq(Nodes) /\ Len(l) \in Nat BY <1>1, ListFacts
<1>4. all \in Seq(Nodes) /\ Len(all) = Len(l) BY <1>3, ReverseFacts
<1>5. first = Ring(h, all, 1)
  <2>1. 0 \in 0 .. Len(l) /\ Len(l) \in 0 .. Len(l) BY <1>3
  <2>2. /\ heap.next[Ring(h, l, 0)] = Ring(h, l, 0 + 1)
        /\ heap.prev[Ring(h, l, Len(l) + 1)] = Ring(h, l, Len(l))
    BY <2>1, <1>1, Follow
  <2>3. Ring(h, l, 0) = h /\ Ring(h, l, Len(l) + 1) = h BY <1>3, RingFacts
  <2>4. Ring(h, Reverse(l), 1) = Ring(h, l, (Len(l) - 1) + 1) BY <1>3, RingReversed
  <2>5. (Len(l) - 1) + 1 = Len(l) /\ 0 + 1 = 1 BY <1>3
  <2>. QED BY <2>2, <2>3, <2>4, <2>5
<1>6. first \in Ptr
  <2> HIDE DEF all
  <2>1. \A i \in Int : Ring(h, all, i) \in Ptr BY <1>4, RingFacts
  <2>. QED BY <1>5, <2>1
<1>7. Following(kind, first) \in Ptr \cup {NULL} BY <1>1, <1>6, NextTyped DEF Following
<1>8. kind = "safe" /\ first # h => Following(kind, first) = Ring(h, all, 2)
  <2> SUFFICES ASSUME kind = "safe", first # h PROVE Following(kind, first) = Ring(h, all, 2)
    OBVIOUS
  <2>1. all = l /\ 1 \in 1 .. Len(l) /\ l[1] = first BY <1>3, <1>5 DEF Ring
  <2>2. SameRest(l, l, 1) BY <1>3 DEF SameRest
  <2>3. heap.next[l[1]] = Ring(h, l, 1 + 1) BY <1>1, <1>3, <2>1, <2>2, FollowRest
  <2>4. Following(kind, first) = heap.next[first] BY <1>1, <1>6, NextTyped DEF Following
  <2>. QED BY <2>1, <2>3, <2>4
<1>9. SameRest(l, l, 1) /\ SameRest(l, l, 2) BY <1>3 DEF SameRest
<1>10. <<>> \in Seq(Nodes) /\ Len(<<>>) = 0 BY EmptySeq
<1>11. h \in Ptr BY DEF Ptr
<1>12. kind # "prev" => all = l OBVIOUS
<1>13. kind = "prev" => all = Reverse(l) OBVIOUS
<1>14. lists'[h] = l /\ stale' = stale /\ IInv' BY <1>1 DEF vars, IInv
<1> HIDE DEF l, first, all
<1>15. LoopTypeOK' BY <1>2, <1>4, <1>6, <1>7, <1>10, <1>11 DEF LoopTypeOK, Kinds
<1>16. /\ it'.kind = kind /\ it'.head = h /\ it'.pos = first /\ it'.seen = <<>>
       /\ it'.n = Following(kind, first) /\ it'.all = all /\ Visited' = 0
  BY <1>2, <1>10 DEF Visited
<1>17. OnItsWay'
  <2>1. Remains(lists[it.head])'
    <3>1. CASE kind = "each" BY <3>1, <1>1, <1>12, <1>14, <1>16 DEF Remains
    <3>2. CASE kind = "prev" BY <3>2, <1>1, <1>13, <1>14, <1>16 DEF Remains
    <3>3. CASE kind = "safe" BY <3>3, <1>8, <1>9, <1>12, <1>14, <1>16 DEF Remains
    <3>. QED BY <3>1, <3>2, <3>3
  <2>. QED BY <1>3, <1>4, <1>5, <1>16, <2>1 DEF OnItsWay
<1>. QED BY <1>14, <1>15, <1>17 DEF LoopIInv

\* Between two of its steps a loop that has not ended stands on an entry.
LEMMA OnAnEntry ==
  ASSUME LoopIInv, Running, it.pos # it.head
  PROVE  /\ it.head \in Heads /\ it.all \in Seq(Nodes) /\ it.seen \in Seq(Nodes)
         /\ Visited \in Nat /\ Len(it.all) \in Nat /\ Visited + 1 \in 1 .. Len(it.all)
         /\ it.pos = it.all[Visited + 1] /\ it.pos \in Nodes
<1>1. it.head \in Heads /\ it.pos = Ring(it.head, it.all, Visited + 1) BY DEF LoopIInv, OnItsWay
<1>2. it.all \in Seq(Nodes) /\ it.seen \in Seq(Nodes) BY DEF LoopIInv, LoopTypeOK
<1>3. Visited \in Nat /\ Len(it.all) \in Nat BY <1>2, LenProperties DEF Visited
<1>4. Visited + 1 \in 1 .. Len(it.all) /\ it.pos = it.all[Visited + 1] BY <1>1, <1>3 DEF Ring
<1>5. it.pos \in Nodes BY <1>2, <1>4, ElementOfSeq
<1>. QED BY <1>1, <1>2, <1>3, <1>4, <1>5

\* Every kind of loop goes on to the entry that was next when it began.
LEMMA AdvanceFollows ==
  ASSUME LoopIInv, Running, it.pos # it.head
  PROVE  Advance(it.kind) = Ring(it.head, it.all, Visited + 2)
<1> DEFINE h == it.head
           l == lists[h]
           a == it.all
           k == Visited
<1>1. /\ h \in Heads /\ a \in Seq(Nodes) /\ k \in Nat /\ Len(a) \in Nat
      /\ k + 1 \in 1 .. Len(a) /\ it.pos = a[k + 1]
  BY OnAnEntry
<1>2. IInv /\ Remains(l) BY DEF LoopIInv, OnItsWay
<1>3. it.kind \in {"each", "prev", "safe"} BY DEF LoopIInv, LoopTypeOK, Kinds, Running
<1>4. l \in Seq(Nodes) /\ Len(l) \in Nat BY <1>1, <1>2, ListFacts
<1>5. CASE it.kind = "each"
  <2>1. l = a BY <1>2, <1>5 DEF Remains
  <2>2. SameRest(l, a, k + 1) BY <2>1, <1>1 DEF SameRest
  <2>3. heap.next[a[k + 1]] = Ring(h, a, (k + 1) + 1) BY <2>2, <1>1, <1>2, FollowRest
  <2>4. (k + 1) + 1 = k + 2 BY <1>1
  <2>. QED BY <2>3, <2>4, <1>1, <1>5 DEF Advance
<1>6. CASE it.kind = "prev"
  <2>1. a = Reverse(l) /\ h \in Heads \ stale BY <1>1, <1>2, <1>6 DEF Remains
  <2>2. Len(a) = Len(l) BY <2>1, <1>4, ReverseFacts
  <2> DEFINE i == (Len(l) - k) - 1
  <2>3. i \in 0 .. Len(l) /\ i + 1 = (Len(l) - (k + 1)) + 1 /\ i = (Len(l) - (k + 2)) + 1
    <3> HIDE DEF l, k, a
    <3>. QED BY <2>2, <1>1, <1>4
  <2>4. heap.prev[Ring(h, l, i + 1)] = Ring(h, l, i) BY <2>1, <2>3, <1>2, Follow
  <2>5. k + 1 \in Int /\ k + 2 \in Int BY <1>1
  <2>6. Ring(h, a, k + 1) = Ring(h, l, i + 1) /\ Ring(h, a, k + 2) = Ring(h, l, i)
    BY <2>1, <2>3, <2>5, <1>1, <1>4, RingReversed
  <2>7. Ring(h, a, k + 1) = it.pos BY <1>1 DEF Ring
  <2>. QED BY <2>4, <2>6, <2>7, <1>6 DEF Advance
<1>7. CASE it.kind = "safe"
  BY <1>2, <1>7 DEF Remains, Advance
<1>. QED BY <1>3, <1>5, <1>6, <1>7

LEMMA VisitKeeps ==
  ASSUME LoopIInv, Visit
  PROVE  LoopIInv'
<1> DEFINE h == it.head
           l == lists[h]
           a == it.all
           k == Visited
           to == Advance(it.kind)
<1>1. Running /\ it.pos # h /\ UNCHANGED vars BY DEF Visit
<1>2. it' = [it EXCEPT !.pos = to, !.seen = Append(@, it.pos), !.n = Following(it.kind, to)]
  BY DEF Visit
<1>3. /\ h \in Heads /\ a \in Seq(Nodes) /\ it.seen \in Seq(Nodes)
      /\ k \in Nat /\ Len(a) \in Nat /\ k + 1 \in 1 .. Len(a)
      /\ it.pos = a[k + 1] /\ it.pos \in Nodes
  BY <1>1, OnAnEntry
<1>4. to = Ring(h, a, k + 2) BY <1>1, AdvanceFollows
<1>5. IInv /\ Remains(l) BY <1>1 DEF LoopIInv, OnItsWay
<1>6. to \in Ptr
  <2>1. k + 2 \in Int BY <1>3
  <2>. QED BY <2>1, <1>3, <1>4, RingFacts
<1>7. Following(it.kind, to) \in Ptr \cup {NULL} BY <1>5, <1>6, NextTyped DEF Following
<1>8. ASSUME it.kind = "safe", to # h
      PROVE  Following(it.kind, to) = Ring(h, a, k + 3)
  <2>1. k + 2 \in 1 .. Len(a) /\ to = a[k + 2] BY <1>3, <1>4, <1>8 DEF Ring
  <2>2. SameRest(l, a, k + 2) BY <1>5, <1>8 DEF Remains
  <2>3. heap.next[a[k + 2]] = Ring(h, a, (k + 2) + 1) BY <2>1, <2>2, <1>3, <1>5, FollowRest
  <2>4. (k + 2) + 1 = k + 3 BY <1>3
  <2>5. Following(it.kind, to) = heap.next[to] BY <1>5, <1>6, <1>8, NextTyped DEF Following
  <2>. QED BY <2>1, <2>3, <2>4, <2>5
<1> DEFINE seen == Append(it.seen, it.pos)
<1>9. /\ seen \in Seq(Nodes) /\ Len(seen) = k + 1
      /\ \A i \in 1 .. k + 1 : seen[i] = IF i = k + 1 THEN it.pos ELSE it.seen[i]
  BY <1>3 DEF Visited
<1> HIDE DEF to, seen
<1>10. it \in [kind: Kinds, head: Ptr \cup {NULL}, pos: Ptr \cup {NULL}, n: Ptr \cup {NULL},
               seen: Seq(Nodes), all: Seq(Nodes)]
  BY DEF LoopIInv, LoopTypeOK
<1>11. it' = [it EXCEPT !.pos = to, !.seen = seen, !.n = Following(it.kind, to)]
  BY <1>2 DEF seen
<1>12. /\ it'.kind = it.kind /\ it'.head = h /\ it'.all = a /\ it'.pos = to /\ it'.seen = seen
       /\ it'.n = Following(it.kind, to)
  BY <1>10, <1>11
<1>13. LoopTypeOK' BY <1>6, <1>7, <1>9, <1>10, <1>11 DEF LoopTypeOK
<1>14. Visited' = k + 1 BY <1>9, <1>12 DEF Visited
<1>15. lists'[h] = l /\ stale' = stale /\ IInv' BY <1>1, <1>5 DEF vars, IInv
<1>16. OnItsWay'
  <2>1. \A i \in 1 .. k + 1 : seen[i] = a[i]
    <3>1. \A i \in 1 .. k : it.seen[i] = a[i] BY <1>1 DEF LoopIInv, OnItsWay
    <3>. QED BY <3>1, <1>3, <1>9
  <2>2. (k + 1) + 1 = k + 2 /\ (k + 1) + 2 = k + 3 BY <1>3
  <2>3. Remains(lists[it.head])'
    <3>1. it.kind = "safe" => SameRest(l, a, k + 2) BY <1>5 DEF Remains
    <3>2. k + 2 \in Int /\ (k + 2) + 1 = k + 3 BY <1>3
    <3>3. SameRest(l, a, k + 2) => SameRest(l, a, k + 3) BY <3>2, <1>3, RestShrinks
    <3>. QED BY <3>1, <3>3, <2>2, <1>5, <1>8, <1>12, <1>14, <1>15 DEF Remains
  <2>. QED BY <2>1, <2>2, <2>3, <1>3, <1>4, <1>12, <1>14 DEF OnItsWay
<1>. QED BY <1>13, <1>15, <1>16 DEF LoopIInv

LEMMA EndKeeps ==
  ASSUME LoopIInv, End
  PROVE  LoopIInv'
<1>1. it' = Off /\ IInv' BY DEF End, LoopIInv, IInv, vars
<1>2. <<>> \in Seq(Nodes) BY EmptySeq
<1>. QED BY <1>1, <1>2 DEF LoopIInv, LoopTypeOK, Kinds, Off, Running

\* The body of a safe loop takes out the entry the loop stands on.
LEMMA RestStays ==
  ASSUME LoopIInv, Running, it.pos # it.head, it.kind = "safe"
  PROVE  LET l == Without(lists[it.head], it.pos) IN
           /\ SameRest(l, it.all, Visited + 2)
           /\ SameRest(l, it.all, Visited + 1) \/ \A i \in DOMAIN l : l[i] # it.pos
<1> DEFINE l == lists[it.head]
           a == it.all
           k == Visited
           d == Len(a) - Len(l)
           p == CHOOSE i \in DOMAIN l : l[i] = it.pos
           r == RemoveAt(l, p)
<1>1. /\ it.head \in Heads /\ k \in Nat /\ Len(a) \in Nat
      /\ k + 1 \in 1 .. Len(a) /\ it.pos = a[k + 1]
  BY OnAnEntry
<1>2. IInv /\ Remains(l) BY DEF LoopIInv, OnItsWay
<1>3. /\ l \in Seq(Nodes) /\ Len(l) \in Nat /\ DOMAIN l = 1 .. Len(l)
      /\ \A i, j \in DOMAIN l : l[i] = l[j] => i = j
  BY <1>1, <1>2, ListFacts
<1>4. CASE \A i \in DOMAIN l : l[i] # it.pos
  <2>1. Without(l, it.pos) = l BY <1>4 DEF Without
  <2>. QED BY <2>1, <1>2, <1>4 DEF Remains
<1>5. CASE \E i \in DOMAIN l : l[i] = it.pos
  <2>1. SameRest(l, a, k + 1) BY <1>2, <1>5 DEF Remains
  <2>2. k + 1 \in (k + 1) .. Len(a) BY <1>1
  <2>3. (k + 1) - d \in 1 .. Len(l) /\ l[(k + 1) - d] = it.pos BY <2>1, <2>2, <1>1 DEF SameRest
  <2>4. p \in DOMAIN l /\ l[p] = it.pos BY <1>5
  <2>5. Without(l, it.pos) = r BY <1>5 DEF Without
  <2> HIDE DEF p
  <2>6. p = (k + 1) - d BY <2>3, <2>4, <1>3
  <2>7. /\ r \in Seq(Nodes) /\ Len(r) = Len(l) - 1
        /\ \A j \in 1 .. Len(l) - 1 : r[j] = IF j < p THEN l[j] ELSE l[j + 1]
    BY <2>4, <1>3, RemoveAtFacts
  <2>8. DOMAIN r = 1 .. Len(l) - 1 BY <2>7, LenProperties
  <2> HIDE DEF r, l, a, k
  <2>9. SameRest(r, a, k + 2)
    <3> SUFFICES ASSUME NEW j \in (k + 2) .. Len(a)
                 PROVE  /\ j - (Len(a) - Len(r)) \in 1 .. Len(r)
                        /\ r[j - (Len(a) - Len(r))] = a[j]
      BY DEF SameRest
    <3>1. j \in (k + 1) .. Len(a) BY <1>1
    <3>2. j - d \in 1 .. Len(l) /\ l[j - d] = a[j] BY <2>1, <3>1 DEF SameRest
    <3> DEFINE q == (j - d) - 1
    <3>3. j - (Len(a) - Len(r)) = q BY <2>7, <1>1, <1>3
    <3>4. q \in 1 .. Len(l) - 1 /\ q >= p /\ q + 1 = j - d
      BY <2>3, <2>6, <3>2, <1>1, <1>3
    <3>5. r[q] = l[q + 1]
      <4>1. p \in Int BY <2>4, <1>3
      <4> HIDE DEF q
      <4>2. q \in 1 .. Len(l) - 1 /\ q \in Int /\ ~(q < p) BY <3>4, <4>1, <1>3
      <4>. QED BY <2>7, <4>2
    <3>. QED BY <2>7, <3>2, <3>3, <3>4, <3>5
  <2>10. \A i \in DOMAIN r : r[i] # it.pos
    <3> SUFFICES ASSUME NEW i \in 1 .. Len(l) - 1 PROVE r[i] # it.pos BY <2>8
    <3>1. PICK j \in 1 .. Len(l) : r[i] = l[j] /\ j # p BY <2>4, <2>7, <1>3
    <3>. QED BY <3>1, <2>4, <1>3
  <2>. QED BY <2>5, <2>9, <2>10 DEF l, a, k
<1>. QED BY <1>4, <1>5

LEMMA CallKeeps ==
  ASSUME LoopIInv, Call
  PROVE  LoopIInv'
<1>1. IInv' BY Inductive DEF LoopIInv, Call
<1>2. it' = it /\ (Running => it.pos # it.head /\ BodyKeeps) BY DEF Call
<1>3. LoopTypeOK' BY <1>2 DEF LoopIInv, LoopTypeOK
<1>4. ASSUME Running PROVE OnItsWay'
  <2>1. OnItsWay /\ it.pos # it.head BY <1>2, <1>4 DEF LoopIInv
  <2>2. Visited' = Visited BY <1>2 DEF Visited
  <2>3. CASE lists'[it.head] = lists[it.head] /\ it.head \notin stale'
    BY <2>1, <2>2, <2>3, <1>2 DEF OnItsWay, Remains
  <2>4. CASE it.kind = "safe" /\ lists'[it.head] = Without(lists[it.head], it.pos)
    <3> DEFINE l == Without(lists[it.head], it.pos)
    <3>1. /\ SameRest(l, it.all, Visited + 2)
          /\ SameRest(l, it.all, Visited + 1) \/ \A i \in DOMAIN l : l[i] # it.pos
      BY <2>1, <2>4, <1>4, RestStays
    <3>2. it.n = Ring(it.head, it.all, Visited + 2) BY <2>1, <2>4 DEF OnItsWay, Remains
    <3>3. lists'[it.head] = l BY <2>4
    <3> HIDE DEF l
    <3>. QED BY <3>1, <3>2, <3>3, <2>1, <2>2, <2>4, <1>2 DEF OnItsWay, Remains
  <2>. QED BY <2>3, <2>4, <1>2, <1>4 DEF BodyKeeps
<1>5. Running' => Running BY <1>2 DEF Running
<1>. QED BY <1>1, <1>3, <1>4, <1>5 DEF LoopIInv

-----------------------------------------------------------------------------
(* The invariant and what it gives *)

LEMMA LoopInitially == LoopInit => LoopIInv
<1> SUFFICES ASSUME LoopInit PROVE LoopIInv OBVIOUS
<1>1. IInv BY Initially DEF LoopInit
<1>2. <<>> \in Seq(Nodes) BY EmptySeq
<1>. QED BY <1>1, <1>2 DEF LoopInit, LoopIInv, LoopTypeOK, Kinds, Off, Running

LEMMA LoopInductive == LoopIInv /\ [LoopNext]_loopVars => LoopIInv'
<1> SUFFICES ASSUME LoopIInv, [LoopNext]_loopVars PROVE LoopIInv' OBVIOUS
<1>1. ASSUME NEW kind \in {"each", "prev", "safe"}, NEW h \in Heads, Begin(kind, h)
      PROVE  LoopIInv'
  BY <1>1, BeginKeeps
<1>2. CASE Visit BY <1>2, VisitKeeps
<1>3. CASE End BY <1>3, EndKeeps
<1>4. CASE Call BY <1>4, CallKeeps
<1>5. CASE UNCHANGED loopVars
  <2>1. UNCHANGED <<heap, lists, stale, it>> BY <1>5 DEF loopVars, vars
  <2>. QED BY <2>1 DEF LoopIInv, IInv, LoopTypeOK, Running, OnItsWay, Remains, Visited
<1>. QED BY <1>1, <1>2, <1>3, <1>4, <1>5 DEF LoopNext, Walk

LEMMA VisitsAll == LoopIInv => LoopsVisitAll
<1> SUFFICES ASSUME LoopIInv, Running
             PROVE  /\ it.pos # NULL
                    /\ IsPrefix(it.seen, it.all)
                    /\ it.pos = it.head => it.seen = it.all
  BY DEF LoopsVisitAll
<1>1. OnItsWay BY DEF LoopIInv
<1>2. it.seen \in Seq(Nodes) /\ it.all \in Seq(Nodes) BY DEF LoopIInv, LoopTypeOK
<1>3. Visited \in Nat /\ Len(it.all) \in Nat /\ Visited <= Len(it.all)
  BY <1>1, <1>2, LenProperties DEF OnItsWay, Visited
<1>4. \A i \in 1 .. Visited : it.seen[i] = it.all[i] BY <1>1 DEF OnItsWay
<1>5. it.head \in Heads /\ it.pos = Ring(it.head, it.all, Visited + 1) BY <1>1 DEF OnItsWay
<1>6. it.pos # NULL
  <2>1. Visited + 1 \in Int BY <1>3
  <2>2. it.pos \in Ptr BY <2>1, <1>2, <1>5, RingFacts
  <2>. QED BY <2>2, PointerAssumption
<1>7. IsPrefix(it.seen, it.all)
  <2> DEFINE s == SubSeq(it.seen, 1, Visited)
             t == SubSeq(it.all, 1, Visited)
  <2>1. /\ \A i \in 1 .. Visited : it.seen[i] \in Nodes
        /\ \A i \in 1 .. Visited : it.all[i] \in Nodes
    <3>1. \A i \in 1 .. Visited : i \in 1 .. Len(it.all) BY <1>3
    <3>. QED BY <3>1, <1>2, ElementOfSeq DEF Visited
  <2>2. 1 \in Int /\ Visited \in Int BY <1>3
  <2>3. /\ s \in Seq(Nodes) /\ Len(s) = IF 1 <= Visited THEN Visited - 1 + 1 ELSE 0
        /\ \A i \in 1 .. Visited - 1 + 1 : s[i] = it.seen[1 + i - 1]
    BY <2>1, <2>2, SubSeqProperties
  <2>4. /\ t \in Seq(Nodes) /\ Len(t) = IF 1 <= Visited THEN Visited - 1 + 1 ELSE 0
        /\ \A i \in 1 .. Visited - 1 + 1 : t[i] = it.all[1 + i - 1]
    BY <2>1, <2>2, SubSeqProperties
  <2> HIDE DEF s, t
  <2>5. \A i \in 1 .. Len(s) : s[i] = t[i] BY <2>3, <2>4, <1>3, <1>4
  <2>6. s = t BY <2>3, <2>4, <2>5, SeqEqual
  <2>. QED BY <2>6, <1>3 DEF IsPrefix, s, t, Visited
<1>8. ASSUME it.pos = it.head PROVE it.seen = it.all
  <2>1. Visited = Len(it.all)
    <3> SUFFICES ASSUME Visited + 1 \in 1 .. Len(it.all) PROVE FALSE BY <1>3
    <3>1. it.pos = it.all[Visited + 1] BY <1>5 DEF Ring
    <3>2. it.pos \in Nodes BY <3>1, <1>2, ElementOfSeq
    <3>. QED BY <3>2, <1>5, <1>8, PointerAssumption
  <2>. QED BY <2>1, <1>2, <1>4, SeqEqual DEF Visited
<1>. QED BY <1>6, <1>7, <1>8

\* list_for_each, list_for_each_prev, list_for_each_safe: a loop never follows
\* a null pointer and gives its body every entry of the list once, in order;
\* list_for_each_safe also if the body takes the current entry out.
THEOREM EveryEntryIsVisited == LoopSpec => []LoopsVisitAll
BY LoopInitially, LoopInductive, VisitsAll, PTL DEF LoopSpec

\* The loops and their bodies leave the lists linked in both directions.
THEOREM LoopsKeepListsLinked == LoopSpec => []Linked
<1>1. LoopIInv => Linked BY DEF LoopIInv, IInv, Good, Linked
<1>. QED BY <1>1, LoopInitially, LoopInductive, PTL DEF LoopSpec
=============================================================================
