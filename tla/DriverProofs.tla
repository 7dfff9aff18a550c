---------------------------- MODULE DriverProofs -----------------------------
(***************************************************************************)
(* What the drivers of two serial buses promise: the GPS receiver over     *)
(* SPI, and the bit-banged I2C master.                                     *)
(*                                                                         *)
(* What the GPS code sends is a position the receiver has found, with one  *)
(* exception, for any positions, wherever in two of the receiver's         *)
(* sentences a transfer begins and ends, and however its event falls.      *)
(*                                                                         *)
(* gps_analyse knows a position by two lengths only: the third token has   *)
(* ten characters, the fifth eleven.  The lemmas say how far that goes.    *)
(* Eleven characters are a longitude, or the end of one sentence with the  *)
(* name of the next, or what a transfer has left of such an end; for each  *)
(* of them the token before the one before is looked up: the latitude of   *)
(* the longitude, or something without ten characters, or - behind GLL     *)
(* only - the time, which is the exception.  A count of the tokens then    *)
(* shows that the third one is the one so looked up.                       *)
(*                                                                         *)
(* The two lines of the I2C bus show exactly the transfer that was asked   *)
(* for, and a read stores the bytes the slave sent, for any addresses,     *)
(* registers, bytes and lengths, whatever the slave answers.  The          *)
(* inductive invariant has a condition in front of every pin operation of  *)
(* every function - the levels, the bits counted so far and the byte they  *)
(* are of - and the place of the function in its call, which says how many *)
(* events the observer has seen by then and how many bytes are stored.     *)
(***************************************************************************)
EXTENDS GpsSpi, GpioI2c, SequenceLemmas

(* GPS receiver *)

(* What stands in front of eleven characters *)

\* A pair gps_analyse rejects, or a position, or the time with what may be cut
\* to eleven characters.
Good(p, q) ==
  \/ \E f \in Fixes : p = Lat(f) /\ q = Lon(f)
  \/ p.len # 10
  \/ p = Time /\ q.len = 12

\* The token before the one before x[e] makes a good pair with it.
Preceded(x, e) ==
  \E d, c \in DOMAIN x :
    /\ d < c /\ c < e
    /\ x[d].len # 0 /\ x[c].len # 0
    /\ \A k \in DOMAIN x : d < k /\ k < e /\ x[k].len # 0 => k = c
    /\ Good(x[d], x[e])

\* The text s behind the piece h.
HeadedBy(h, s) == [k \in 0 .. Len(s) |-> IF k = 0 THEN h ELSE s[k]]

LEMMA PieceFacts ==
  /\ None.len = 0 /\ Tag.len = 6 /\ Time.len = 10 /\ Letter.len = 1 /\ Number.len = 4 /\ Date.len = 6
  /\ Join(5).len = 11 /\ Join(6).len = 12
  /\ \A n : Piece(n, "cut").len = n
  /\ \A f : Lat(f).len = 10 /\ Lon(f).len = 11
  BY DEF None, Tag, Time, Letter, Number, Date, Piece, Join, Lat, Lon

LEMMA PieceTypes ==
  /\ None \in Pieces /\ Tag \in Pieces /\ Time \in Pieces /\ Letter \in Pieces /\ Number \in Pieces
  /\ Date \in Pieces /\ Join(5) \in Pieces /\ Join(6) \in Pieces
  /\ \A n \in 0 .. 12 : Piece(n, "cut") \in Pieces
  /\ \A f \in Fixes : Lat(f) \in Pieces /\ Lon(f) \in Pieces
  BY DEF None, Tag, Time, Letter, Number, Date, Piece, Join, Lat, Lon, Pieces

\* What the proof needs of a sentence: behind any piece that is no latitude
\* each of its long pieces is preceded as it should be.
Fenced(s) ==
  /\ s \in Seq(Pieces) /\ Len(s) >= 1
  /\ s[Len(s)].len \in {11, 12}
  /\ \A h \in Pieces : h.len \notin {0, 10} =>
       \A e \in 1 .. Len(s) : s[e].len >= 11 => Preceded(HeadedBy(h, s), e)

LEMMA Heading ==
  ASSUME NEW h, NEW s \in Seq(Pieces)
  PROVE  /\ DOMAIN HeadedBy(h, s) = 0 .. Len(s)
         /\ HeadedBy(h, s)[0] = h
         /\ \A k \in 1 .. Len(s) : HeadedBy(h, s)[k] = s[k]
<1>1. Len(s) \in Nat BY LenProperties
<1>. QED BY <1>1 DEF HeadedBy

LEMMA FoundIsFenced ==
  ASSUME NEW f \in Fixes, NEW u \in Found(f)
  PROVE  Fenced(u)
<1> USE PieceFacts, PieceTypes
<1>1. CASE u = GGA(Lat(f), Letter, Lon(f), Letter)
  <2> DEFINE s == <<Time, Lat(f), Letter, Lon(f), Letter,
                    Letter, Number, Number, Number, Letter, Number, Letter, None, Join(5)>>
  <2>1. s \in Seq(Pieces) /\ Len(s) = 14 OBVIOUS
  <2>2. /\ s[2] = Lat(f) /\ s[3] = Letter /\ s[4] = Lon(f) /\ s[11] = Number
        /\ s[12] = Letter /\ s[13] = None /\ s[14] = Join(5)
    OBVIOUS
  <2>3. \A e \in 1 .. 14 : s[e].len >= 11 => e \in {4, 14} OBVIOUS
  <2> HIDE DEF s
  <2>4. s \in Seq(Pieces) BY <2>1
  <2>5. ASSUME NEW h \in Pieces, h.len \notin {0, 10}, NEW e \in 1 .. 14, s[e].len >= 11
        PROVE  Preceded(HeadedBy(h, s), e)
    <3> DEFINE x == HeadedBy(h, s)
    <3>1. DOMAIN x = 0 .. Len(s) /\ x[0] = h /\ \A k \in 1 .. Len(s) : x[k] = s[k]
      BY ONLY <2>4, Heading DEF x
    <3> HIDE DEF x
    <3>2. CASE e = 4
      <4>1. x[2] = Lat(f) /\ x[3] = Letter /\ x[4] = Lon(f) BY <2>1, <2>2, <3>1
      <4>2. Good(x[2], x[4]) BY <2>2, <4>1 DEF Good
      <4>. QED BY <2>1, <3>1, <3>2, <4>1, <4>2 DEF Preceded, x
    <3>3. CASE e = 14
      <4>1. x[11] = Number /\ x[12] = Letter /\ x[13] = None BY <2>1, <2>2, <3>1
      <4>2. Good(x[11], x[14]) BY <2>2, <4>1 DEF Good
      <4>. QED BY <2>1, <3>1, <3>3, <4>1, <4>2 DEF Preceded, x
    <3>. QED BY <2>3, <2>5, <3>2, <3>3
  <2>6. s[Len(s)].len \in {11, 12} /\ Len(s) >= 1 BY <2>1, <2>2
  <2>7. Fenced(s) BY <2>1, <2>5, <2>6 DEF Fenced
  <2>. QED BY <1>1, <2>7 DEF s, GGA
<1>2. CASE u = <<Time, Letter, Lat(f), Letter, Lon(f), Letter, Number, Number, Date, None, None, Join(6)>>
  <2> DEFINE s == <<Time, Letter, Lat(f), Letter, Lon(f), Letter, Number, Number, Date, None, None, Join(6)>>
  <2>1. s \in Seq(Pieces) /\ Len(s) = 12 OBVIOUS
  <2>2. /\ s[3] = Lat(f) /\ s[4] = Letter /\ s[5] = Lon(f) /\ s[8] = Number
        /\ s[9] = Date /\ s[10] = None /\ s[11] = None /\ s[12] = Join(6)
    OBVIOUS
  <2>3. \A e \in 1 .. 12 : s[e].len >= 11 => e \in {5, 12} OBVIOUS
  <2> HIDE DEF s
  <2>4. s \in Seq(Pieces) BY <2>1
  <2>5. ASSUME NEW h \in Pieces, h.len \notin {0, 10}, NEW e \in 1 .. 12, s[e].len >= 11
        PROVE  Preceded(HeadedBy(h, s), e)
    <3> DEFINE x == HeadedBy(h, s)
    <3>1. DOMAIN x = 0 .. Len(s) /\ x[0] = h /\ \A k \in 1 .. Len(s) : x[k] = s[k]
      BY ONLY <2>4, Heading DEF x
    <3> HIDE DEF x
    <3>2. CASE e = 5
      <4>1. x[3] = Lat(f) /\ x[4] = Letter /\ x[5] = Lon(f) BY <2>1, <2>2, <3>1
      <4>2. Good(x[3], x[5]) BY <2>2, <4>1 DEF Good
      <4>. QED BY <2>1, <3>1, <3>2, <4>1, <4>2 DEF Preceded, x
    <3>3. CASE e = 12
      <4>1. x[8] = Number /\ x[9] = Date /\ x[10] = None /\ x[11] = None BY <2>1, <2>2, <3>1
      <4>2. Good(x[8], x[12]) BY <2>2, <4>1 DEF Good
      <4>. QED BY <2>1, <3>1, <3>3, <4>1, <4>2 DEF Preceded, x
    <3>. QED BY <2>3, <2>5, <3>2, <3>3
  <2>6. s[Len(s)].len \in {11, 12} /\ Len(s) >= 1 BY <2>1, <2>2
  <2>7. Fenced(s) BY <2>1, <2>5, <2>6 DEF Fenced
  <2>. QED BY <1>2, <2>7 DEF s
<1>3. CASE u = <<Lat(f), Letter, Lon(f), Letter, Time, Letter, Join(6)>>
  <2> DEFINE s == <<Lat(f), Letter, Lon(f), Letter, Time, Letter, Join(6)>>
  <2>1. s \in Seq(Pieces) /\ Len(s) = 7 OBVIOUS
  <2>2. /\ s[1] = Lat(f) /\ s[2] = Letter /\ s[3] = Lon(f) /\ s[5] = Time
        /\ s[6] = Letter /\ s[7] = Join(6)
    OBVIOUS
  <2>3. \A e \in 1 .. 7 : s[e].len >= 11 => e \in {3, 7} OBVIOUS
  <2> HIDE DEF s
  <2>4. s \in Seq(Pieces) BY <2>1
  <2>5. ASSUME NEW h \in Pieces, h.len \notin {0, 10}, NEW e \in 1 .. 7, s[e].len >= 11
        PROVE  Preceded(HeadedBy(h, s), e)
    <3> DEFINE x == HeadedBy(h, s)
    <3>1. DOMAIN x = 0 .. Len(s) /\ x[0] = h /\ \A k \in 1 .. Len(s) : x[k] = s[k]
      BY ONLY <2>4, Heading DEF x
    <3> HIDE DEF x
    <3>2. CASE e = 3
      <4>1. x[1] = Lat(f) /\ x[2] = Letter /\ x[3] = Lon(f) BY <2>1, <2>2, <3>1
      <4>2. Good(x[1], x[3]) BY <2>2, <4>1 DEF Good
      <4>. QED BY <2>1, <3>1, <3>2, <4>1, <4>2 DEF Preceded, x
    <3>3. CASE e = 7
      <4>1. x[5] = Time /\ x[6] = Letter /\ x[7] = Join(6) BY <2>1, <2>2, <3>1
      <4>2. Good(x[5], x[7]) BY <2>2, <4>1, <2>1, <3>1 DEF Good
      <4>. QED BY <2>1, <3>1, <3>3, <4>1, <4>2 DEF Preceded, x
    <3>. QED BY <2>3, <2>5, <3>2, <3>3
  <2>6. s[Len(s)].len \in {11, 12} /\ Len(s) >= 1 BY <2>1, <2>2
  <2>7. Fenced(s) BY <2>1, <2>5, <2>6 DEF Fenced
  <2>. QED BY <1>3, <2>7 DEF s
<1>. QED BY <1>1, <1>2, <1>3 DEF Found

LEMMA NotFoundIsFenced ==
  ASSUME NEW u \in NotFound
  PROVE  Fenced(u)
<1> USE PieceFacts, PieceTypes
<1>1. CASE u = GGA(None, None, None, None)
  <2> DEFINE s == <<Time, None, None, None, None,
                    Letter, Number, Number, Number, Letter, Number, Letter, None, Join(5)>>
  <2>1. s \in Seq(Pieces) /\ Len(s) = 14 OBVIOUS
  <2>2. s[11] = Number /\ s[12] = Letter /\ s[13] = None /\ s[14] = Join(5) OBVIOUS
  <2>3. \A e \in 1 .. 14 : s[e].len >= 11 => e = 14 OBVIOUS
  <2> HIDE DEF s
  <2>4. s \in Seq(Pieces) BY <2>1
  <2>5. ASSUME NEW h \in Pieces, h.len \notin {0, 10}, NEW e \in 1 .. 14, s[e].len >= 11
        PROVE  Preceded(HeadedBy(h, s), e)
    <3> DEFINE x == HeadedBy(h, s)
    <3>1. DOMAIN x = 0 .. Len(s) /\ x[0] = h /\ \A k \in 1 .. Len(s) : x[k] = s[k]
      BY ONLY <2>4, Heading DEF x
    <3> HIDE DEF x
    <3>2. CASE e = 14
      <4>1. x[11] = Number /\ x[12] = Letter /\ x[13] = None BY <2>1, <2>2, <3>1
      <4>2. Good(x[11], x[14]) BY <2>2, <4>1 DEF Good
      <4>. QED BY <2>1, <3>1, <3>2, <4>1, <4>2 DEF Preceded, x
    <3>. QED BY <2>3, <2>5, <3>2
  <2>6. s[Len(s)].len \in {11, 12} /\ Len(s) >= 1 BY <2>1, <2>2
  <2>7. Fenced(s) BY <2>1, <2>5, <2>6 DEF Fenced
  <2>. QED BY <1>1, <2>7 DEF s, GGA
<1>2. CASE u = <<None, Letter, None, None, None, None, None, None, None, None, None, Join(6)>>
  <2> DEFINE s == <<None, Letter, None, None, None, None, None, None, None, None, None, Join(6)>>
  <2>1. s \in Seq(Pieces) /\ Len(s) = 12 OBVIOUS
  <2>2. /\ s[1] = None /\ s[2] = Letter /\ s[3] = None /\ s[4] = None
        /\ s[5] = None /\ s[6] = None /\ s[7] = None /\ s[8] = None
        /\ s[9] = None /\ s[10] = None /\ s[11] = None /\ s[12] = Join(6)
    OBVIOUS
  <2>3. \A e \in 1 .. 12 : s[e].len >= 11 => e = 12 OBVIOUS
  <2> HIDE DEF s
  <2>4. s \in Seq(Pieces) BY <2>1
  <2>5. ASSUME NEW h \in Pieces, h.len \notin {0, 10}, NEW e \in 1 .. 12, s[e].len >= 11
        PROVE  Preceded(HeadedBy(h, s), e)
    <3> DEFINE x == HeadedBy(h, s)
    <3>1. DOMAIN x = 0 .. Len(s) /\ x[0] = h /\ \A k \in 1 .. Len(s) : x[k] = s[k]
      BY ONLY <2>4, Heading DEF x
    <3> HIDE DEF x
    <3>2. CASE e = 12
      <4>1. /\ x[1] = None /\ x[2] = Letter /\ x[3] = None /\ x[4] = None /\ x[5] = None /\ x[6] = None
            /\ x[7] = None /\ x[8] = None /\ x[9] = None /\ x[10] = None /\ x[11] = None
        BY <2>1, <2>2, <3>1
      <4>2. Good(x[0], x[12]) BY <2>5, <3>1 DEF Good
      <4>. QED BY <2>1, <2>5, <3>1, <3>2, <4>1, <4>2 DEF Preceded, x
    <3>. QED BY <2>3, <2>5, <3>2
  <2>6. s[Len(s)].len \in {11, 12} /\ Len(s) >= 1 BY <2>1, <2>2
  <2>7. Fenced(s) BY <2>1, <2>5, <2>6 DEF Fenced
  <2>. QED BY <1>2, <2>7 DEF s
<1>3. CASE u = <<None, None, None, None, Time, Letter, Join(6)>>
  <2> DEFINE s == <<None, None, None, None, Time, Letter, Join(6)>>
  <2>1. s \in Seq(Pieces) /\ Len(s) = 7 OBVIOUS
  <2>2. s[5] = Time /\ s[6] = Letter /\ s[7] = Join(6) OBVIOUS
  <2>3. \A e \in 1 .. 7 : s[e].len >= 11 => e = 7 OBVIOUS
  <2> HIDE DEF s
  <2>4. s \in Seq(Pieces) BY <2>1
  <2>5. ASSUME NEW h \in Pieces, h.len \notin {0, 10}, NEW e \in 1 .. 7, s[e].len >= 11
        PROVE  Preceded(HeadedBy(h, s), e)
    <3> DEFINE x == HeadedBy(h, s)
    <3>1. DOMAIN x = 0 .. Len(s) /\ x[0] = h /\ \A k \in 1 .. Len(s) : x[k] = s[k]
      BY ONLY <2>4, Heading DEF x
    <3> HIDE DEF x
    <3>2. CASE e = 7
      <4>1. x[5] = Time /\ x[6] = Letter /\ x[7] = Join(6) BY <2>1, <2>2, <3>1
      <4>2. Good(x[5], x[7]) BY <2>2, <4>1, <2>1, <3>1 DEF Good
      <4>. QED BY <2>1, <3>1, <3>2, <4>1, <4>2 DEF Preceded, x
    <3>. QED BY <2>3, <2>5, <3>2
  <2>6. s[Len(s)].len \in {11, 12} /\ Len(s) >= 1 BY <2>1, <2>2
  <2>7. Fenced(s) BY <2>1, <2>5, <2>6 DEF Fenced
  <2>. QED BY <1>3, <2>7 DEF s
<1>. QED BY <1>1, <1>2, <1>3 DEF NotFound

LEMMA SentencesAreFenced ==
  ASSUME NEW s \in Sentences
  PROVE  Fenced(s)
  BY FoundIsFenced, NotFoundIsFenced DEF Sentences

-----------------------------------------------------------------------------
(* What a transfer reads *)

\* A part of a text says as much of its pieces as the whole does.
LEMMA Within ==
  ASSUME NEW n \in Nat, NEW x, DOMAIN x = 0 .. n, NEW e \in 1 .. n, Preceded(x, e),
         NEW m \in Nat, NEW P, DOMAIN P = 1 .. m, NEW o \in 1 .. m, o + n <= m,
         \A k \in 0 .. n : P[o + k] = x[k]
  PROVE  Preceded(P, o + e)
<1>1. PICK d \in 0 .. n, c \in 0 .. n :
        /\ d < c /\ c < e
        /\ x[d].len # 0 /\ x[c].len # 0
        /\ \A k \in 0 .. n : d < k /\ k < e /\ x[k].len # 0 => k = c
        /\ Good(x[d], x[e])
  BY DEF Preceded
<1>2. o + d \in 1 .. m /\ o + c \in 1 .. m /\ o + d < o + c /\ o + c < o + e BY <1>1
<1>3. P[o + d] = x[d] /\ P[o + c] = x[c] /\ P[o + e] = x[e] OBVIOUS
<1>4. ASSUME NEW k \in 1 .. m, o + d < k, k < o + e, P[k].len # 0
      PROVE  k = o + c
  <2>1. PICK j \in 0 .. n : k = o + j /\ d < j /\ j < e
    <3>1. k - o \in 0 .. n /\ k = o + (k - o) /\ d < k - o /\ k - o < e BY <1>1, <1>4
    <3>. QED BY <3>1
  <2>2. P[k] = x[j] BY <2>1
  <2>3. j = c BY <1>1, <1>4, <2>1, <2>2
  <2>. QED BY <2>1, <2>3
<1>. QED BY <1>1, <1>2, <1>3, <1>4 DEF Preceded

LEMMA TextFacts ==
  ASSUME NEW s \in Sentences, NEW t \in Sentences
  PROVE  /\ Text(s, t) \in Seq(Pieces)
         /\ \A e \in 1 .. Len(Text(s, t)) :
              Text(s, t)[e].len >= 11 => Preceded(Text(s, t), e)
<1> DEFINE g == <<Tag>>
           gs == g \o s
           P == gs \o t
           m == Len(s)
           n == Len(t)
<1>1. Fenced(s) /\ Fenced(t) BY SentencesAreFenced
<1>2. /\ s \in Seq(Pieces) /\ t \in Seq(Pieces)
      /\ m \in Nat \ {0} /\ n \in Nat \ {0}
      /\ s[m] \in Pieces /\ s[m].len \notin {0, 10}
  <2>1. s \in Seq(Pieces) /\ t \in Seq(Pieces) BY <1>1 DEF Fenced
  <2>2. m \in Nat /\ n \in Nat BY <2>1, LenProperties
  <2>3. m >= 1 /\ n >= 1 /\ s[m].len \in {11, 12} BY <1>1 DEF Fenced
  <2>4. m \in 1 .. Len(s) BY <2>2, <2>3
  <2>5. s[m] \in Pieces BY <2>1, <2>4, ElementOfSeq
  <2>. QED BY <2>1, <2>2, <2>3, <2>5
<1>3. g \in Seq(Pieces) /\ Len(g) = 1 /\ g[1] = Tag BY PieceTypes
<1> HIDE DEF g
<1>4. /\ gs \in Seq(Pieces) /\ Len(gs) = Len(g) + Len(s)
      /\ \A k \in 1 .. Len(g) + Len(s) : gs[k] = IF k <= Len(g) THEN g[k] ELSE s[k - Len(g)]
  BY <1>2, <1>3, ConcatProperties
<1> HIDE DEF gs
<1>5. /\ P \in Seq(Pieces) /\ Len(P) = Len(gs) + Len(t)
      /\ \A k \in 1 .. Len(gs) + Len(t) : P[k] = IF k <= Len(gs) THEN gs[k] ELSE t[k - Len(gs)]
  BY <1>2, <1>4, ConcatProperties
<1>6. Text(s, t) = P BY DEF Text, g, gs
<1> HIDE DEF P, m, n
<1>7. Len(gs) = 1 + m /\ Len(P) = 1 + m + n BY <1>2, <1>3, <1>4, <1>5 DEF m, n
<1>8. P[1] = Tag
  <2>1. gs[1] = Tag BY <1>2, <1>3, <1>4 DEF m
  <2>2. 1 \in 1 .. Len(gs) + Len(t) /\ 1 <= Len(gs) BY <1>2, <1>7 DEF n
  <2>. QED BY <1>5, <2>1, <2>2
<1>9. \A k \in 1 .. m : P[1 + k] = s[k]
  <2> TAKE k \in 1 .. m
  <2>1. 1 + k \in 1 .. 1 + m /\ ~(1 + k <= 1) /\ (1 + k) - 1 = k BY <1>2
  <2>2. gs[1 + k] = s[k] BY <1>3, <1>4, <2>1 DEF m
  <2>3. 1 + k \in 1 .. Len(gs) + Len(t) /\ 1 + k <= Len(gs) BY <1>2, <1>7, <2>1 DEF n
  <2>. QED BY <1>5, <2>2, <2>3
<1>10. \A k \in 1 .. n : P[(1 + m) + k] = t[k]
  <2> TAKE k \in 1 .. n
  <2>1. (1 + m) + k \in 1 .. Len(gs) + Len(t) /\ ~((1 + m) + k <= Len(gs))
        /\ ((1 + m) + k) - Len(gs) = k
    BY <1>2, <1>7 DEF n
  <2>. QED BY <1>5, <2>1
<1>11. DOMAIN P = 1 .. 1 + m + n /\ 1 + m + n \in Nat BY <1>2, <1>5, <1>7, LenProperties
<1> DEFINE N == 1 + m + n
<1>12. N \in Nat /\ DOMAIN P = 1 .. N BY <1>11
<1> HIDE DEF N
<1>13. ASSUME NEW e \in 1 .. 1 + m + n, P[e].len >= 11
       PROVE  Preceded(P, e)
  <2>1. e # 1 BY <1>8, <1>13, PieceFacts
  <2>2. CASE e <= 1 + m
    <3> DEFINE x == HeadedBy(Tag, s)
               k == e - 1
               o == 1
    <3>1. k \in 1 .. m /\ e = 1 + k BY <1>2, <2>1, <2>2
    <3> HIDE DEF k
    <3>2. DOMAIN x = 0 .. m /\ x[0] = Tag /\ \A j \in 1 .. m : x[j] = s[j] BY <1>2, Heading DEF m
    <3> HIDE DEF x
    <3>3. s[k].len >= 11 BY <1>9, <1>13, <3>1
    <3>4. Preceded(x, k)
      <4>1. Tag \in Pieces /\ Tag.len \notin {0, 10} BY PieceFacts, PieceTypes
      <4>2. \A j \in 1 .. m : s[j].len >= 11 => Preceded(HeadedBy(Tag, s), j)
        BY <1>1, <4>1 DEF Fenced, m
      <4>. QED BY <3>1, <3>3, <4>2 DEF x
    <3>5. \A j \in 0 .. m : P[1 + j] = x[j]
      <4> TAKE j \in 0 .. m
      <4>1. CASE j = 0 BY <1>8, <3>2, <4>1
      <4>2. CASE j # 0
        <5>1. j \in 1 .. m BY <1>2, <4>2
        <5>. QED BY <1>9, <3>2, <5>1
      <4>. QED BY <4>1, <4>2
    <3>6. o \in 1 .. N /\ o + m <= N BY <1>2 DEF N, o
    <3>7. Preceded(P, o + k)
      <4>1. m \in Nat /\ k \in 1 .. m BY <1>2, <3>1
      <4>2. \A j \in 0 .. m : P[o + j] = x[j] BY <3>5 DEF o
      <4> HIDE DEF o
      <4>. QED BY <1>12, <3>2, <3>4, <3>6, <4>1, <4>2, Within
    <3>. QED BY <3>1, <3>7 DEF o
  <2>3. CASE e > 1 + m
    <3> DEFINE x == HeadedBy(s[m], t)
               k == e - (1 + m)
               o == 1 + m
    <3>1. k \in 1 .. n /\ e = (1 + m) + k BY <1>2, <2>3
    <3> HIDE DEF k
    <3>2. DOMAIN x = 0 .. n /\ x[0] = s[m] /\ \A j \in 1 .. n : x[j] = t[j] BY <1>2, Heading DEF n
    <3> HIDE DEF x
    <3>3. t[k].len >= 11 BY <1>10, <1>13, <3>1
    <3>4. Preceded(x, k) BY <1>1, <1>2, <3>1, <3>3 DEF Fenced, n, x
    <3>5. \A j \in 0 .. n : P[(1 + m) + j] = x[j]
      <4> TAKE j \in 0 .. n
      <4>1. CASE j = 0
        <5>1. m \in 1 .. m /\ (1 + m) + j = 1 + m BY <1>2, <4>1
        <5>. QED BY <1>9, <3>2, <4>1, <5>1
      <4>2. CASE j # 0
        <5>1. j \in 1 .. n BY <1>2, <4>2
        <5>. QED BY <1>10, <3>2, <5>1
      <4>. QED BY <4>1, <4>2
    <3>6. o \in 1 .. N /\ o + n <= N BY <1>2 DEF N, o
    <3>7. Preceded(P, o + k)
      <4>1. n \in Nat /\ k \in 1 .. n BY <1>2, <3>1
      <4>2. \A j \in 0 .. n : P[o + j] = x[j] BY <3>5 DEF o
      <4> HIDE DEF o
      <4>. QED BY <1>12, <3>2, <3>4, <3>6, <4>1, <4>2, Within
    <3>. QED BY <3>1, <3>7 DEF o
  <2>. QED BY <1>2, <2>2, <2>3
<1>. QED BY <1>5, <1>6, <1>7, <1>13

\* What is left of a piece is a piece, and no empty one.
LEMMA CutIs ==
  ASSUME NEW p \in Pieces, NEW q \in Cut(p)
  PROVE  /\ q \in Pieces
         /\ p.len # 0 <=> q.len # 0
         /\ q = p \/ (q = Piece(q.len, "cut") /\ q.len < p.len)
<1>1. p.len \in 0 .. 12 BY DEF Pieces
<1>2. CASE q = p BY <1>2
<1>3. CASE q # p
  <2>1. PICK n \in CutLengths : n < p.len /\ q = Piece(n, "cut") BY <1>3 DEF Cut
  <2>2. n \in 0 .. 12 /\ n # 0 BY <1>1, <2>1, CutAssumption
  <2>3. q.len = n BY <2>1, PieceFacts
  <2>. QED BY <1>1, <2>1, <2>2, <2>3, PieceTypes
<1>. QED BY <1>2, <1>3

\* A transfer reads pieces, and where it reads any they are those of a text,
\* the outer ones perhaps cut.
LEMMA WindowFacts ==
  ASSUME NEW w \in Windows
  PROVE  /\ w \in Seq(Pieces)
         /\ w # <<>> =>
              \E s, t \in Sentences : \E i, j \in 1 .. Len(Text(s, t)) :
                /\ i <= j /\ Len(w) = j - i + 1
                /\ w[1] \in Cut(Text(s, t)[i]) \/ j = i
                /\ w[Len(w)] \in Cut(Text(s, t)[j])
                /\ \A k \in 2 .. Len(w) - 1 : w[k] = Text(s, t)[i + k - 1]
<1>1. CASE w = <<>> BY <1>1
<1>2. CASE w # <<>>
  <2>1. PICK s \in Sentences, t \in Sentences, i \in 1 .. 15 :
          w \in UNION {CutFrom(Text(s, t), i, j) : j \in i .. Len(Text(s, t))}
    BY <1>2 DEF Windows
  <2> DEFINE P == Text(s, t)
  <2>2. PICK j \in i .. Len(P) : w \in CutFrom(P, i, j) BY <2>1
  <2> DEFINE u == SubSeq(P, i, j)
  <2>3. PICK a \in Cut(P[i]), b \in Cut(P[j]) : w = [u EXCEPT ![1] = a, ![j - i + 1] = b]
    BY <2>2 DEF CutFrom
  <2>4. P \in Seq(Pieces) BY TextFacts
  <2> HIDE DEF P
  <2>5. /\ Len(P) \in Nat /\ i \in Nat \ {0} /\ j \in Nat \ {0} /\ i <= j /\ j <= Len(P)
        /\ j \in 0 .. Len(P) /\ i \in 1 .. Len(P) /\ j \in 1 .. Len(P)
    <3>1. Len(P) \in Nat BY <2>4, LenProperties
    <3>. QED BY <2>2, <3>1
  <2>6. P[i] \in Pieces /\ P[j] \in Pieces BY <2>4, <2>5, ElementOfSeq
  <2>7. a \in Pieces /\ b \in Pieces BY <2>3, <2>6, CutIs
  <2>8. /\ u \in Seq(Pieces) /\ Len(u) = IF i <= j THEN j - i + 1 ELSE 0
        /\ \A k \in 1 .. j - i + 1 : u[k] = P[i + k - 1]
    BY <2>4, <2>5, CutFacts
  <2> HIDE DEF u
  <2> DEFINE l == j - i + 1
             v == [u EXCEPT ![1] = a]
             z == [v EXCEPT ![l] = b]
  <2>9. Len(u) = l /\ l \in Nat \ {0} /\ 1 \in 1 .. Len(u) BY <2>5, <2>8
  <2>10. /\ v \in Seq(Pieces) /\ Len(v) = Len(u)
         /\ \A k \in 1 .. Len(u) : v[k] = IF k = 1 THEN a ELSE u[k]
    BY <2>7, <2>8, <2>9, ExceptSeq
  <2> HIDE DEF v
  <2>11. l \in 1 .. Len(v) BY <2>5, <2>9, <2>10
  <2>12. /\ z \in Seq(Pieces) /\ Len(z) = Len(v)
         /\ \A k \in 1 .. Len(v) : z[k] = IF k = l THEN b ELSE v[k]
    BY <2>7, <2>10, <2>11, ExceptSeq
  <2>13. w = z BY <2>3 DEF v
  <2> HIDE DEF z
  <2>14. Len(w) = l BY <2>9, <2>10, <2>12, <2>13
  <2>15. w[l] = b BY <2>11, <2>12, <2>13
  <2>16. w[1] = a \/ j = i
    <3>1. CASE l = 1 BY <2>5, <3>1
    <3>2. CASE l # 1 BY <2>9, <2>10, <2>12, <2>13, <3>2
    <3>. QED BY <3>1, <3>2
  <2>17. \A k \in 2 .. l - 1 : w[k] = P[i + k - 1]
    <3> TAKE k \in 2 .. l - 1
    <3>1. k \in 1 .. l /\ k # 1 /\ k # l BY <2>9
    <3>2. w[k] = u[k] BY <2>9, <2>10, <2>12, <2>13, <3>1
    <3>. QED BY <2>8, <3>1, <3>2
  <2>18. /\ w \in Seq(Pieces) /\ i \in 1 .. Len(P) /\ j \in 1 .. Len(P)
         /\ i <= j /\ Len(w) = j - i + 1
         /\ w[1] \in Cut(P[i]) \/ j = i
         /\ w[Len(w)] \in Cut(P[j])
         /\ \A k \in 2 .. Len(w) - 1 : w[k] = P[i + k - 1]
    BY <2>3, <2>5, <2>12, <2>13, <2>14, <2>15, <2>16, <2>17
  <2>. QED BY <2>18 DEF P
<1>. QED BY <1>1, <1>2

-----------------------------------------------------------------------------
(* What gps_analyse takes out of it *)

LEMMA TokensFacts ==
  ASSUME NEW w \in Seq(Pieces)
  PROVE  /\ \A k \in Solid(w) : k \in 1 .. Len(w)
         /\ \A k \in 1 .. Len(w) : k \in Solid(w) <=> w[k].len # 0
         /\ Cardinality(Solid(w)) \in Nat
         /\ Len(Tokens(w)) = Cardinality(Solid(w))
         /\ \A n \in 1 .. Cardinality(Solid(w)) : Tokens(w)[n] = w[Nth(Solid(w), n)]
<1>1. Len(w) \in Nat /\ DOMAIN w = 1 .. Len(w) BY LenProperties
<1>2. \A k \in Solid(w) : k \in 1 .. Len(w) BY <1>1 DEF Solid
<1>3. \A k \in 1 .. Len(w) : w[k].len \in Nat
  <2>1. \A k \in 1 .. Len(w) : w[k] \in Pieces BY <1>1
  <2>. QED BY <2>1 DEF Pieces
<1>4. \A k \in 1 .. Len(w) : k \in Solid(w) <=> w[k].len # 0 BY <1>1, <1>3 DEF Solid
<1>5. Cardinality(Solid(w)) \in Nat BY <1>1, <1>2, UpToFacts
<1>. QED BY <1>2, <1>4, <1>5 DEF Tokens

LEMMA UpToGap ==
  ASSUME NEW m \in Nat, NEW K, \A j \in K : j \in 1 .. m,
         NEW p \in Nat, NEW q \in Nat, p <= q, \A k \in K : ~(p < k /\ k <= q)
  PROVE  UpTo(K, p) = UpTo(K, q)
<1>1. \A k \in K : k <= p <=> k <= q OBVIOUS
<1>2. {k \in K : k <= p} = {k \in K : k <= q} BY <1>1
<1>. QED BY <1>2 DEF UpTo

\* When only c is between d and the fifth of a set of positions, d is the third.
LEMMA ThirdOfFive ==
  ASSUME NEW m \in Nat, NEW K, \A j \in K : j \in 1 .. m,
         NEW d \in Int, NEW c \in Int, NEW b \in K, UpTo(K, b) = 5,
         d < c, c < b, \A k \in K : d < k /\ k < b => k = c,
         d >= 1 => d \in K, c >= 1 => c \in K
  PROVE  d \in K /\ d >= 2 /\ Nth(K, 3) = d
<1>1. \A p \in Nat \ {0} : UpTo(K, p) = UpTo(K, p - 1) + (IF p \in K THEN 1 ELSE 0) BY UpToStep
<1>2. \A p \in Nat : UpTo(K, p) \in Nat BY UpToFacts
<1>3. UpTo(K, 0) = 0 BY UpToZero
<1>4. b \in Nat \ {0} /\ b - 1 \in Nat OBVIOUS
<1>5. UpTo(K, b - 1) = 4
  <2>1. UpTo(K, b) = UpTo(K, b - 1) + 1 BY <1>1, <1>4
  <2>. QED BY <1>2, <1>4, <2>1
<1>6. c >= 1
  <2> SUFFICES ASSUME ~(c >= 1) PROVE FALSE OBVIOUS
  <2>1. 0 \in Nat /\ 0 <= b - 1 /\ \A k \in K : ~(0 < k /\ k <= b - 1) BY <1>4
  <2>2. UpTo(K, 0) = UpTo(K, b - 1) BY <1>4, <2>1, UpToGap
  <2>. QED BY <1>3, <1>5, <2>2
<1>7. c \in K /\ c \in Nat \ {0} /\ c - 1 \in Nat BY <1>6
<1>8. UpTo(K, c - 1) = 3
  <2>1. c <= b - 1 /\ \A k \in K : ~(c < k /\ k <= b - 1) BY <1>4, <1>7
  <2>2. UpTo(K, c) = UpTo(K, b - 1) BY <1>4, <1>7, <2>1, UpToGap
  <2>3. UpTo(K, c) = UpTo(K, c - 1) + 1 BY <1>1, <1>7
  <2>. QED BY <1>2, <1>5, <1>7, <2>2, <2>3
<1>9. d >= 1
  <2> SUFFICES ASSUME ~(d >= 1) PROVE FALSE OBVIOUS
  <2>1. 0 \in Nat /\ 0 <= c - 1 /\ \A k \in K : ~(0 < k /\ k <= c - 1) BY <1>7
  <2>2. UpTo(K, 0) = UpTo(K, c - 1) BY <1>7, <2>1, UpToGap
  <2>. QED BY <1>3, <1>8, <2>2
<1>10. d \in K /\ d \in Nat \ {0} BY <1>9
<1>11. UpTo(K, d) = 3
  <2>1. d <= c - 1 /\ \A k \in K : ~(d < k /\ k <= c - 1) BY <1>7
  <2>2. UpTo(K, d) = UpTo(K, c - 1) BY <1>7, <1>10, <2>1, UpToGap
  <2>. QED BY <1>8, <2>2
<1>12. d # 1
  <2>1. 1 \in Nat \ {0} /\ 1 - 1 = 0 OBVIOUS
  <2>2. UpTo(K, 1) = UpTo(K, 0) + (IF 1 \in K THEN 1 ELSE 0) BY <1>1, <2>1
  <2>3. UpTo(K, 1) # 3 BY <1>3, <2>2
  <2>. QED BY <1>11, <2>3
<1>13. Nth(K, UpTo(K, d)) = d BY <1>10, NthIs
<1>. QED BY <1>9, <1>10, <1>11, <1>12, <1>13

Accepted == {<<Lat(f), Lon(f)>> : f \in Fixes} \cup {<<Time, Piece(11, "cut")>>}

\* Whatever part of a text was read, the tokens gps_analyse accepts are the
\* latitude and the longitude of one fix, or the time and a cut join.
LEMMA AcceptedIsFix ==
  ASSUME NEW w \in Windows, FixTokens(Tokens(w))
  PROVE  <<Tokens(w)[3], Tokens(w)[5]>> \in Accepted
<1> DEFINE K == Solid(w)
           b == Nth(K, 5)
           l == Len(w)
<1>1. w \in Seq(Pieces) BY WindowFacts
<1>2. l \in Nat BY <1>1, LenProperties
<1>3. /\ \A k \in K : k \in 1 .. l
      /\ \A k \in 1 .. l : k \in K <=> w[k].len # 0
      /\ Cardinality(K) \in Nat /\ Len(Tokens(w)) = Cardinality(K)
      /\ \A n \in 1 .. Cardinality(K) : Tokens(w)[n] = w[Nth(K, n)]
  BY <1>1, TokensFacts
<1> HIDE DEF K
<1>4. Cardinality(K) >= 5 BY <1>3 DEF FixTokens
<1>5. 3 \in 1 .. Cardinality(K) /\ 5 \in 1 .. Cardinality(K) BY <1>3, <1>4
<1>6. Tokens(w)[3] = w[Nth(K, 3)] /\ Tokens(w)[5] = w[b] BY <1>3, <1>5
<1>7. w[b].len = 11 /\ w[Nth(K, 3)].len = 10 BY <1>6 DEF FixTokens
<1>8. b \in K /\ UpTo(K, b) = 5 BY <1>2, <1>3, <1>5, NthExists
<1> HIDE DEF b, l
<1>9. w # <<>>
  <2>1. b \in 1 .. l BY <1>3, <1>8
  <2>. QED BY <1>2, <2>1 DEF l
<1>10. PICK s \in Sentences, t \in Sentences : \E i, j \in 1 .. Len(Text(s, t)) :
         /\ i <= j /\ l = j - i + 1
         /\ w[1] \in Cut(Text(s, t)[i]) \/ j = i
         /\ w[l] \in Cut(Text(s, t)[j])
         /\ \A k \in 2 .. l - 1 : w[k] = Text(s, t)[i + k - 1]
  BY <1>9, WindowFacts DEF l
<1> DEFINE P == Text(s, t)
           m == Len(P)
<1>11. P \in Seq(Pieces) /\ \A e \in 1 .. m : P[e].len >= 11 => Preceded(P, e) BY TextFacts
<1>12. PICK i \in 1 .. m, j \in 1 .. m :
         /\ i <= j /\ l = j - i + 1
         /\ w[1] \in Cut(P[i]) \/ j = i
         /\ w[l] \in Cut(P[j])
         /\ \A k \in 2 .. l - 1 : w[k] = P[i + k - 1]
  BY <1>10
<1> HIDE DEF P
<1>13. m \in Nat /\ DOMAIN P = 1 .. m BY <1>11, LenProperties
<1>14. \A k \in 1 .. m : P[k] \in Pieces /\ P[k].len \in 0 .. 12
  <2>1. \A k \in 1 .. m : P[k] \in Pieces BY <1>11, ElementOfSeq
  <2>. QED BY <2>1 DEF Pieces
<1> HIDE DEF m
<1>15. i \in Nat /\ j \in Nat /\ l \in Nat \ {0} BY <1>12, <1>13
<1>16. \A k \in 1 .. l : /\ i + k - 1 \in 1 .. m
                         /\ w[k] \in Cut(P[i + k - 1])
                         /\ k \in 2 .. l - 1 => w[k] = P[i + k - 1]
  <2> TAKE k \in 1 .. l
  <2>1. i + k - 1 \in 1 .. m BY <1>12, <1>13, <1>15
  <2>2. k \in 2 .. l - 1 => w[k] = P[i + k - 1] BY <1>12
  <2>3. CASE k = l
    <3>1. i + k - 1 = j BY <1>12, <1>15, <2>3
    <3>. QED BY <1>12, <2>1, <2>2, <2>3, <3>1
  <2>4. CASE k = 1 /\ k # l
    <3>1. i + k - 1 = i /\ j # i BY <1>12, <1>15, <2>4
    <3>. QED BY <1>12, <2>1, <2>2, <2>4, <3>1
  <2>5. CASE k # 1 /\ k # l
    <3>1. k \in 2 .. l - 1 BY <1>15, <2>5
    <3>2. w[k] = P[i + k - 1] BY <2>2, <3>1
    <3>. QED BY <2>1, <2>2, <3>2 DEF Cut
  <2>. QED BY <2>3, <2>4, <2>5
<1>17. \A k \in 1 .. l : k \in K <=> P[i + k - 1].len # 0
  <2> TAKE k \in 1 .. l
  <2>1. w[k].len # 0 <=> P[i + k - 1].len # 0 BY <1>14, <1>16, CutIs
  <2>. QED BY <1>3, <2>1
<1> DEFINE e == i + b - 1
<1>18. b \in 1 .. l BY <1>3, <1>8
<1>19. e \in 1 .. m /\ e \in Int /\ b \in Int BY <1>13, <1>16, <1>18
<1>20. w[b] = P[e] \/ (w[b] = Piece(11, "cut") /\ 11 < P[e].len)
  <2>1. P[e] \in Pieces /\ w[b] \in Cut(P[e]) BY <1>14, <1>16, <1>18
  <2>. QED BY <1>7, <2>1, CutIs
<1>21. P[e].len >= 11
  <2>1. P[e].len \in 0 .. 12 BY <1>14, <1>19
  <2>. QED BY <1>7, <1>20, <2>1
<1>22. Preceded(P, e) BY <1>11, <1>19, <1>21 DEF m
<1> HIDE DEF e
<1>23. PICK d \in 1 .. m, c \in 1 .. m :
         /\ d < c /\ c < e
         /\ P[d].len # 0 /\ P[c].len # 0
         /\ \A k \in 1 .. m : d < k /\ k < e /\ P[k].len # 0 => k = c
         /\ Good(P[d], P[e])
  BY <1>13, <1>22 DEF Preceded
<1> DEFINE dd == d - i + 1
           cc == c - i + 1
<1>24. dd \in Int /\ cc \in Int /\ dd < cc /\ cc < b BY <1>13, <1>15, <1>19, <1>23 DEF e
<1>25. dd >= 1 => dd \in K
  <2>1. dd >= 1 => dd \in 1 .. l /\ i + dd - 1 = d BY <1>13, <1>15, <1>18, <1>24
  <2>. QED BY <1>17, <1>23, <2>1
<1>26. cc >= 1 => cc \in K
  <2>1. cc >= 1 => cc \in 1 .. l /\ i + cc - 1 = c BY <1>13, <1>15, <1>18, <1>24
  <2>. QED BY <1>17, <1>23, <2>1
<1>27. \A k \in K : dd < k /\ k < b => k = cc
  <2> SUFFICES ASSUME NEW k \in K, dd < k, k < b PROVE k = cc OBVIOUS
  <2>1. k \in 1 .. l BY <1>3
  <2>2. i + k - 1 \in 1 .. m /\ P[i + k - 1].len # 0 BY <1>16, <1>17, <2>1
  <2>3. d < i + k - 1 /\ i + k - 1 < e BY <1>13, <1>15, <1>19, <2>1 DEF e
  <2>4. i + k - 1 = c BY <1>23, <2>2, <2>3
  <2>. QED BY <1>15, <2>1, <2>4
<1> HIDE DEF dd, cc
<1>28. dd \in K /\ dd >= 2 /\ Nth(K, 3) = dd
  <2>1. \A k \in K : k \in 1 .. l BY <1>3
  <2>. QED BY ONLY <1>2, <1>8, <1>24, <1>25, <1>26, <1>27, <2>1, ThirdOfFive
<1>29. w[dd] = P[d]
  <2>1. dd \in 2 .. l - 1 /\ dd \in 1 .. l BY <1>2, <1>3, <1>18, <1>24, <1>28
  <2>2. i + dd - 1 = d BY <1>13, <1>15 DEF dd
  <2>. QED BY <1>16, <2>1, <2>2
<1>30. Tokens(w)[3] = P[d] /\ P[d].len = 10 /\ Tokens(w)[5] = w[b] BY <1>6, <1>7, <1>28, <1>29
<1>31. CASE \E f \in Fixes : P[d] = Lat(f) /\ P[e] = Lon(f)
  <2>1. PICK f \in Fixes : P[d] = Lat(f) /\ P[e] = Lon(f) BY <1>31
  <2>2. P[e].len = 11 BY <2>1, PieceFacts
  <2>3. w[b] = P[e] BY <1>20, <2>2
  <2>. QED BY <1>30, <2>1, <2>3 DEF Accepted
<1>32. CASE P[d] = Time /\ P[e].len = 12
  <2>1. w[b] # P[e] BY <1>7, <1>32
  <2>. QED BY <1>20, <1>30, <1>32, <2>1 DEF Accepted
<1>. QED BY <1>23, <1>30, <1>31, <1>32 DEF Good

\* A position at the beginning of the buffer is found.
LEMMA FixIsAccepted ==
  ASSUME NEW w \in Windows, NEW f \in Fixes,
         IsPrefix(<<Tag, Time, Lat(f), Letter, Lon(f)>>, w)
  PROVE  /\ FixTokens(Tokens(w))
         /\ Tokens(w)[3] = Lat(f) /\ Tokens(w)[5] = Lon(f)
<1> DEFINE K == Solid(w)
           p == <<Tag, Time, Lat(f), Letter, Lon(f)>>
<1>1. w \in Seq(Pieces) BY WindowFacts
<1>2. Len(w) \in Nat BY <1>1, LenProperties
<1>3. /\ \A k \in K : k \in 1 .. Len(w)
      /\ \A k \in 1 .. Len(w) : k \in K <=> w[k].len # 0
      /\ Cardinality(K) \in Nat /\ Len(Tokens(w)) = Cardinality(K)
      /\ \A n \in 1 .. Cardinality(K) : Tokens(w)[n] = w[Nth(K, n)]
  BY <1>1, TokensFacts
<1> HIDE DEF K
<1>4. 5 <= Len(w) /\ w[1] = Tag /\ w[2] = Time /\ w[3] = Lat(f) /\ w[4] = Letter /\ w[5] = Lon(f)
  <2>1. p \in Seq(Pieces) /\ Len(p) = 5 BY PieceTypes
  <2>2. p[1] = Tag /\ p[2] = Time /\ p[3] = Lat(f) /\ p[4] = Letter /\ p[5] = Lon(f) OBVIOUS
  <2>3. IsPrefix(p, w) OBVIOUS
  <2> HIDE DEF p
  <2>4. 5 <= Len(w) /\ SubSeq(p, 1, 5) = SubSeq(w, 1, 5) BY <2>1, <2>3 DEF IsPrefix
  <2>5. \A i \in 1 .. 5 : SubSeq(p, 1, 5)[i] = p[i] BY <2>1, SubSeqProperties
  <2>6. \A i \in 1 .. 5 : SubSeq(w, 1, 5)[i] = w[i] BY <1>1, <1>2, <2>4, SubSeqProperties
  <2>7. \A i \in 1 .. 5 : w[i] = p[i] BY <2>4, <2>5, <2>6
  <2>. QED BY <2>2, <2>4, <2>7
<1>5. 1 \in K /\ 2 \in K /\ 3 \in K /\ 4 \in K /\ 5 \in K BY <1>2, <1>3, <1>4, PieceFacts
<1>6. \A k \in Nat \ {0} : UpTo(K, k) = UpTo(K, k - 1) + (IF k \in K THEN 1 ELSE 0)
  BY <1>2, <1>3, UpToStep
<1>7. UpTo(K, 0) = 0 BY <1>2, <1>3, UpToZero
<1>8. UpTo(K, 1) = 1 BY <1>5, <1>6, <1>7
<1>9. UpTo(K, 2) = 2 BY <1>5, <1>6, <1>8
<1>10. UpTo(K, 3) = 3 BY <1>5, <1>6, <1>9
<1>11. UpTo(K, 4) = 4 BY <1>5, <1>6, <1>10
<1>12. UpTo(K, 5) = 5 BY <1>5, <1>6, <1>11
<1>13. Nth(K, 3) = 3 /\ Nth(K, 5) = 5 BY <1>2, <1>3, <1>5, <1>10, <1>12, NthIs
<1>14. 5 <= Cardinality(K) BY <1>2, <1>3, <1>12, UpToFacts
<1>15. 3 \in 1 .. Cardinality(K) /\ 5 \in 1 .. Cardinality(K) BY <1>3, <1>14
<1>16. Tokens(w)[3] = Lat(f) /\ Tokens(w)[5] = Lon(f) BY <1>3, <1>4, <1>13, <1>15
<1>. QED BY <1>3, <1>14, <1>16, PieceFacts DEF FixTokens

-----------------------------------------------------------------------------
(* The invariant *)

\* A transfer runs only while get_gps_data waits for it, and the flag is up
\* only behind its end.
Handshake ==
  /\ pc \in {"off", "idle", "cleared", "wait", "read", "fault"}
  /\ spi_xfer_done \in BOOLEAN
  /\ transfer \in {"none", "running", "refused"}
  /\ transfer = "running" => pc = "wait"
  /\ pc = "cleared" => ~spi_xfer_done
  /\ pc = "wait" => spi_xfer_done = (transfer = "none")
  /\ DataIsComplete

\* What gps_analyse left is what the buffer says.
Analysed ==
  /\ gps_data \in Windows
  /\ result \in {"none", "ok", "error"}
  /\ pc = "off" => result = "none"
  /\ RealUnlessCut
  /\ pc = "idle" /\ result # "none" /\ FixTokens(Tokens(gps_data)) =>
       result = "ok" /\ send_gps_data = <<Tokens(gps_data)[3], Tokens(gps_data)[5]>>

GpsInv == Handshake /\ Analysed

LEMMA Initially == Init => GpsInv
<1> SUFFICES ASSUME Init PROVE GpsInv OBVIOUS
<1>1. Handshake BY DEF Init, Handshake, DataIsComplete
<1>2. Analysed BY DEF Init, Analysed, Windows, RealUnlessCut, Positions
<1>. QED BY <1>1, <1>2 DEF GpsInv

LEMMA HandshakeKept ==
  ASSUME Handshake, [Next]_vars
  PROVE  Handshake'
<1> USE DEF Handshake, DataIsComplete
<1>1. CASE UNCHANGED vars BY <1>1 DEF vars
<1>2. CASE GPS_init BY <1>2 DEF GPS_init
<1>3. CASE Clear BY <1>3 DEF Clear
<1>4. CASE Start BY <1>4 DEF Start
<1>5. CASE Event BY <1>5 DEF Event
<1>6. CASE Wait BY <1>6 DEF Wait, get_spi_flag
<1>7. CASE Analyse
  <2>1. /\ pc = "read" /\ pc' \in {"idle", "fault"}
        /\ spi_xfer_done' = spi_xfer_done /\ transfer' = transfer
    BY <1>7 DEF Analyse
  <2>. QED BY <2>1
<1>8. CASE Reset BY <1>8 DEF Reset
<1>. QED BY <1>1, <1>2, <1>3, <1>4, <1>5, <1>6, <1>7, <1>8 DEF Next

LEMMA AnalysedKept ==
  ASSUME GpsInv, [Next]_vars
  PROVE  Analysed'
<1> USE DEF GpsInv, Analysed, RealUnlessCut
<1>1. CASE UNCHANGED vars BY <1>1 DEF vars
<1>2. CASE GPS_init BY <1>2 DEF GPS_init
<1>3. CASE Clear BY <1>3 DEF Clear
<1>4. CASE Start BY <1>4 DEF Start, Windows
<1>5. CASE Event BY <1>5 DEF Event, Handshake
<1>6. CASE Wait BY <1>6 DEF Wait
<1>7. CASE Analyse
  <2> DEFINE tok == Tokens(gps_data)
  <2>1. gps_data' = gps_data /\ tok' = tok BY <1>7 DEF Analyse
  <2>2. CASE FixTokens(tok) /\ send_gps_data' = <<tok[3], tok[5]>> /\ result' = "ok" /\ pc' = "idle"
    <3>1. <<tok[3], tok[5]>> \in Accepted BY <2>2, AcceptedIsFix
    <3>. QED BY <2>1, <2>2, <3>1 DEF Accepted, Positions
  <2>3. CASE ~FixTokens(tok) /\ result' = "error" /\ pc' = "idle" /\ send_gps_data' = send_gps_data
    BY <2>1, <2>3
  <2>4. CASE pc' = "fault" /\ send_gps_data' = send_gps_data /\ result' = result
    BY <2>1, <2>4
  <2>. QED BY <1>7, <2>2, <2>3, <2>4 DEF Analyse
<1>8. CASE Reset BY <1>8 DEF Reset, Windows, Positions
<1>. QED BY <1>1, <1>2, <1>3, <1>4, <1>5, <1>6, <1>7, <1>8 DEF Next

LEMMA Invariance == Spec => []GpsInv
<1>1. GpsInv /\ [Next]_vars => GpsInv' BY HandshakeKept, AnalysedKept DEF GpsInv
<1>. QED BY Initially, <1>1, PTL DEF Spec

\* gps_analyse, NB_gsp_data: of any two of the sentences, with any fixes, and
\* from any character on to any other, nothing passes for a position but the
\* latitude and the longitude of one fix, and the time with a name behind GLL
\* that lost its last character.
THEOREM PositionsAreRealUnlessCut == Spec => []RealUnlessCut
<1>1. GpsInv => RealUnlessCut BY DEF GpsInv, Analysed
<1>. QED BY Invariance, <1>1, PTL

\* get_gps_data: gps_analyse never sees a buffer that a transfer still fills.
THEOREM BufferIsComplete == Spec => []DataIsComplete
<1>1. GpsInv => DataIsComplete BY DEF GpsInv, Handshake
<1>. QED BY Invariance, <1>1, PTL

\* gps_analyse: a transfer that begins with a GGA sentence up to its position, the
\* documented form, gives that position, whatever of the text comes behind.
THEOREM DocumentedFormIsTaken == Spec => []DocumentedFixIsTaken
<1>1. GpsInv => DocumentedFixIsTaken
  <2> SUFFICES ASSUME GpsInv, pc = "idle", result # "none", NEW f \in Fixes,
                      IsPrefix(<<Tag, Time, Lat(f), Letter, Lon(f)>>, gps_data)
               PROVE  result = "ok" /\ send_gps_data = <<Lat(f), Lon(f)>>
    BY DEF DocumentedFixIsTaken
  <2>1. /\ FixTokens(Tokens(gps_data))
        /\ Tokens(gps_data)[3] = Lat(f) /\ Tokens(gps_data)[5] = Lon(f)
    BY FixIsAccepted DEF GpsInv, Analysed
  <2>. QED BY <2>1 DEF GpsInv, Analysed
<1>. QED BY Invariance, <1>1, PTL

\* Type correctness; a position has the 21 characters the frame of NB_gsp_data
\* is made for.
THEOREM TypeCorrect == Spec => []TypeOK
<1>1. GpsInv => TypeOK
  <2> SUFFICES ASSUME GpsInv PROVE TypeOK OBVIOUS
  <2>1. gps_data \in Seq(Pieces) BY WindowFacts DEF GpsInv, Analysed
  <2>2. /\ send_gps_data \in Seq(Pieces)
        /\ send_gps_data[1].len + send_gps_data[2].len \in {0, 21}
    <3>1. send_gps_data \in Positions \cup {<<Time, Piece(11, "cut")>>}
      BY DEF GpsInv, Analysed, RealUnlessCut
    <3>2. CASE send_gps_data = <<None, None>> BY <3>2, PieceFacts, PieceTypes
    <3>3. CASE \E f \in Fixes : send_gps_data = <<Lat(f), Lon(f)>> BY <3>3, PieceFacts, PieceTypes
    <3>4. CASE send_gps_data = <<Time, Piece(11, "cut")>>
      <4>1. Time \in Pieces /\ Piece(11, "cut") \in Pieces BY PieceTypes
      <4>2. Time.len = 10 /\ Piece(11, "cut").len = 11 BY PieceFacts
      <4>. QED BY <3>4, <4>1, <4>2
    <3>. QED BY <3>1, <3>2, <3>3, <3>4 DEF Positions
  <2>. QED BY <2>1, <2>2 DEF GpsInv, Handshake, Analysed, TypeOK
<1>. QED BY Invariance, <1>1, PTL

-----------------------------------------------------------------------------
(* I2C master: the inductive invariant *)

\* The first m bits of a byte.
Top(b, m) == b \div <<256, 128, 64, 32, 16, 8, 4, 2, 1>>[m + 1]

\* What the line shows: the byte of a slave that sends, ones of one that does not.
Cur == IF slave.role = "tx" THEN slave.byte ELSE 255

\* What the slave drives when m bits of its byte are through.
SdaAfter(m) == IF m < 8 THEN BitOf(Cur, m + 1) ELSE 1

Out == "SCL" \in pins.out /\ "SDA" \in pins.out
Listening == "SCL" \in pins.out /\ "SDA" \notin pins.out

\* n bits of a byte are through, and their value.
Counts(n, v) == seen.open /\ seen.n = n /\ seen.v = v

Closed == ~seen.open /\ seen.n = 0 /\ seen.v = 0 /\ slave.role = "none" /\ slave.sda = 1

\* The pins between two calls.
Resting ==
  \/ "SCL" \notin pins.out /\ "SDA" \notin pins.out /\ pins.scl = pins.sda
  \/ Out /\ pins.scl = 1 /\ pins.sda = 1

Fresh == data = 0 /\ pdata = <<>> /\ slave.sent = <<>>

\* The slave has sent as many bytes as were stored, and d more.
Ahead(d) ==
  IF slave.role = "tx"
  THEN Len(slave.sent) = Len(pdata) + d /\ slave.sent[Len(slave.sent)] = slave.byte
  ELSE slave.sent = <<>>

Stored ==
  \A i \in 1 .. Len(pdata) : pdata[i] = IF slave.sent = <<>> THEN 255 ELSE slave.sent[i]

(* Before operation k of each function *)

ChoiceAt(k) ==
  /\ Closed
  /\ Fresh
  /\ k = 1 => Resting
  /\ k = 2 => "SCL" \in pins.out /\ (pins.scl = 1 => pins.sda = 1)
  /\ k = 3 => Out /\ (pins.scl = 1 => pins.sda = 1)

StartAt(k) ==
  /\ Out
  /\ Fresh
  /\ slave.sda = 1
  /\ k < 4 => slave.role \in {"none", "rx"}
  /\ k < 3 => seen.n = 0
  /\ k = 1 => (pins.scl = 1 => pins.sda = 1)
  /\ k \in {2, 3} => pins.sda = 1
  /\ k \in {3, 4} => pins.scl = 1
  /\ k = 4 => pins.sda = 0
  /\ k = 5 => pins.scl = 0
  /\ k > 3 => slave.role = "addr" /\ Counts(0, 0)

SendAt(b, role, k) ==
  LET m == (k - 1) \div 3 IN
  /\ "SCL" \in pins.out
  /\ "SDA" \in pins.out <=> k \notin 27 .. 29
  /\ k < 29 => Fresh /\ slave.role \in role
  /\ k < 26 => slave.sda = 1 /\ Counts(m, Top(b, m))
  /\ k < 26 /\ k % 3 = 1 => pins.scl = IF k = 1 THEN 0 ELSE 1
  /\ k < 25 /\ k % 3 = 2 => pins.scl = 0
  /\ k < 25 /\ k % 3 = 0 => pins.scl = 0 /\ pins.sda = BitOf(b, m + 1)
  /\ k \in 26 .. 28 => (slave.role = "none" => slave.sda = 1)
  /\ k \in 26 .. 27 => pins.scl = 0 /\ Counts(8, b)
  /\ k = 28 => pins.scl = 1 /\ Counts(9, b)
  /\ k > 28 =>
       /\ pins.scl = 0 /\ Counts(0, 0) /\ data = 0 /\ pdata = <<>>
       /\ slave.role \in {"none"} \cup {IF role = {"addr"} /\ b % 2 = 1 THEN "tx" ELSE "rx"}
       /\ slave.sda = SdaAfter(0)
       /\ Ahead(1)

RecvAt(k) ==
  LET m == (k - 4) \div 3 IN
  /\ slave.role \in {"none", "tx"}
  /\ Stored
  /\ k = 1 => \/ pins.scl = 0 /\ Counts(0, 0) /\ slave.sda = SdaAfter(0) /\ Ahead(1)
              \/ /\ pins.scl = 1 /\ pins.sda = 0 /\ seen.open /\ seen.n = 9
                 /\ slave.sda = 1 /\ Ahead(0)
  /\ k \in 2 .. 29 => Ahead(1)
  /\ k \in 1 .. 3 \cup {29, 30} => Out
  /\ k \in 4 .. 28 => Listening
  /\ k \in 1 .. 3 \cup {30} => data = 0
  /\ k \in 2 .. 3 => pins.scl = 0 /\ Counts(0, 0) /\ slave.sda = SdaAfter(0)
  /\ k = 3 => pins.sda = 1
  /\ k \in 4 .. 28 /\ k % 3 = 1 =>
       pins.scl = 0 /\ Counts(m, Top(Cur, m)) /\ data = Top(Cur, m) /\ slave.sda = SdaAfter(m)
  /\ k \in 4 .. 28 /\ k % 3 = 2 =>
       /\ pins.scl = 1 /\ Counts(m + 1, Top(Cur, m + 1))
       /\ data = Top(Cur, m) /\ slave.sda = SdaAfter(m)
  /\ k \in 4 .. 28 /\ k % 3 = 0 =>
       /\ pins.scl = 1 /\ Counts(m + 1, Top(Cur, m + 1))
       /\ data = Top(Cur, m + 1) /\ slave.sda = SdaAfter(m)
  /\ k \in 29 .. 30 => pins.scl = 0 /\ Counts(8, Cur) /\ slave.sda = 1
  /\ k = 29 => data = Cur
  /\ k = 30 => Ahead(0)

AckAt(ack, k) ==
  /\ slave.role \in {"none", "tx"}
  /\ Stored
  /\ Ahead(0)
  /\ Out
  /\ data = 0
  /\ slave.sda = 1
  /\ k < 3 => pins.scl = 0 /\ Counts(8, Cur)
  /\ k = 2 => pins.sda = ack
  /\ k = 3 => pins.scl = 1 /\ pins.sda = ack /\ seen.open /\ seen.n = 9

StopAt(k) ==
  /\ Out
  /\ Stored
  /\ data = 0
  /\ slave.sda = 1
  /\ slave.sent = <<>> \/ Len(slave.sent) = Len(pdata)
  /\ k = 1 => \/ pins.scl = 0 /\ Counts(0, 0) /\ slave.role \in {"none", "rx"}
              \/ /\ pins.scl = 1 /\ pins.sda = 1 /\ seen.open /\ seen.n = 9
                 /\ slave.role \in {"none", "tx"}
  /\ k > 1 => slave.role \in {"none", "rx"}
  /\ k \in 2 .. 3 => pins.scl = 0 /\ Counts(0, 0)
  /\ k = 3 => pins.sda = 0
  /\ k = 4 => pins.scl = 1 /\ pins.sda = 0
  /\ k = 5 => Resting /\ Closed

(* The variant for the LCD *)

\* The register is sent to a slave that may send itself.
LcdSendAt(k) ==
  LET m == (k - 1) \div 3 IN
  /\ "SCL" \in pins.out
  /\ "SDA" \in pins.out <=> k \notin 27 .. 29
  /\ slave.role \in {"none", "tx"}
  /\ slave.role = "none" => slave.sda = 1
  /\ seen.open
  /\ k < 26 => seen.n = m
  /\ k < 26 /\ k % 3 = 1 => pins.scl = IF k = 1 THEN 0 ELSE 1
  /\ k < 26 /\ k % 3 # 1 => pins.scl = 0
  /\ k > 25 => slave.sda = 1
  /\ k \in 26 .. 27 => pins.scl = 0 /\ seen.n = 8
  /\ k = 28 => pins.scl = 1 /\ seen.n = 9
  /\ k > 28 => pins.scl = 0 /\ slave.role = "none"

LcdRecvAt(k) ==
  /\ slave.role = "none" /\ slave.sda = 1
  /\ "SCL" \in pins.out
  /\ "SDA" \in pins.out <=> k \notin 3 .. 27
  /\ k = 2 => pins.sda = 1
  /\ k \in 3 .. 28 /\ k % 3 # 0 => pins.scl = IF k = 28 THEN 0 ELSE 1
  /\ k \in 6 .. 27 /\ k % 3 = 0 => pins.scl = 0
  /\ k > 27 => pins.scl = 0

LcdAckAt(k) ==
  /\ slave.role = "none" /\ slave.sda = 1
  /\ Out
  /\ k < 3 => pins.scl = 0
  /\ k = 3 => pins.scl = 1

LcdStopAt(k) ==
  /\ slave.role = "none" /\ slave.sda = 1
  /\ Out
  /\ k \in 2 .. 3 => pins.scl = 0
  /\ k \in 3 .. 4 => pins.sda = 0
  /\ k \in 4 .. 5 => pins.scl = 1
  /\ k = 5 => Resting /\ Closed

-----------------------------------------------------------------------------
(* The inductive invariant *)

\* The i-th event of the transfer.
EventOf(c, i) ==
  CASE i = 1 -> Mark("S")
    [] i = 2 -> Clocked(c.addr)
    [] i = 3 -> Clocked(c.reg)
    [] i > 3 /\ c.len = 0 ->
         IF i <= Len(c.bytes) + 3 THEN Clocked(c.bytes[i - 3]) ELSE Mark("P")
    [] i = 4 /\ c.len > 0 -> Mark("S")
    [] i = 5 /\ c.len > 0 -> Clocked(c.addr + 1)
    [] i > 5 /\ c.len > 0 -> IF i <= c.len + 5 THEN Got(i - 5, c.len) ELSE Mark("P")

Shows(i, e) == bus[i].ev = e.ev /\ bus[i].byte = e.byte /\ bus[i].ack \in e.ack

\* The observer has seen the first n events.
Logged(n) == Len(bus) = n /\ \A i \in 1 .. n : Shows(i, EventOf(call, i))

\* Events that precede the j-th function, and bytes stored by then.
EventsBefore(c, j) ==
  IF c.len > 0 /\ j > 6 THEN 5 + (j - 7) \div 2 ELSE IF j > 2 THEN j - 2 ELSE 0
StoredBefore(c, j) == IF c.len > 0 /\ j > 7 THEN (j - 6) \div 2 ELSE 0

\* The operation of f that completes its event.
EventAt(f) ==
  CASE f.fn = "start" -> 3 [] f.fn = "send_byte" -> 27
    [] f.fn = "send_ack" -> 2 [] f.fn = "stop" -> 4 [] OTHER -> 30

RoleOf(c, j) == IF j = 3 \/ (j = 6 /\ c.len > 0) THEN {"addr"} ELSE {"none", "rx"}

StandardAt(f, j, k) ==
  /\ CASE f.fn = "i2c_choice" -> ChoiceAt(k)
       [] f.fn = "start"      -> StartAt(k)
       [] f.fn = "send_byte"  -> SendAt(f.arg, RoleOf(call, j), k)
       [] f.fn = "recv_byte"  -> RecvAt(k)
       [] f.fn = "send_ack"   -> AckAt(f.arg, k)
       [] OTHER               -> StopAt(k)
  /\ Logged(EventsBefore(call, j) + IF k > EventAt(f) THEN 1 ELSE 0)
  /\ Len(pdata) = StoredBefore(call, j) + IF f.fn = "recv_byte" /\ k = 30 THEN 1 ELSE 0

LcdAt(f, j, k) ==
  CASE f.fn = "i2c_choice"    -> ChoiceAt(k)
    [] f.fn = "start"         -> StartAt(k)
    [] f.fn = "send_byte"     -> IF j = 3 THEN SendAt(f.arg, {"addr"}, k) ELSE LcdSendAt(k)
    [] f.fn = "lcd_recv_byte" -> LcdRecvAt(k)
    [] f.fn = "send_ack"      -> LcdAckAt(k)
    [] OTHER                  -> LcdStopAt(k)

\* The calls that can be made.
IsCall(c) ==
  /\ c \in [fn: {"write_byte", "write_data", "read_byte", "read_data", "lcd_read_data"},
            addr: Addr, reg: Reg, bytes: Seq(Data), len: Byte]
  /\ c.fn \in {"write_byte", "write_data"} <=> c.len = 0

\* The value of the bits counted so far has as many bits.
CountFits == seen.n < 9 => seen.v < <<1, 2, 4, 8, 16, 32, 64, 128, 256>>[seen.n + 1]

Typed == I2cTypeOK /\ CountFits /\ (call = [fn |-> "none"] \/ IsCall(call))

InCall ==
  LET f == Calls(call)[piece] IN
  /\ IsCall(call)
  /\ piece \in 1 .. Len(Calls(call))
  /\ op \in 1 .. Len(Body(f))
  /\ IF Standard THEN StandardAt(f, piece, op) ELSE LcdAt(f, piece, op)

AtRest ==
  /\ Resting
  /\ Closed
  /\ Returned /\ Standard =>
       /\ Logged(IF call.len = 0 THEN Len(call.bytes) + 4 ELSE call.len + 6)
       /\ Stored
       /\ Len(pdata) = call.len
       /\ slave.sent = <<>> \/ Len(slave.sent) = Len(pdata)

I2cInv ==
  /\ Typed
  /\ Idle => AtRest
  /\ ~Idle => InCall

-----------------------------------------------------------------------------
(* Bits, pieces and calls *)

\* Bit by bit the value grows to the byte.
LEMMA TopFacts ==
  ASSUME NEW b \in Byte
  PROVE  /\ Top(b, 0) = 0 /\ Top(b, 8) = b
         /\ \A m \in 0 .. 8 : Top(b, m) \in Byte
         /\ \A m \in 0 .. 7 : /\ BitOf(b, m + 1) \in {0, 1}
                              /\ 2 * Top(b, m) + BitOf(b, m + 1) = Top(b, m + 1)
<1>1. Top(b, 0) = 0 /\ Top(b, 8) = b /\ Top(b, 0) \in Byte /\ Top(b, 8) \in Byte
  BY DEF Top, Byte
<1>2. \A m \in 0 .. 7 :
        /\ Top(b, m) \in Byte
        /\ BitOf(b, m + 1) \in {0, 1}
        /\ 2 * Top(b, m) + BitOf(b, m + 1) = Top(b, m + 1)
  <2> TAKE m \in 0 .. 7
  <2>1. CASE m = 0 BY <2>1 DEF Top, BitOf, Byte, Weight
  <2>2. CASE m = 1 BY <2>2 DEF Top, BitOf, Byte, Weight
  <2>3. CASE m = 2 BY <2>3 DEF Top, BitOf, Byte, Weight
  <2>4. CASE m = 3 BY <2>4 DEF Top, BitOf, Byte, Weight
  <2>5. CASE m = 4 BY <2>5 DEF Top, BitOf, Byte, Weight
  <2>6. CASE m = 5 BY <2>6 DEF Top, BitOf, Byte, Weight
  <2>7. CASE m = 6 BY <2>7 DEF Top, BitOf, Byte, Weight
  <2>8. CASE m = 7 BY <2>8 DEF Top, BitOf, Byte, Weight
  <2>. QED BY <2>1, <2>2, <2>3, <2>4, <2>5, <2>6, <2>7, <2>8
<1>. QED BY <1>1, <1>2

\* All bits of 255 are ones.
LEMMA OnesFacts == \A m \in 0 .. 7 : BitOf(255, m + 1) = 1
  BY DEF BitOf, Weight

PinOps == {"SCL_SET_0", "SCL_SET_1", "SDA_SET_0", "SDA_SET_1", "SDA_GET",
           "SET_SCL_OUT", "SET_SDA_OUT", "SET_SDA_IN", "STORE"}

\* What three sequences in a row are.
LEMMA InARow ==
  ASSUME NEW S, NEW p \in Seq(S), NEW q \in Seq(S), NEW r \in Seq(S)
  PROVE  /\ p \o q \o r \in Seq(S)
         /\ Len(p \o q \o r) = Len(p) + Len(q) + Len(r)
         /\ \A k \in 1 .. Len(p) + Len(q) + Len(r) :
              (p \o q \o r)[k] = IF k <= Len(p) THEN p[k]
                                 ELSE IF k <= Len(p) + Len(q) THEN q[k - Len(p)]
                                 ELSE r[k - (Len(p) + Len(q))]
<1> DEFINE t == p \o q
<1>1. Len(p) \in Nat /\ Len(q) \in Nat /\ Len(r) \in Nat BY LenProperties
<1>2. t \in Seq(S) BY ConcatProperties
<1>3. /\ Len(t) = Len(p) + Len(q)
      /\ \A k \in 1 .. Len(p) + Len(q) : t[k] = IF k <= Len(p) THEN p[k] ELSE q[k - Len(p)]
  BY ConcatProperties
<1> HIDE DEF t
<1>4. /\ t \o r \in Seq(S) /\ Len(t \o r) = Len(t) + Len(r)
      /\ \A k \in 1 .. Len(t) + Len(r) :
           (t \o r)[k] = IF k <= Len(t) THEN t[k] ELSE r[k - Len(t)]
  BY <1>2, ConcatProperties
<1>5. \A k \in 1 .. Len(p) + Len(q) + Len(r) :
        (t \o r)[k] = IF k <= Len(p) THEN p[k]
                      ELSE IF k <= Len(p) + Len(q) THEN q[k - Len(p)]
                      ELSE r[k - (Len(p) + Len(q))]
  <2> TAKE k \in 1 .. Len(p) + Len(q) + Len(r)
  <2>1. CASE k <= Len(p) + Len(q)
    <3>1. k \in 1 .. Len(t) + Len(r) /\ k <= Len(t) /\ k \in 1 .. Len(p) + Len(q)
      BY <1>1, <1>3, <2>1
    <3>2. (t \o r)[k] = t[k] BY <1>4, <3>1
    <3>. QED BY <1>3, <2>1, <3>1, <3>2
  <2>2. CASE ~(k <= Len(p) + Len(q))
    <3>1. k \in 1 .. Len(t) + Len(r) /\ ~(k <= Len(t)) /\ ~(k <= Len(p))
      BY <1>1, <1>3, <2>2
    <3>. QED BY <1>3, <1>4, <2>2, <3>1
  <2>. QED BY <2>1, <2>2
<1>. QED BY <1>1, <1>3, <1>4, <1>5 DEF t

\* The operations of gpio_i2c_send_byte, one by one.
LEMMA SendOps ==
  ASSUME NEW b
  PROVE  LET s == gpio_i2c_send_byte(b) IN
         /\ Len(s) = 29
         /\ \A k \in 1 .. 24 : /\ k % 3 = 1 => s[k] = "SCL_SET_0"
                               /\ k % 3 = 2 => s[k] = SetSda(BitOf(b, (k + 1) \div 3))
                               /\ k % 3 = 0 => s[k] = "SCL_SET_1"
         /\ s[25] = "SCL_SET_0" /\ s[26] = "SET_SDA_IN" /\ s[27] = "SCL_SET_1"
         /\ s[28] = "SCL_SET_0" /\ s[29] = "SET_SDA_OUT"
<1> DEFINE w == [k \in 1 .. 24 |-> CASE k % 3 = 1 -> "SCL_SET_0"
                       [] k % 3 = 2 -> SetSda(BitOf(b, (k + 1) \div 3))
                       [] k % 3 = 0 -> "SCL_SET_1"]
<1>1. Len(w) = 24 OBVIOUS
<1>2. w \in Seq(PinOps)
  <2>1. \A k \in 1 .. 24 : k % 3 = 0 \/ k % 3 = 1 \/ k % 3 = 2 OBVIOUS
  <2>2. \A k \in 1 .. 24 : w[k] \in PinOps BY <2>1 DEF SetSda, PinOps
  <2>. QED BY <2>2
<1>3. \A k \in 1 .. 24 : /\ k % 3 = 1 => w[k] = "SCL_SET_0"
                         /\ k % 3 = 2 => w[k] = SetSda(BitOf(b, (k + 1) \div 3))
                         /\ k % 3 = 0 => w[k] = "SCL_SET_1"
  OBVIOUS
<1>4. SkipAck \in Seq(PinOps) BY DEF SkipAck, PinOps
<1>5. Len(SkipAck) = 5 BY DEF SkipAck
<1> DEFINE s == w \o SkipAck
<1>6. s = gpio_i2c_send_byte(b) BY DEF gpio_i2c_send_byte
<1> HIDE DEF w
<1>7. /\ Len(s) = Len(w) + Len(SkipAck)
      /\ \A k \in 1 .. Len(w) + Len(SkipAck) :
           s[k] = IF k <= Len(w) THEN w[k] ELSE SkipAck[k - Len(w)]
  BY <1>2, <1>4, ConcatProperties
<1> HIDE DEF s
<1>8. Len(s) = 29 /\ \A k \in 1 .. 29 : s[k] = IF k <= 24 THEN w[k] ELSE SkipAck[k - 24]
  BY <1>1, <1>5, <1>7
<1>9. \A k \in 1 .. 24 : s[k] = w[k] BY <1>8
<1>10. s[25] = SkipAck[1] /\ s[26] = SkipAck[2] /\ s[27] = SkipAck[3]
       /\ s[28] = SkipAck[4] /\ s[29] = SkipAck[5]
  BY <1>8
<1>. QED BY <1>3, <1>6, <1>8, <1>9, <1>10 DEF SkipAck

\* The bits of a byte read take 24 operations.
LEMMA ReadBitsTyped == ReadBits \in Seq(PinOps)
<1>1. \A k \in 1 .. 24 : k % 3 = 0 \/ k % 3 = 1 \/ k % 3 = 2 OBVIOUS
<1>2. \A k \in 1 .. 24 : ReadBits[k] \in PinOps BY <1>1 DEF ReadBits, PinOps
<1>. QED BY <1>2 DEF ReadBits

\* They repeat every three.
LEMMA ReadBitsOps ==
  /\ Len(ReadBits) = 24
  /\ \A k \in 1 .. 24 : /\ k % 3 = 1 => ReadBits[k] = "SCL_SET_1"
                        /\ k % 3 = 2 => ReadBits[k] = "SDA_GET"
                        /\ k % 3 = 0 => ReadBits[k] = "SCL_SET_0"
BY DEF ReadBits

\* The operations of gpio_i2c_recv_byte, one by one.
LEMMA RecvOps ==
  LET s == gpio_i2c_recv_byte IN
  /\ Len(s) = 29
  /\ s[1] = "SCL_SET_0" /\ s[2] = "SDA_SET_1" /\ s[3] = "SET_SDA_IN"
  /\ \A k \in 4 .. 27 : /\ k % 3 = 1 => s[k] = "SCL_SET_1"
                        /\ k % 3 = 2 => s[k] = "SDA_GET"
                        /\ k % 3 = 0 => s[k] = "SCL_SET_0"
  /\ s[28] = "SET_SDA_OUT" /\ s[29] = "STORE"
<1> DEFINE p == <<"SCL_SET_0", "SDA_SET_1", "SET_SDA_IN">>
           q == <<"SET_SDA_OUT", "STORE">>
           s == p \o ReadBits \o q
<1>1. p \in Seq(PinOps) /\ q \in Seq(PinOps) BY DEF PinOps
<1>2. /\ Len(p) = 3 /\ p[1] = "SCL_SET_0" /\ p[2] = "SDA_SET_1" /\ p[3] = "SET_SDA_IN"
      /\ Len(q) = 2 /\ q[1] = "SET_SDA_OUT" /\ q[2] = "STORE"
  OBVIOUS
<1>3. gpio_i2c_recv_byte = s BY DEF gpio_i2c_recv_byte
<1> HIDE DEF p, q
<1>10. /\ Len(s) = Len(p) + Len(ReadBits) + Len(q)
      /\ \A k \in 1 .. Len(p) + Len(ReadBits) + Len(q) :
           s[k] = IF k <= Len(p) THEN p[k]
                  ELSE IF k <= Len(p) + Len(ReadBits) THEN ReadBits[k - Len(p)]
                  ELSE q[k - (Len(p) + Len(ReadBits))]
  BY <1>1, ReadBitsTyped, InARow
<1> HIDE DEF s
<1>4. /\ Len(s) = 29
      /\ \A k \in 1 .. 29 :
           s[k] = IF k <= 3 THEN p[k] ELSE IF k <= 27 THEN ReadBits[k - 3] ELSE q[k - 27]
  BY <1>2, <1>10, ReadBitsOps
<1>5. \A k \in 4 .. 27 : s[k] = ReadBits[k - 3] /\ (k - 3) % 3 = k % 3 /\ k - 3 \in 1 .. 24
  <2> TAKE k \in 4 .. 27
  <2>1. k - 3 \in 1 .. 24 /\ 3 + (k - 3) = k OBVIOUS
  <2>. QED BY <1>4, <2>1
<1>6. s[28] = q[1] /\ s[29] = q[2] BY <1>4
<1>7. s[1] = p[1] /\ s[2] = p[2] /\ s[3] = p[3] BY <1>4
<1>. QED BY <1>2, <1>3, <1>4, <1>5, <1>6, <1>7, ReadBitsOps

\* The operations of its variant for the LCD.
LEMMA LcdRecvOps ==
  LET s == gpio_i2c_lcd_recv_byte IN
  /\ Len(s) = 28
  /\ s[1] = "SDA_SET_1" /\ s[2] = "SET_SDA_IN"
  /\ \A k \in 3 .. 26 : /\ k % 3 = 0 => s[k] = "SCL_SET_1"
                        /\ k % 3 = 1 => s[k] = "SDA_GET"
                        /\ k % 3 = 2 => s[k] = "SCL_SET_0"
  /\ s[27] = "SET_SDA_OUT" /\ s[28] = "STORE"
<1> DEFINE p == <<"SDA_SET_1", "SET_SDA_IN">>
           q == <<"SET_SDA_OUT", "STORE">>
           s == p \o ReadBits \o q
<1>1. p \in Seq(PinOps) /\ q \in Seq(PinOps) BY DEF PinOps
<1>2. /\ Len(p) = 2 /\ p[1] = "SDA_SET_1" /\ p[2] = "SET_SDA_IN"
      /\ Len(q) = 2 /\ q[1] = "SET_SDA_OUT" /\ q[2] = "STORE"
  OBVIOUS
<1>3. gpio_i2c_lcd_recv_byte = s BY DEF gpio_i2c_lcd_recv_byte
<1> HIDE DEF p, q
<1>10. /\ Len(s) = Len(p) + Len(ReadBits) + Len(q)
      /\ \A k \in 1 .. Len(p) + Len(ReadBits) + Len(q) :
           s[k] = IF k <= Len(p) THEN p[k]
                  ELSE IF k <= Len(p) + Len(ReadBits) THEN ReadBits[k - Len(p)]
                  ELSE q[k - (Len(p) + Len(ReadBits))]
  BY <1>1, ReadBitsTyped, InARow
<1> HIDE DEF s
<1>4. /\ Len(s) = 28
      /\ \A k \in 1 .. 28 :
           s[k] = IF k <= 2 THEN p[k] ELSE IF k <= 26 THEN ReadBits[k - 2] ELSE q[k - 26]
  BY <1>2, <1>10, ReadBitsOps
<1>5. \A k \in 3 .. 26 :
        /\ s[k] = ReadBits[k - 2] /\ k - 2 \in 1 .. 24
        /\ k % 3 = 0 => (k - 2) % 3 = 1
        /\ k % 3 = 1 => (k - 2) % 3 = 2
        /\ k % 3 = 2 => (k - 2) % 3 = 0
  <2> TAKE k \in 3 .. 26
  <2>1. k - 2 \in 1 .. 24 /\ 2 + (k - 2) = k OBVIOUS
  <2>. QED BY <1>4, <2>1
<1>6. s[27] = q[1] /\ s[28] = q[2] BY <1>4
<1>7. s[1] = p[1] /\ s[2] = p[2] BY <1>4
<1>. QED BY <1>2, <1>3, <1>4, <1>5, <1>6, <1>7, ReadBitsOps

FnNames == {"i2c_choice", "start", "send_byte", "recv_byte", "lcd_recv_byte",
            "send_ack", "stop"}

\* What the arguments of a call are.
LEMMA CallFacts ==
  ASSUME NEW c, IsCall(c)
  PROVE  /\ c.addr \in Byte /\ c.addr % 2 = 0 /\ ReadAddr(c.addr) = c.addr + 1
         /\ c.addr + 1 \in Byte /\ (c.addr + 1) % 2 = 1
         /\ c.reg \in Byte
         /\ c.bytes \in Seq(Byte)
         /\ c.len \in Nat
         /\ c.fn \in {"write_byte", "write_data"} <=> c.len = 0
         /\ c.fn \in {"write_byte", "write_data", "read_byte", "read_data", "lcd_read_data"}
<1>1. c.addr \in Addr /\ c.reg \in Reg /\ c.bytes \in Seq(Data) /\ c.len \in Byte
  BY DEF IsCall
<1>2. c.addr \in Byte /\ c.addr % 2 = 0 BY <1>1, AddrAssumption
<1>3. Data \in SUBSET Byte /\ c.reg \in Byte BY <1>1, ByteAssumption
<1>4. c.bytes \in Seq(Byte)
  <2>1. Len(c.bytes) \in Nat /\ c.bytes \in [1 .. Len(c.bytes) -> Data] BY <1>1, LenProperties
  <2>2. c.bytes \in [1 .. Len(c.bytes) -> Byte] BY <1>3, <2>1
  <2>. QED BY <2>1, <2>2
<1>5. c.addr + 1 \in Byte /\ (c.addr + 1) % 2 = 1 BY <1>2 DEF Byte
<1>6. ReadAddr(c.addr) = c.addr + 1 BY <1>2 DEF ReadAddr
<1>7. c.len \in Nat
  <2>1. c.len \in Byte BY <1>1
  <2>. QED BY <2>1 DEF Byte
<1>. QED BY <1>2, <1>3, <1>4, <1>5, <1>6, <1>7 DEF IsCall

\* A function that is called has a name and an argument.
LEMMA FunctionTypes ==
  /\ \A fn \in FnNames : Do(fn) \in [fn : FnNames, arg : Byte]
  /\ \A b \in Byte : Send(b) \in [fn : FnNames, arg : Byte]
  /\ \A a \in {0, 1} : Ack(a) \in [fn : FnNames, arg : Byte]
BY DEF Do, Send, Ack, FnNames, Byte

\* The functions that a write calls, one by one.
LEMMA WriteCalls ==
  ASSUME NEW c, IsCall(c), c.len = 0
  PROVE  /\ Len(c.bytes) \in Nat
         /\ Len(Calls(c)) = Len(c.bytes) + 5
         /\ Calls(c)[1] = Do("i2c_choice") /\ Calls(c)[2] = Do("start")
         /\ Calls(c)[3] = Send(c.addr) /\ Calls(c)[4] = Send(c.reg)
         /\ \A j \in 5 .. Len(c.bytes) + 4 :
              Calls(c)[j] = Send(c.bytes[j - 4]) /\ c.bytes[j - 4] \in Byte
         /\ Calls(c)[Len(c.bytes) + 5] = Do("stop")
<1> DEFINE S == [fn : FnNames, arg : Byte]
           p == <<Do("i2c_choice"), Do("start"), Send(c.addr), Send(c.reg)>>
           q == SendBytes(c.bytes)
           r == <<Do("stop")>>
           s == p \o q \o r
           n == Len(c.bytes)
<1>1. n \in Nat /\ DOMAIN c.bytes = 1 .. n /\ \A i \in 1 .. n : c.bytes[i] \in Byte
  BY CallFacts, LenProperties, ElementOfSeq
<1>2. q \in Seq(S) /\ Len(q) = n /\ \A i \in 1 .. n : q[i] = Send(c.bytes[i])
  <2>1. q = [i \in 1 .. n |-> Send(c.bytes[i])] BY <1>1 DEF SendBytes
  <2>2. \A i \in 1 .. n : Send(c.bytes[i]) \in S BY <1>1, FunctionTypes
  <2> HIDE DEF q, S, n
  <2>. QED BY <1>1, <2>1, <2>2
<1>3. p \in Seq(S)
  <2>1. /\ Do("i2c_choice") \in S /\ Do("start") \in S
        /\ Send(c.addr) \in S /\ Send(c.reg) \in S
    BY CallFacts, FunctionTypes DEF FnNames
  <2> HIDE DEF S
  <2>. QED BY <2>1
<1>4. r \in Seq(S)
  <2>1. Do("stop") \in S BY FunctionTypes DEF FnNames
  <2> HIDE DEF S
  <2>. QED BY <2>1
<1>5. /\ Len(p) = 4 /\ p[1] = Do("i2c_choice") /\ p[2] = Do("start")
      /\ p[3] = Send(c.addr) /\ p[4] = Send(c.reg)
      /\ Len(r) = 1 /\ r[1] = Do("stop")
  OBVIOUS
<1>6. Calls(c) = s BY CallFacts DEF Calls, WriteAddr
<1> HIDE DEF S, p, q, r
<1>7. /\ Len(s) = Len(p) + Len(q) + Len(r)
      /\ \A k \in 1 .. Len(p) + Len(q) + Len(r) :
           s[k] = IF k <= Len(p) THEN p[k]
                  ELSE IF k <= Len(p) + Len(q) THEN q[k - Len(p)]
                  ELSE r[k - (Len(p) + Len(q))]
  <2>1. q \in Seq(S) BY <1>2
  <2>. QED BY <1>3, <1>4, <2>1, InARow
<1> HIDE DEF s, n
<1>8. Len(q) = n /\ \A i \in 1 .. n : q[i] = Send(c.bytes[i]) BY <1>2
<1>9. /\ Len(s) = n + 5
      /\ \A k \in 1 .. n + 5 :
           s[k] = IF k <= 4 THEN p[k] ELSE IF k <= n + 4 THEN q[k - 4] ELSE r[k - (n + 4)]
  BY <1>1, <1>5, <1>7, <1>8
<1>10. s[1] = p[1] /\ s[2] = p[2] /\ s[3] = p[3] /\ s[4] = p[4] BY <1>1, <1>9
<1>11. \A j \in 5 .. n + 4 : s[j] = Send(c.bytes[j - 4]) /\ c.bytes[j - 4] \in Byte
  <2> TAKE j \in 5 .. n + 4
  <2>1. j \in 1 .. n + 5 /\ ~(j <= 4) /\ j <= n + 4 /\ j - 4 \in 1 .. n BY <1>1
  <2>. QED BY <1>1, <1>8, <1>9, <2>1
<1>12. s[n + 5] = r[1]
  <2>1. n + 5 \in 1 .. n + 5 /\ ~(n + 5 <= 4) /\ ~(n + 5 <= n + 4) /\ (n + 5) - (n + 4) = 1
    BY <1>1
  <2>. QED BY <1>9, <2>1
<1>. QED BY <1>1, <1>5, <1>6, <1>9, <1>10, <1>11, <1>12 DEF n

\* The functions of the loop that reads, one by one.
LEMMA RecvBytesIs ==
  ASSUME NEW recv, NEW len \in Nat \ {0}
  PROVE  LET q == RecvBytes(recv, len) IN
         /\ Len(q) = 2 * len
         /\ \A i \in 1 .. 2 * len :
              q[i] = IF i % 2 = 1 THEN Do(recv) ELSE Ack(IF i = 2 * len THEN 1 ELSE 0)
<1> DEFINE p == [i \in 1 .. 2 * len - 1 |-> IF i % 2 = 1 THEN Do(recv) ELSE Ack(0)]
           r == <<Ack(1)>>
           q == p \o r
           S == {Do(recv), Ack(0), Ack(1)}
<1>1. q = RecvBytes(recv, len) BY DEF RecvBytes
<1>2. /\ 2 * len - 1 \in Nat /\ Len(p) = 2 * len - 1
      /\ \A i \in 1 .. 2 * len - 1 : p[i] = IF i % 2 = 1 THEN Do(recv) ELSE Ack(0)
  OBVIOUS
<1>3. p \in Seq(S) /\ r \in Seq(S)
  <2>1. \A i \in 1 .. 2 * len - 1 : p[i] \in S BY <1>2
  <2>. QED BY <1>2, <2>1
<1>4. Len(r) = 1 /\ r[1] = Ack(1) OBVIOUS
<1> HIDE DEF p, r, S
<1>5. /\ Len(q) = Len(p) + Len(r)
      /\ \A k \in 1 .. Len(p) + Len(r) : q[k] = IF k <= Len(p) THEN p[k] ELSE r[k - Len(p)]
  BY <1>3, ConcatProperties
<1> HIDE DEF q
<1>6. /\ Len(q) = 2 * len
      /\ \A k \in 1 .. 2 * len : q[k] = IF k <= 2 * len - 1 THEN p[k] ELSE r[k - (2 * len - 1)]
  BY <1>2, <1>4, <1>5
<1>7. ASSUME NEW i \in 1 .. 2 * len
      PROVE  q[i] = IF i % 2 = 1 THEN Do(recv) ELSE Ack(IF i = 2 * len THEN 1 ELSE 0)
  <2>1. CASE i <= 2 * len - 1
    <3>1. i \in 1 .. 2 * len - 1 /\ i # 2 * len BY <2>1
    <3>. QED BY <1>2, <1>6, <2>1, <3>1
  <2>2. CASE ~(i <= 2 * len - 1)
    <3>1. i = 2 * len /\ i % 2 = 0 /\ i - (2 * len - 1) = 1 BY <2>2
    <3>. QED BY <1>4, <1>6, <2>2, <3>1
  <2>. QED BY <2>1, <2>2
<1>. QED BY <1>1, <1>6, <1>7

\* They are a sequence of functions.
LEMMA RecvBytesTyped ==
  ASSUME NEW S, NEW recv, NEW len \in Nat \ {0}, Do(recv) \in S, Ack(0) \in S, Ack(1) \in S
  PROVE  RecvBytes(recv, len) \in Seq(S)
<1> DEFINE p == [i \in 1 .. 2 * len - 1 |-> IF i % 2 = 1 THEN Do(recv) ELSE Ack(0)]
           r == <<Ack(1)>>
<1>1. p \in Seq(S)
  <2>1. 2 * len - 1 \in Nat OBVIOUS
  <2>2. \A i \in 1 .. 2 * len - 1 : p[i] \in S OBVIOUS
  <2>. QED BY <2>1, <2>2
<1>2. r \in Seq(S) OBVIOUS
<1>3. RecvBytes(recv, len) = p \o r BY DEF RecvBytes
<1> HIDE DEF p, r
<1>. QED BY <1>1, <1>2, <1>3, ConcatProperties

\* The functions that a read calls, one by one.
LEMMA ReadCalls ==
  ASSUME NEW c, IsCall(c), c.fn \in {"read_byte", "read_data"}
  PROVE  /\ c.len \in Nat \ {0}
         /\ Len(Calls(c)) = 2 * c.len + 7
         /\ Calls(c)[1] = Do("i2c_choice") /\ Calls(c)[2] = Do("start")
         /\ Calls(c)[3] = Send(c.addr) /\ Calls(c)[4] = Send(c.reg)
         /\ Calls(c)[5] = Do("start") /\ Calls(c)[6] = Send(c.addr + 1)
         /\ \A j \in 7 .. 2 * c.len + 6 :
              Calls(c)[j] = IF j % 2 = 1 THEN Do("recv_byte")
                            ELSE Ack(IF j = 2 * c.len + 6 THEN 1 ELSE 0)
         /\ Calls(c)[2 * c.len + 7] = Do("stop")
<1> DEFINE S == [fn : FnNames, arg : Byte]
           p == <<Do("i2c_choice"), Do("start"), Send(c.addr), Send(c.reg),
                  Do("start"), Send(c.addr + 1)>>
           q == RecvBytes("recv_byte", c.len)
           r == <<Do("stop")>>
           s == p \o q \o r
           n == 2 * c.len
<1>1. c.len \in Nat \ {0} BY CallFacts
<1>2. q \in Seq(S)
  <2>1. Do("recv_byte") \in S /\ Ack(0) \in S /\ Ack(1) \in S BY FunctionTypes DEF FnNames
  <2> HIDE DEF S
  <2>. QED BY <1>1, <2>1, RecvBytesTyped
<1>3. p \in Seq(S)
  <2>1. /\ Do("i2c_choice") \in S
        /\ Do("start") \in S
        /\ Send(c.addr) \in S
        /\ Send(c.reg) \in S
        /\ Do("start") \in S
        /\ Send(c.addr + 1) \in S
    BY CallFacts, FunctionTypes DEF FnNames
  <2> HIDE DEF S
  <2>. QED BY <2>1
<1>4. r \in Seq(S)
  <2>1. Do("stop") \in S BY FunctionTypes DEF FnNames
  <2> HIDE DEF S
  <2>. QED BY <2>1
<1>5. /\ Len(p) = 6 /\ p[1] = Do("i2c_choice") /\ p[2] = Do("start")
      /\ p[3] = Send(c.addr) /\ p[4] = Send(c.reg) /\ p[5] = Do("start") /\ p[6] = Send(c.addr + 1)
      /\ Len(r) = 1 /\ r[1] = Do("stop")
  OBVIOUS
<1>6. Calls(c) = s BY CallFacts DEF Calls, WriteAddr
<1>7. /\ n \in Nat /\ Len(q) = n
      /\ \A i \in 1 .. n : q[i] = IF i % 2 = 1 THEN Do("recv_byte") ELSE Ack(IF i = n THEN 1 ELSE 0)
  <2>1. n \in Nat BY <1>1
  <2>2. /\ Len(q) = n
        /\ \A i \in 1 .. n :
             q[i] = IF i % 2 = 1 THEN Do("recv_byte") ELSE Ack(IF i = n THEN 1 ELSE 0)
    BY <1>1, RecvBytesIs, Zenon
  <2>. QED BY <2>1, <2>2
<1> HIDE DEF S, p, q, r
<1>8. /\ Len(s) = Len(p) + Len(q) + Len(r)
      /\ \A k \in 1 .. Len(p) + Len(q) + Len(r) :
           s[k] = IF k <= Len(p) THEN p[k]
                  ELSE IF k <= Len(p) + Len(q) THEN q[k - Len(p)]
                  ELSE r[k - (Len(p) + Len(q))]
  BY <1>2, <1>3, <1>4, InARow
<1> HIDE DEF s, n
<1>9. /\ Len(s) = n + 7
      /\ \A k \in 1 .. n + 7 :
           s[k] = IF k <= 6 THEN p[k] ELSE IF k <= n + 6 THEN q[k - 6] ELSE r[k - (n + 6)]
  BY <1>5, <1>7, <1>8
<1>10. s[1] = p[1] /\ s[2] = p[2] /\ s[3] = p[3] /\ s[4] = p[4] /\ s[5] = p[5] /\ s[6] = p[6]
  BY <1>7, <1>9
<1>11. \A j \in 7 .. n + 6 : s[j] = IF j % 2 = 1 THEN Do("recv_byte")
                                  ELSE Ack(IF j = n + 6 THEN 1 ELSE 0)
  <2> TAKE j \in 7 .. n + 6
  <2> DEFINE i == j - 6
  <2>1. /\ j \in 1 .. n + 7 /\ ~(j <= 6) /\ j <= n + 6
        /\ i \in 1 .. n /\ i % 2 = j % 2 /\ (i = n <=> j = n + 6)
    BY <1>7
  <2>2. s[j] = q[i] BY <1>9, <2>1
  <2> HIDE DEF i
  <2>. QED BY <1>7, <2>1, <2>2
<1>12. s[n + 7] = r[1]
  <2>1. n + 7 \in 1 .. n + 7 /\ ~(n + 7 <= 6) /\ ~(n + 7 <= n + 6) /\ (n + 7) - (n + 6) = 1
    BY <1>7
  <2>. QED BY <1>9, <2>1
<1>. QED BY <1>1, <1>5, <1>6, <1>9, <1>10, <1>11, <1>12 DEF n

\* The functions that the read for the LCD calls, one by one.
LEMMA LcdCalls ==
  ASSUME NEW c, IsCall(c), c.fn = "lcd_read_data"
  PROVE  /\ c.len \in Nat \ {0}
         /\ Len(Calls(c)) = 2 * c.len + 5
         /\ Calls(c)[1] = Do("i2c_choice") /\ Calls(c)[2] = Do("start")
         /\ Calls(c)[3] = Send(c.addr + 1) /\ Calls(c)[4] = Send(c.reg)
         /\ \A j \in 5 .. 2 * c.len + 4 :
              Calls(c)[j] = IF j % 2 = 1 THEN Do("lcd_recv_byte")
                            ELSE Ack(IF j = 2 * c.len + 4 THEN 1 ELSE 0)
         /\ Calls(c)[2 * c.len + 5] = Do("stop")
<1> DEFINE S == [fn : FnNames, arg : Byte]
           p == <<Do("i2c_choice"), Do("start"), Send(c.addr + 1), Send(c.reg)>>
           q == RecvBytes("lcd_recv_byte", c.len)
           r == <<Do("stop")>>
           s == p \o q \o r
           n == 2 * c.len
<1>1. c.len \in Nat \ {0} BY CallFacts
<1>2. q \in Seq(S)
  <2>1. Do("lcd_recv_byte") \in S /\ Ack(0) \in S /\ Ack(1) \in S BY FunctionTypes DEF FnNames
  <2> HIDE DEF S
  <2>. QED BY <1>1, <2>1, RecvBytesTyped
<1>3. p \in Seq(S)
  <2>1. /\ Do("i2c_choice") \in S
        /\ Do("start") \in S
        /\ Send(c.addr + 1) \in S
        /\ Send(c.reg) \in S
    BY CallFacts, FunctionTypes DEF FnNames
  <2> HIDE DEF S
  <2>. QED BY <2>1
<1>4. r \in Seq(S)
  <2>1. Do("stop") \in S BY FunctionTypes DEF FnNames
  <2> HIDE DEF S
  <2>. QED BY <2>1
<1>5. /\ Len(p) = 4 /\ p[1] = Do("i2c_choice") /\ p[2] = Do("start")
      /\ p[3] = Send(c.addr + 1) /\ p[4] = Send(c.reg)
      /\ Len(r) = 1 /\ r[1] = Do("stop")
  OBVIOUS
<1>6. Calls(c) = s BY CallFacts DEF Calls, WriteAddr
<1>7. /\ n \in Nat /\ Len(q) = n
      /\ \A i \in 1 .. n : q[i] = IF i % 2 = 1 THEN Do("lcd_recv_byte") ELSE Ack(IF i = n THEN 1 ELSE 0)
  <2>1. n \in Nat BY <1>1
  <2>2. /\ Len(q) = n
        /\ \A i \in 1 .. n :
             q[i] = IF i % 2 = 1 THEN Do("lcd_recv_byte") ELSE Ack(IF i = n THEN 1 ELSE 0)
    BY <1>1, RecvBytesIs, Zenon
  <2>. QED BY <2>1, <2>2
<1> HIDE DEF S, p, q, r
<1>8. /\ Len(s) = Len(p) + Len(q) + Len(r)
      /\ \A k \in 1 .. Len(p) + Len(q) + Len(r) :
           s[k] = IF k <= Len(p) THEN p[k]
                  ELSE IF k <= Len(p) + Len(q) THEN q[k - Len(p)]
                  ELSE r[k - (Len(p) + Len(q))]
  BY <1>2, <1>3, <1>4, InARow
<1> HIDE DEF s, n
<1>9. /\ Len(s) = n + 5
      /\ \A k \in 1 .. n + 5 :
           s[k] = IF k <= 4 THEN p[k] ELSE IF k <= n + 4 THEN q[k - 4] ELSE r[k - (n + 4)]
  BY <1>5, <1>7, <1>8
<1>10. s[1] = p[1] /\ s[2] = p[2] /\ s[3] = p[3] /\ s[4] = p[4] BY <1>7, <1>9
<1>11. \A j \in 5 .. n + 4 : s[j] = IF j % 2 = 1 THEN Do("lcd_recv_byte")
                                  ELSE Ack(IF j = n + 4 THEN 1 ELSE 0)
  <2> TAKE j \in 5 .. n + 4
  <2> DEFINE i == j - 4
  <2>1. /\ j \in 1 .. n + 5 /\ ~(j <= 4) /\ j <= n + 4
        /\ i \in 1 .. n /\ i % 2 = j % 2 /\ (i = n <=> j = n + 4)
    BY <1>7
  <2>2. s[j] = q[i] BY <1>9, <2>1
  <2> HIDE DEF i
  <2>. QED BY <1>7, <2>1, <2>2
<1>12. s[n + 5] = r[1]
  <2>1. n + 5 \in 1 .. n + 5 /\ ~(n + 5 <= 4) /\ ~(n + 5 <= n + 4) /\ (n + 5) - (n + 4) = 1
    BY <1>7
  <2>. QED BY <1>9, <2>1
<1>. QED BY <1>1, <1>5, <1>6, <1>9, <1>10, <1>11, <1>12 DEF n

-----------------------------------------------------------------------------
(* The lines *)

Latches == [scl : {0, 1}, sda : {0, 1}, out : SUBSET {"SCL", "SDA"}]

\* What an operation does to the latches and directions.
LEMMA PinAfterFacts ==
  ASSUME pins \in Latches, NEW o, pins' = PinAfter(o)
  PROVE  /\ pins' \in Latches
         /\ pins'.scl = IF o = "SCL_SET_0" THEN 0 ELSE IF o = "SCL_SET_1" THEN 1 ELSE pins.scl
         /\ pins'.sda = IF o = "SDA_SET_0" THEN 0 ELSE IF o = "SDA_SET_1" THEN 1 ELSE pins.sda
         /\ "SCL" \in pins'.out <=> ("SCL" \in pins.out \/ o = "SET_SCL_OUT")
         /\ "SDA" \in pins'.out <=>
              (o = "SET_SDA_OUT" \/ ("SDA" \in pins.out /\ o # "SET_SDA_IN"))
<1>1. CASE o = "SCL_SET_0" BY <1>1 DEF PinAfter, Latches
<1>2. CASE o = "SCL_SET_1" BY <1>2 DEF PinAfter, Latches
<1>3. CASE o = "SDA_SET_0" BY <1>3 DEF PinAfter, Latches
<1>4. CASE o = "SDA_SET_1" BY <1>4 DEF PinAfter, Latches
<1>5. CASE o = "SET_SCL_OUT" BY <1>5 DEF PinAfter, Latches
<1>6. CASE o = "SET_SDA_OUT" BY <1>6 DEF PinAfter, Latches
<1>7. CASE o = "SET_SDA_IN" BY <1>7 DEF PinAfter, Latches
<1>8. CASE o \notin {"SCL_SET_0", "SCL_SET_1", "SDA_SET_0", "SDA_SET_1",
                     "SET_SCL_OUT", "SET_SDA_OUT", "SET_SDA_IN"}
  BY <1>8 DEF PinAfter, Latches
<1>. QED BY <1>1, <1>2, <1>3, <1>4, <1>5, <1>6, <1>7, <1>8

\* What the slave and the observer see of a pin operation.
LEMMA Edges ==
  ASSUME pins \in Latches, slave.sda \in {0, 1}, NEW o, Drive(o)
  PROVE  /\ pins' = PinAfter(o)
         /\ Scl(pins) = 0 /\ Scl(pins') = 0 => UNCHANGED <<slave, seen, bus>>
         /\ Scl(pins) = 0 /\ Scl(pins') = 1 => OnRise(Sda(pins', slave))
         /\ Scl(pins) = 1 /\ Scl(pins') = 0 => OnFall(Sda(pins, slave))
         /\ Scl(pins) = 1 /\ Scl(pins') = 1 =>
              /\ Sda(pins, slave) = Sda(pins', slave) => UNCHANGED <<slave, seen, bus>>
              /\ Sda(pins, slave) = 1 /\ Sda(pins', slave) = 0 => OnStart
              /\ Sda(pins, slave) = 0 /\ Sda(pins', slave) = 1 => OnStop
<1> DEFINE c0 == Scl(pins)
           d0 == Sda(pins, slave)
           c1 == Scl(pins')
           d1 == Sda(pins', slave)
<1>1. /\ pins' = PinAfter(o)
      /\ \/ c0 = 1 /\ c1 = 1 /\ d0 = 1 /\ d1 = 0 /\ OnStart
         \/ c0 = 1 /\ c1 = 1 /\ d0 = 0 /\ d1 = 1 /\ OnStop
         \/ c0 = 0 /\ c1 = 1 /\ OnRise(d1)
         \/ c0 = 1 /\ c1 = 0 /\ OnFall(d0)
         \/ c0 = c1 /\ (c0 = 0 \/ d0 = d1) /\ UNCHANGED <<slave, seen, bus>>
  BY DEF Drive
<1> HIDE DEF c0, d0, c1, d1
<1>2. /\ pins' = PinAfter(o)
      /\ c0 = 0 /\ c1 = 0 => UNCHANGED <<slave, seen, bus>>
      /\ c0 = 0 /\ c1 = 1 => OnRise(d1)
      /\ c0 = 1 /\ c1 = 0 => OnFall(d0)
      /\ c0 = 1 /\ c1 = 1 =>
           /\ d0 = d1 => UNCHANGED <<slave, seen, bus>>
           /\ d0 = 1 /\ d1 = 0 => OnStart
           /\ d0 = 0 /\ d1 = 1 => OnStop
  BY <1>1
<1>. QED BY <1>2 DEF c0, d0, c1, d1

\* SCL is raised or lowered, or SDA changes while it is low.
LEMMA RaiseScl ==
  ASSUME pins \in Latches, slave.sda \in {0, 1}, "SCL" \in pins.out, Drive("SCL_SET_1")
  PROVE  /\ pins' \in Latches /\ pins'.scl = 1 /\ pins'.sda = pins.sda /\ "SCL" \in pins'.out
         /\ "SDA" \in pins'.out <=> "SDA" \in pins.out
         /\ pins.scl = 1 => UNCHANGED <<slave, seen, bus>>
         /\ pins.scl = 0 => OnRise(Sda(pins, slave))
<1>1. pins' = PinAfter("SCL_SET_1") BY Edges
<1>2. /\ pins' \in Latches /\ pins'.scl = 1 /\ pins'.sda = pins.sda /\ "SCL" \in pins'.out
      /\ "SDA" \in pins'.out <=> "SDA" \in pins.out
  BY <1>1, PinAfterFacts
<1>3. Scl(pins) = pins.scl /\ Scl(pins') = 1 BY <1>2 DEF Scl
<1>4. Sda(pins', slave) = Sda(pins, slave) BY <1>2 DEF Sda
<1>. QED BY <1>2, <1>3, <1>4, Edges

\* What an operation does that lowers SCL.
LEMMA LowerScl ==
  ASSUME pins \in Latches, slave.sda \in {0, 1}, "SCL" \in pins.out, Drive("SCL_SET_0")
  PROVE  /\ pins' \in Latches /\ pins'.scl = 0 /\ pins'.sda = pins.sda /\ "SCL" \in pins'.out
         /\ "SDA" \in pins'.out <=> "SDA" \in pins.out
         /\ pins.scl = 0 => UNCHANGED <<slave, seen, bus>>
         /\ pins.scl = 1 => OnFall(Sda(pins, slave))
<1>1. pins' = PinAfter("SCL_SET_0") BY Edges
<1>2. /\ pins' \in Latches /\ pins'.scl = 0 /\ pins'.sda = pins.sda /\ "SCL" \in pins'.out
      /\ "SDA" \in pins'.out <=> "SDA" \in pins.out
  BY <1>1, PinAfterFacts
<1>3. Scl(pins) = pins.scl /\ Scl(pins') = 0 BY <1>2 DEF Scl
<1>4. pins.scl \in {0, 1} BY DEF Latches
<1>. QED BY <1>2, <1>3, <1>4, Edges

SdaOps == {"SDA_SET_0", "SDA_SET_1", "SET_SDA_OUT", "SET_SDA_IN"}

\* What an operation on SDA does to the levels.
LEMMA SdaFacts ==
  ASSUME pins \in Latches, slave.sda \in {0, 1}, "SCL" \in pins.out, NEW o \in SdaOps, Drive(o)
  PROVE  /\ pins' \in Latches /\ pins'.scl = pins.scl /\ "SCL" \in pins'.out
         /\ pins'.sda = IF o = "SDA_SET_0" THEN 0 ELSE IF o = "SDA_SET_1" THEN 1 ELSE pins.sda
         /\ "SDA" \in pins'.out <=>
              (o = "SET_SDA_OUT" \/ ("SDA" \in pins.out /\ o # "SET_SDA_IN"))
         /\ pins.scl = 0 => UNCHANGED <<slave, seen, bus>>
         /\ pins.scl = 1 =>
              /\ Sda(pins, slave) = Sda(pins', slave) => UNCHANGED <<slave, seen, bus>>
              /\ Sda(pins, slave) = 1 /\ Sda(pins', slave) = 0 => OnStart
              /\ Sda(pins, slave) = 0 /\ Sda(pins', slave) = 1 => OnStop
<1>1. pins' = PinAfter(o) BY Edges
<1>2. /\ pins' \in Latches /\ pins'.scl = pins.scl /\ "SCL" \in pins'.out
      /\ pins'.sda = IF o = "SDA_SET_0" THEN 0 ELSE IF o = "SDA_SET_1" THEN 1 ELSE pins.sda
      /\ "SDA" \in pins'.out <=>
           (o = "SET_SDA_OUT" \/ ("SDA" \in pins.out /\ o # "SET_SDA_IN"))
  BY <1>1, PinAfterFacts DEF SdaOps
<1>3. Scl(pins) = pins.scl /\ Scl(pins') = pins.scl BY <1>2 DEF Scl
<1>. QED BY <1>2, <1>3, Edges

-----------------------------------------------------------------------------
(* The slave and the observer *)

Events == [ev : {"S", "P", "byte"}, byte : Byte, ack : {0, 1}]

Counter == [open : BOOLEAN, n : 0 .. 9, v : Byte]
SlaveState == [role : {"none", "addr", "rx", "tx"}, byte : Byte, sda : {0, 1}, sent : Seq(Byte)]

\* A byte is counted bit by bit, and noted with its acknowledge.
LEMMA Rises ==
  ASSUME seen \in Counter, NEW d \in {0, 1}, OnRise(d)
  PROVE  /\ UNCHANGED slave
         /\ seen.open /\ seen.n < 8 =>
              UNCHANGED bus /\ seen'.open /\ seen'.n = seen.n + 1 /\ seen'.v = 2 * seen.v + d
         /\ seen.open /\ seen.n = 8 =>
              /\ bus' = Append(bus, [ev |-> "byte", byte |-> seen.v, ack |-> d])
              /\ seen'.open /\ seen'.n = 9 /\ seen'.v = seen.v
         /\ ~seen.open => UNCHANGED <<seen, bus>>
<1>1. UNCHANGED slave BY DEF OnRise
<1>2. CASE seen.open /\ seen.n < 8
  <2>1. UNCHANGED bus /\ seen' = [seen EXCEPT !.n = @ + 1, !.v = 2 * @ + d]
    BY <1>2 DEF OnRise, Counter
  <2>2. seen'.open = seen.open /\ seen'.n = seen.n + 1 /\ seen'.v = 2 * seen.v + d
    BY <2>1 DEF Counter
  <2>. QED BY <1>1, <1>2, <2>1, <2>2 DEF Counter
<1>3. CASE seen.open /\ seen.n = 8 BY <1>1, <1>3 DEF OnRise, Counter, Log
<1>4. CASE ~seen.open BY <1>1, <1>4 DEF OnRise
<1>5. CASE seen.n = 9 BY <1>5, <1>1 DEF OnRise
<1>. QED BY <1>1, <1>2, <1>3, <1>4, <1>5 DEF Counter

\* A slave that starts to send drives the first bit of some byte.
LEMMA FirstBit ==
  ASSUME slave \in SlaveState, SendFirstBit
  PROVE  /\ slave' \in SlaveState
         /\ slave'.role = "tx" /\ slave'.sda = BitOf(slave'.byte, 1)
         /\ slave'.sent = Append(slave.sent, slave'.byte)
<1>1. PICK b \in SlaveData :
        slave' = [slave EXCEPT !.role = "tx", !.byte = b, !.sda = BitOf(b, 1),
                               !.sent = Append(@, b)]
  BY DEF SendFirstBit
<1>2. b \in Byte BY ByteAssumption
<1>3. BitOf(b, 1) \in {0, 1} BY <1>2 DEF BitOf, Weight, Byte
<1>4. Append(slave.sent, b) \in Seq(Byte) BY <1>2, AppendProperties DEF SlaveState
<1>. QED BY <1>1, <1>2, <1>3, <1>4 DEF SlaveState

\* A slave that lets SDA go.
LEMMA Releases ==
  ASSUME slave \in SlaveState, NEW r \in {"none", "addr", "rx", "tx"}, Released(r)
  PROVE  /\ slave' \in SlaveState
         /\ slave'.role = r /\ slave'.sda = 1
         /\ slave'.byte = slave.byte /\ slave'.sent = slave.sent
  BY DEF Released, SlaveState

\* What the observer and the slave do when SCL falls.
LEMMA Falls ==
  ASSUME seen \in Counter, slave \in SlaveState, NEW d \in {0, 1}, OnFall(d)
  PROVE  /\ UNCHANGED bus
         /\ slave' \in SlaveState
         /\ seen.n < 9 => UNCHANGED seen
         /\ seen.n = 9 => seen'.open = seen.open /\ seen'.n = 0 /\ seen'.v = 0
         /\ slave.role = "none" => UNCHANGED slave
         /\ slave.role \in {"addr", "rx"} /\ seen.n < 8 => UNCHANGED slave
         /\ slave.role \in {"addr", "rx"} /\ seen.n = 8 =>
              slave'.role = slave.role /\ slave'.byte = slave.byte /\ slave'.sent = slave.sent
         /\ slave.role = "addr" /\ seen.n = 9 =>
              \/ Released("none")
              \/ seen.v % 2 = 1 /\ SendFirstBit
              \/ seen.v % 2 # 1 /\ Released("rx")
         /\ slave.role = "rx" /\ seen.n = 9 => Released("rx")
         /\ slave.role = "tx" /\ seen.n < 8 =>
              /\ slave'.role = "tx" /\ slave'.sda = BitOf(slave.byte, seen.n + 1)
              /\ slave'.byte = slave.byte /\ slave'.sent = slave.sent
         /\ slave.role = "tx" /\ seen.n = 8 => Released("tx")
         /\ slave.role = "tx" /\ seen.n = 9 => IF d = 0 THEN SendFirstBit ELSE Released("none")
<1>1. /\ UNCHANGED bus
      /\ seen.n < 9 => UNCHANGED seen
      /\ seen.n = 9 => seen'.open = seen.open /\ seen'.n = 0 /\ seen'.v = 0
  BY DEF OnFall, Counter
<1>2. slave.role \in {"none", "addr", "rx", "tx"} /\ seen.n \in 0 .. 9 /\ slave.sda \in {0, 1}
  BY DEF SlaveState, Counter
<1>3. CASE slave.role = "none"
  <2>1. UNCHANGED slave BY <1>3 DEF OnFall
  <2>. QED BY <1>1, <1>3, <2>1
<1>4. CASE slave.role \in {"addr", "rx"} /\ seen.n < 8
  <2>1. UNCHANGED slave BY <1>4, <1>2 DEF OnFall
  <2>. QED BY <1>1, <1>4, <2>1
<1>5. CASE slave.role \in {"addr", "rx"} /\ seen.n = 8
  <2>1. PICK ack \in {0, 1} : slave' = [slave EXCEPT !.sda = ack] BY <1>5, <1>2 DEF OnFall
  <2>2. /\ slave' \in SlaveState
        /\ slave'.role = slave.role /\ slave'.byte = slave.byte /\ slave'.sent = slave.sent
    BY <2>1 DEF SlaveState
  <2>. QED BY <1>1, <1>5, <2>2
<1>6. CASE slave.role = "addr" /\ seen.n = 9
  <2>1. \/ Released("none")
        \/ seen.v % 2 = 1 /\ SendFirstBit
        \/ seen.v % 2 # 1 /\ Released("rx")
    BY <1>6, <1>2 DEF OnFall
  <2>2. slave' \in SlaveState BY <2>1, Releases, FirstBit
  <2>. QED BY <1>1, <1>6, <2>1, <2>2
<1>7. CASE slave.role = "rx" /\ seen.n = 9
  <2>1. Released("rx") BY <1>7, <1>2 DEF OnFall
  <2>2. slave' \in SlaveState BY <2>1, Releases
  <2>. QED BY <1>1, <1>7, <2>1, <2>2
<1>8. CASE slave.role = "tx" /\ seen.n < 8
  <2>1. slave' = [slave EXCEPT !.sda = BitOf(slave.byte, seen.n + 1)] BY <1>8, <1>2 DEF OnFall
  <2>2. slave.byte \in Byte /\ seen.n \in 0 .. 7 BY <1>8, <1>2 DEF SlaveState
  <2>3. BitOf(slave.byte, seen.n + 1) \in {0, 1} BY <2>2, TopFacts
  <2>4. /\ slave' \in SlaveState /\ slave'.role = slave.role
        /\ slave'.sda = BitOf(slave.byte, seen.n + 1)
        /\ slave'.byte = slave.byte /\ slave'.sent = slave.sent
    BY <2>1, <2>3 DEF SlaveState
  <2>. QED BY <1>1, <1>8, <2>4
<1>9. CASE slave.role = "tx" /\ seen.n = 8
  <2>1. Released("tx") BY <1>9, <1>2 DEF OnFall
  <2>2. slave' \in SlaveState BY <2>1, Releases
  <2>. QED BY <1>1, <1>9, <2>1, <2>2
<1>10. CASE slave.role = "tx" /\ seen.n = 9
  <2>1. IF d = 0 THEN SendFirstBit ELSE Released("none") BY <1>10, <1>2 DEF OnFall
  <2>2. slave' \in SlaveState BY <2>1, Releases, FirstBit
  <2>. QED BY <1>1, <1>10, <2>1, <2>2
<1>11. seen.n < 8 \/ seen.n = 8 \/ seen.n = 9 BY <1>2
<1>. QED BY <1>2, <1>3, <1>4, <1>5, <1>6, <1>7, <1>8, <1>9, <1>10, <1>11

\* What a start and a stop condition leave.
LEMMA Conditions ==
  ASSUME slave \in SlaveState
  PROVE  /\ OnStart => /\ bus' = Append(bus, [ev |-> "S", byte |-> 0, ack |-> 0])
                       /\ seen'.open /\ seen'.n = 0 /\ seen'.v = 0 /\ seen' \in Counter
                       /\ slave'.role = "addr" /\ slave'.sda = 1
                       /\ slave'.byte = slave.byte /\ slave'.sent = slave.sent
                       /\ slave' \in SlaveState
         /\ OnStop => /\ bus' = Append(bus, [ev |-> "P", byte |-> 0, ack |-> 0])
                      /\ ~seen'.open /\ seen'.n = 0 /\ seen'.v = 0 /\ seen' \in Counter
                      /\ slave'.role = "none" /\ slave'.sda = 1
                      /\ slave'.byte = slave.byte /\ slave'.sent = slave.sent
                      /\ slave' \in SlaveState
<1>1. ASSUME OnStart
      PROVE  /\ bus' = Append(bus, [ev |-> "S", byte |-> 0, ack |-> 0])
             /\ seen' = [open |-> TRUE, n |-> 0, v |-> 0]
             /\ slave' = [slave EXCEPT !.role = "addr", !.sda = 1]
  BY <1>1 DEF OnStart, Log
<1>2. ASSUME OnStop
      PROVE  /\ bus' = Append(bus, [ev |-> "P", byte |-> 0, ack |-> 0])
             /\ seen' = [open |-> FALSE, n |-> 0, v |-> 0]
             /\ slave' = [slave EXCEPT !.role = "none", !.sda = 1]
  BY <1>2 DEF OnStop, Log
<1>3. 0 \in Byte /\ 0 \in 0 .. 9 BY DEF Byte
<1>4. ASSUME NEW b \in BOOLEAN, seen' = [open |-> b, n |-> 0, v |-> 0]
      PROVE  seen'.open = b /\ seen'.n = 0 /\ seen'.v = 0 /\ seen' \in Counter
  BY <1>3, <1>4 DEF Counter
<1>5. ASSUME NEW r \in {"none", "addr"}, slave' = [slave EXCEPT !.role = r, !.sda = 1]
      PROVE  /\ slave' \in SlaveState
             /\ slave'.role = r /\ slave'.sda = 1
             /\ slave'.byte = slave.byte /\ slave'.sent = slave.sent
  BY <1>5 DEF SlaveState
<1>. QED BY <1>1, <1>2, <1>4, <1>5

-----------------------------------------------------------------------------
(* The types *)

\* The type invariant, variable by variable.
LEMMA TypeParts ==
  I2cTypeOK <=> /\ piece \in Nat /\ op \in Nat
                /\ bus \in Seq(Events) /\ pins \in Latches /\ data \in Byte
                /\ pdata \in Seq(Byte) /\ slave \in SlaveState /\ seen \in Counter
  BY DEF I2cTypeOK, Events, Latches, SlaveState, Counter

\* The lines have levels.
LEMMA SdaLevel ==
  ASSUME NEW p, NEW s, p \in Latches, s \in SlaveState
  PROVE  Sda(p, s) \in {0, 1} /\ Scl(p) \in {0, 1}
  BY DEF Sda, Scl, Latches, SlaveState

\* A rising edge of SCL keeps the types.
LEMMA RiseTyped ==
  ASSUME seen \in Counter, CountFits, NEW d \in {0, 1}, OnRise(d), bus \in Seq(Events)
  PROVE  seen' \in Counter /\ CountFits' /\ bus' \in Seq(Events)
<1>1. seen.open \in BOOLEAN /\ seen.n \in 0 .. 9 /\ seen.v \in Byte BY DEF Counter
<1>2. CASE seen.open /\ seen.n < 8
  <2>1. UNCHANGED bus /\ seen' = [seen EXCEPT !.n = @ + 1, !.v = 2 * @ + d]
    BY <1>2 DEF OnRise, Counter
  <2>2. PICK n \in 0 .. 7 : seen.n = n BY <1>1, <1>2
  <2>3. PICK v \in Nat : seen.v = v BY <1>1 DEF Byte
  <2>4. v < <<1, 2, 4, 8, 16, 32, 64, 128, 256>>[n + 1] BY <2>2, <2>3 DEF CountFits
  <2>5. 2 * v + d < <<1, 2, 4, 8, 16, 32, 64, 128, 256>>[n + 2] /\ 2 * v + d < 256
    <3>0. n \in 0 .. 7 OBVIOUS
    <3>1. CASE n = 0 BY <2>4, <3>1
    <3>2. CASE n = 1 BY <2>4, <3>2
    <3>3. CASE n = 2 BY <2>4, <3>3
    <3>4. CASE n = 3 BY <2>4, <3>4
    <3>5. CASE n = 4 BY <2>4, <3>5
    <3>6. CASE n = 5 BY <2>4, <3>6
    <3>7. CASE n = 6 BY <2>4, <3>7
    <3>8. CASE n = 7 BY <2>4, <3>8
    <3>. QED BY <3>0, <3>1, <3>2, <3>3, <3>4, <3>5, <3>6, <3>7, <3>8
  <2>6. 2 * v + d \in Byte /\ n + 1 \in 0 .. 9 BY <2>5 DEF Byte
  <2>7. seen' = [seen EXCEPT !.n = n + 1, !.v = 2 * v + d] BY <2>1, <2>2, <2>3
  <2>8. seen' \in Counter /\ seen'.n = n + 1 /\ seen'.v = 2 * v + d
    BY <2>6, <2>7 DEF Counter
  <2>9. CountFits' BY <2>5, <2>8 DEF CountFits
  <2>. QED BY <2>1, <2>8, <2>9
<1>3. CASE seen.open /\ seen.n = 8
  <2>1. /\ bus' = Append(bus, [ev |-> "byte", byte |-> seen.v, ack |-> d])
        /\ seen' = [seen EXCEPT !.n = 9]
    BY <1>3 DEF OnRise, Counter, Log
  <2>2. seen' \in Counter /\ seen'.n = 9 BY <2>1 DEF Counter
  <2>3. [ev |-> "byte", byte |-> seen.v, ack |-> d] \in Events BY <1>1 DEF Events
  <2>4. bus' \in Seq(Events) BY <2>1, <2>3, AppendProperties
  <2>. QED BY <2>2, <2>4 DEF CountFits
<1>4. CASE ~seen.open
  <2>1. UNCHANGED <<seen, bus>> BY <1>4 DEF OnRise
  <2>. QED BY <2>1 DEF CountFits
<1>5. CASE seen.n = 9 /\ seen.open BY <1>5 DEF OnRise
<1>. QED BY <1>1, <1>2, <1>3, <1>4, <1>5

\* A falling edge keeps them.
LEMMA FallTyped ==
  ASSUME seen \in Counter, slave \in SlaveState, CountFits, NEW d \in {0, 1}, OnFall(d)
  PROVE  seen' \in Counter /\ slave' \in SlaveState /\ CountFits' /\ UNCHANGED bus
<1>1. slave' \in SlaveState /\ UNCHANGED bus BY Falls
<1>2. CASE seen.n = 9
  <2>1. seen' = [seen EXCEPT !.n = 0, !.v = 0] BY <1>2 DEF OnFall
  <2>2. seen' \in Counter /\ seen'.n = 0 /\ seen'.v = 0
    <3>1. 0 \in Byte /\ 0 \in 0 .. 9 BY DEF Byte
    <3>2. PICK z \in Byte : z = 0 BY <3>1
    <3>3. seen' = [seen EXCEPT !.n = 0, !.v = z] BY <2>1, <3>2
    <3>. QED BY <3>1, <3>2, <3>3 DEF Counter
  <2>. QED BY <1>1, <2>2 DEF CountFits
<1>3. CASE seen.n # 9
  <2>1. seen' = seen BY <1>3 DEF OnFall
  <2>. QED BY <1>1, <2>1 DEF CountFits
<1>. QED BY <1>2, <1>3

\* So does every pin operation.
LEMMA DriveTyped ==
  ASSUME I2cTypeOK, CountFits, NEW o, Drive(o)
  PROVE  /\ pins' \in Latches /\ slave' \in SlaveState /\ seen' \in Counter
         /\ bus' \in Seq(Events) /\ CountFits'
<1>1. /\ bus \in Seq(Events) /\ pins \in Latches /\ slave \in SlaveState /\ seen \in Counter
      /\ slave.sda \in {0, 1}
  BY TypeParts DEF SlaveState
<1>2. pins' = PinAfter(o) BY <1>1, Edges
<1>3. pins' \in Latches BY <1>1, <1>2, PinAfterFacts
<1>4. /\ Sda(pins, slave) \in {0, 1} /\ Sda(pins', slave) \in {0, 1}
      /\ Scl(pins) \in {0, 1} /\ Scl(pins') \in {0, 1}
  BY <1>1, <1>3, SdaLevel
<1>5. CASE UNCHANGED <<slave, seen, bus>> BY <1>1, <1>3, <1>5 DEF CountFits
<1>6. CASE OnRise(Sda(pins', slave))
  <2>1. slave' = slave BY <1>6 DEF OnRise
  <2>. QED BY <1>1, <1>3, <1>4, <1>6, <2>1, RiseTyped
<1>7. CASE OnFall(Sda(pins, slave))
  BY <1>1, <1>3, <1>4, <1>7, FallTyped
<1>8. CASE OnStart \/ OnStop
  <2>1. /\ seen' \in Counter /\ slave' \in SlaveState /\ seen'.n = 0 /\ seen'.v = 0
        /\ \E ev \in {"S", "P"} : bus' = Append(bus, [ev |-> ev, byte |-> 0, ack |-> 0])
    BY <1>1, <1>8, Conditions
  <2>2. CountFits' BY <2>1 DEF CountFits
  <2>3. \A ev \in {"S", "P"} : [ev |-> ev, byte |-> 0, ack |-> 0] \in Events
    BY DEF Events, Byte
  <2>4. bus' \in Seq(Events) BY <1>1, <2>1, <2>3, AppendProperties
  <2>. QED BY <1>3, <2>1, <2>2, <2>4
<1>. QED BY <1>1, <1>4, <1>5, <1>6, <1>7, <1>8, Edges

\* What the five actions that make a call have in common.
LEMMA CallIs ==
  ASSUME WriteByte \/ WriteData \/ ReadByte \/ ReadData \/ LcdReadData
  PROVE  /\ Idle
         /\ IsCall(call') /\ piece' = 1 /\ op' = 1 /\ data' = 0 /\ pdata' = <<>> /\ bus' = <<>>
         /\ slave' = [slave EXCEPT !.sent = <<>>]
         /\ UNCHANGED <<pins, seen>>
<1> DEFINE P == /\ piece' = 1 /\ op' = 1 /\ data' = 0 /\ pdata' = <<>> /\ bus' = <<>>
                /\ slave' = [slave EXCEPT !.sent = <<>>]
                /\ UNCHANGED <<pins, seen>>
<1>1. \A c : Call(c) => call' = c /\ P BY DEF Call
<1> HIDE DEF P
<1>0. 0 \in Byte /\ 1 \in Byte /\ 1 # 0 BY DEF Byte
<1>2. CASE WriteByte
  <2>1. PICK a \in Addr, r \in Reg, b \in Data :
          Idle /\ Call([fn |-> "write_byte", addr |-> a, reg |-> r, bytes |-> <<b>>, len |-> 0])
    BY <1>2 DEF WriteByte
  <2>2. <<b>> \in Seq(Data) OBVIOUS
  <2>3. IsCall([fn |-> "write_byte", addr |-> a, reg |-> r, bytes |-> <<b>>, len |-> 0])
    BY <1>0, <2>2 DEF IsCall
  <2>. QED BY <1>1, <2>1, <2>3 DEF P
<1>3. CASE WriteData
  <2>1. PICK a \in Addr, r \in Reg, s \in BoundedSeq(Data, MaxLen) :
          Idle /\ Call([fn |-> "write_data", addr |-> a, reg |-> r, bytes |-> s, len |-> 0])
    BY <1>3 DEF WriteData
  <2>2. s \in Seq(Data)
    <3>1. PICK n \in 0 .. MaxLen : s \in [1 .. n -> Data] BY DEF BoundedSeq, SeqOf
    <3>2. n \in Nat BY LenAssumption DEF Byte
    <3>. QED BY <3>1, <3>2
  <2>3. IsCall([fn |-> "write_data", addr |-> a, reg |-> r, bytes |-> s, len |-> 0])
    BY <1>0, <2>2 DEF IsCall
  <2>. QED BY <1>1, <2>1, <2>3 DEF P
<1>4. <<>> \in Seq(Data) OBVIOUS
<1>5. CASE ReadByte
  <2>1. PICK a \in Addr, r \in Reg :
          Idle /\ Call([fn |-> "read_byte", addr |-> a, reg |-> r, bytes |-> <<>>, len |-> 1])
    BY <1>5 DEF ReadByte
  <2>2. IsCall([fn |-> "read_byte", addr |-> a, reg |-> r, bytes |-> <<>>, len |-> 1])
    BY <1>0, <1>4 DEF IsCall
  <2>. QED BY <1>1, <2>1, <2>2 DEF P
<1>6. CASE ReadData
  <2>1. PICK a \in Addr, r \in Reg, n \in Lens :
          Idle /\ Call([fn |-> "read_data", addr |-> a, reg |-> r, bytes |-> <<>>, len |-> n])
    BY <1>6 DEF ReadData
  <2>2. n \in Byte /\ n # 0 BY LenAssumption
  <2>3. IsCall([fn |-> "read_data", addr |-> a, reg |-> r, bytes |-> <<>>, len |-> n])
    BY <1>4, <2>2 DEF IsCall
  <2>. QED BY <1>1, <2>1, <2>3 DEF P
<1>7. CASE LcdReadData
  <2>1. PICK a \in Addr, r \in Reg, n \in Lens :
          Idle /\ Call([fn |-> "lcd_read_data", addr |-> a, reg |-> r, bytes |-> <<>>, len |-> n])
    BY <1>7 DEF LcdReadData
  <2>2. n \in Byte /\ n # 0 BY LenAssumption
  <2>3. IsCall([fn |-> "lcd_read_data", addr |-> a, reg |-> r, bytes |-> <<>>, len |-> n])
    BY <1>4, <2>2 DEF IsCall
  <2>. QED BY <1>1, <2>1, <2>3 DEF P
<1>. QED BY <1>2, <1>3, <1>5, <1>6, <1>7

\* The program counter stays one.
LEMMA AdvanceTyped ==
  ASSUME piece \in Nat, op \in Nat, Advance
  PROVE  piece' \in Nat /\ op' \in Nat
  BY DEF Advance

\* Every step keeps the types, and the initial state has them.
LEMMA TypeStep ==
  ASSUME Typed, [I2cNext]_i2cVars
  PROVE  Typed'
<1>1. /\ piece \in Nat /\ op \in Nat
      /\ bus \in Seq(Events) /\ pins \in Latches /\ data \in Byte
      /\ pdata \in Seq(Byte) /\ slave \in SlaveState /\ seen \in Counter
      /\ CountFits /\ I2cTypeOK
      /\ call = [fn |-> "none"] \/ IsCall(call)
  BY TypeParts DEF Typed
<1> SUFFICES /\ piece' \in Nat /\ op' \in Nat
             /\ bus' \in Seq(Events) /\ pins' \in Latches /\ data' \in Byte
             /\ pdata' \in Seq(Byte) /\ slave' \in SlaveState /\ seen' \in Counter
             /\ CountFits'
             /\ call' = [fn |-> "none"] \/ IsCall(call')
  BY DEF Typed, I2cTypeOK, Events, Latches, SlaveState, Counter
<1>2. CASE WriteByte \/ WriteData \/ ReadByte \/ ReadData \/ LcdReadData
  <2>1. /\ IsCall(call') /\ piece' = 1 /\ op' = 1 /\ data' = 0 /\ pdata' = <<>> /\ bus' = <<>>
        /\ slave' = [slave EXCEPT !.sent = <<>>]
        /\ UNCHANGED <<pins, seen>>
    BY <1>2, CallIs
  <2>2. data' \in Byte /\ pdata' \in Seq(Byte) /\ bus' \in Seq(Events) BY <2>1 DEF Byte
  <2>3. slave' \in SlaveState
    <3>1. <<>> \in Seq(Byte) OBVIOUS
    <3>. QED BY <1>1, <2>1, <3>1 DEF SlaveState
  <2>4. CountFits' BY <1>1, <2>1 DEF CountFits
  <2>. QED BY <1>1, <2>1, <2>2, <2>3, <2>4
<1>3. CASE DrivePins
  <2>1. PICK o : Drive(o) /\ Advance /\ UNCHANGED <<call, data, pdata>> BY <1>3 DEF DrivePins
  <2>2. piece' \in Nat /\ op' \in Nat BY <1>1, <2>1, AdvanceTyped
  <2>. QED BY <1>1, <2>1, <2>2, DriveTyped
<1>4. CASE SampleBit
  <2>1. /\ data' = (2 * data + Sda(pins, slave)) % 256
        /\ Advance /\ UNCHANGED <<call, pins, pdata, slave, seen, bus>>
    BY <1>4 DEF SampleBit
  <2>2. Sda(pins, slave) \in {0, 1} BY <1>1, SdaLevel
  <2>3. data' \in Byte
    <3>1. 2 * data + Sda(pins, slave) \in Nat BY <1>1, <2>2 DEF Byte
    <3>2. \A n \in Nat : n % 256 \in 0 .. 255 OBVIOUS
    <3>. QED BY <2>1, <3>1, <3>2 DEF Byte
  <2>4. piece' \in Nat /\ op' \in Nat BY <1>1, <2>1, AdvanceTyped
  <2>5. CountFits' BY <1>1, <2>1 DEF CountFits
  <2>. QED BY <1>1, <2>1, <2>3, <2>4, <2>5
<1>5. CASE StoreByte
  <2>1. /\ pdata' = Append(pdata, data) /\ data' = 0
        /\ Advance /\ UNCHANGED <<call, pins, slave, seen, bus>>
    BY <1>5 DEF StoreByte
  <2>2. pdata' \in Seq(Byte) BY <1>1, <2>1, AppendProperties
  <2>3. data' \in Byte BY <2>1 DEF Byte
  <2>4. piece' \in Nat /\ op' \in Nat BY <1>1, <2>1, AdvanceTyped
  <2>5. CountFits' BY <1>1, <2>1 DEF CountFits
  <2>. QED BY <1>1, <2>1, <2>2, <2>3, <2>4, <2>5
<1>6. CASE UNCHANGED i2cVars BY <1>1, <1>6 DEF i2cVars, CountFits
<1>. QED BY <1>2, <1>3, <1>4, <1>5, <1>6 DEF I2cNext

LEMMA TypedInit == I2cInit => Typed
<1> SUFFICES ASSUME I2cInit PROVE Typed OBVIOUS
<1>1. pins \in Latches BY DEF I2cInit, Latches
<1>2. slave \in SlaveState
  <2>1. <<>> \in Seq(Byte) /\ 0 \in Byte BY DEF Byte
  <2>. QED BY <2>1 DEF I2cInit, SlaveState
<1>3. seen \in Counter /\ CountFits BY DEF I2cInit, Counter, Byte, CountFits
<1>4. data \in Byte BY DEF I2cInit, Byte
<1>5. /\ piece \in Nat /\ op \in Nat /\ bus \in Seq(Events) /\ pdata \in Seq(Byte)
      /\ call = [fn |-> "none"]
  BY DEF I2cInit
<1>. QED BY <1>1, <1>2, <1>3, <1>4, <1>5, TypeParts DEF Typed

\* The type invariant, for any addresses, bytes, lengths and slave.
THEOREM I2cTypeCorrect == I2cSpec => []I2cTypeOK
<1>1. I2cSpec => []Typed BY TypedInit, TypeStep, PTL DEF I2cSpec
<1>2. Typed => I2cTypeOK BY DEF Typed
<1>. QED BY <1>1, <1>2, PTL

-----------------------------------------------------------------------------
(* The functions, operation by operation *)

\* What the steps need of the types.
LEMMA Types ==
  ASSUME I2cTypeOK
  PROVE  /\ pins \in Latches /\ slave \in SlaveState /\ seen \in Counter
         /\ slave.sda \in {0, 1} /\ slave.byte \in Byte /\ slave.sent \in Seq(Byte)
         /\ pins.scl \in {0, 1} /\ pins.sda \in {0, 1}
         /\ seen.n \in 0 .. 9 /\ seen.v \in Byte
         /\ Sda(pins, slave) \in {0, 1} /\ Scl(pins) \in {0, 1}
  BY TypeParts, SdaLevel DEF SlaveState, Latches, Counter

\* Where an operation is in its bit.
LEMMA Thirds ==
  ASSUME NEW k \in 1 .. 24
  PROVE  \E m \in 0 .. 7 :
           \/ k = 3 * m + 1 /\ k % 3 = 1 /\ (k - 1) \div 3 = m /\ (k + 1) % 3 = 2 /\ k \div 3 = m
           \/ /\ k = 3 * m + 2 /\ k % 3 = 2 /\ (k - 1) \div 3 = m /\ (k + 1) % 3 = 0 /\ k \div 3 = m
              /\ (k + 1) \div 3 = m + 1
           \/ k = 3 * m + 3 /\ k % 3 = 0 /\ (k - 1) \div 3 = m /\ (k + 1) % 3 = 1 /\ k \div 3 = m + 1
<1>1. CASE k % 3 = 1
  <2>1. /\ (k - 1) \div 3 \in 0 .. 7 /\ k = 3 * ((k - 1) \div 3) + 1
        /\ (k + 1) % 3 = 2 /\ k \div 3 = (k - 1) \div 3
    BY <1>1
  <2>. QED BY <1>1, <2>1
<1>2. CASE k % 3 = 2
  <2>1. /\ (k - 1) \div 3 \in 0 .. 7 /\ k = 3 * ((k - 1) \div 3) + 2
        /\ (k + 1) % 3 = 0 /\ k \div 3 = (k - 1) \div 3
        /\ (k + 1) \div 3 = ((k - 1) \div 3) + 1 BY <1>2
  <2>. QED BY <1>2, <2>1
<1>3. CASE k % 3 = 0
  <2>1. /\ (k - 1) \div 3 \in 0 .. 7 /\ k = 3 * ((k - 1) \div 3) + 3
        /\ (k + 1) % 3 = 1 /\ k \div 3 = ((k - 1) \div 3) + 1
    BY <1>3
  <2>. QED BY <1>3, <2>1
<1>. QED BY <1>1, <1>2, <1>3

\* SetSda names one of two operations.
LEMMA SetSdaFacts ==
  ASSUME NEW x \in {0, 1}
  PROVE  SetSda(x) \in SdaOps /\ (SetSda(x) = "SDA_SET_0" <=> x = 0)
         /\ (SetSda(x) = "SDA_SET_1" <=> x = 1)
         /\ SetSda(x) \notin {"SET_SDA_IN", "SET_SDA_OUT"}
  BY DEF SetSda, SdaOps

\* The eight bits of a byte sent.
LEMMA SendBits ==
  ASSUME I2cTypeOK, NEW b \in Byte, NEW role \in {{"addr"}, {"none", "rx"}},
         NEW k \in 1 .. 24, SendAt(b, role, k),
         Drive(gpio_i2c_send_byte(b)[k]), UNCHANGED <<data, pdata>>
  PROVE  SendAt(b, role, k + 1)' /\ UNCHANGED bus
<1>1. /\ pins \in Latches /\ slave \in SlaveState /\ seen \in Counter
      /\ slave.sda \in {0, 1} /\ pins.sda \in {0, 1} /\ Sda(pins, slave) \in {0, 1}
  BY Types
<1>2. PICK m \in 0 .. 7 :
           \/ k = 3 * m + 1 /\ k % 3 = 1 /\ (k - 1) \div 3 = m /\ (k + 1) % 3 = 2 /\ k \div 3 = m
           \/ /\ k = 3 * m + 2 /\ k % 3 = 2 /\ (k - 1) \div 3 = m /\ (k + 1) % 3 = 0 /\ k \div 3 = m
              /\ (k + 1) \div 3 = m + 1
           \/ k = 3 * m + 3 /\ k % 3 = 0 /\ (k - 1) \div 3 = m /\ (k + 1) % 3 = 1 /\ k \div 3 = m + 1
  BY Thirds
<1>3. /\ "SCL" \in pins.out /\ "SDA" \in pins.out /\ Fresh /\ slave.role \in role
      /\ slave.sda = 1 /\ seen.open /\ seen.n = m /\ seen.v = Top(b, m)
      /\ slave.role \in {"addr", "none", "rx"}
      /\ slave.sent = <<>>
  BY <1>2 DEF SendAt, Counts, Fresh
<1>4. (k + 1) - 1 = k OBVIOUS
<1>5. ASSUME UNCHANGED <<slave, seen, bus>>
      PROVE  Fresh' /\ slave'.role \in role /\ slave'.sda = 1 /\ Counts(m, Top(b, m))'
  BY <1>3, <1>5 DEF Fresh, Counts
<1>6. CASE k = 3 * m + 1 /\ k % 3 = 1 /\ (k - 1) \div 3 = m /\ (k + 1) % 3 = 2 /\ k \div 3 = m
  <2>1. Drive("SCL_SET_0") BY <1>6, SendOps
  <2>2. /\ pins' \in Latches /\ pins'.scl = 0 /\ pins'.sda = pins.sda /\ "SCL" \in pins'.out
        /\ "SDA" \in pins'.out
        /\ pins.scl = 0 \/ OnFall(Sda(pins, slave))
        /\ pins.scl = 0 => UNCHANGED <<slave, seen, bus>>
    BY <1>1, <1>3, <2>1, LowerScl DEF Latches
  <2>3. UNCHANGED <<slave, seen, bus>>
    <3>1. seen.n < 8 /\ seen.n < 9 BY <1>3
    <3>2. ASSUME OnFall(Sda(pins, slave)) PROVE UNCHANGED <<slave, seen, bus>>
      BY <1>1, <1>3, <3>1, <3>2, Falls
    <3>. QED BY <2>2, <3>2
  <2>. QED BY <1>4, <1>5, <1>6, <2>2, <2>3 DEF SendAt
<1>7. CASE k = 3 * m + 2 /\ k % 3 = 2 /\ (k - 1) \div 3 = m /\ (k + 1) % 3 = 0 /\ k \div 3 = m
           /\ (k + 1) \div 3 = m + 1
  <2>1. Drive(SetSda(BitOf(b, m + 1))) BY <1>7, SendOps
  <2>2. BitOf(b, m + 1) \in {0, 1} BY TopFacts
  <2>3. pins.scl = 0 BY <1>7 DEF SendAt
  <2>4. /\ pins'.scl = 0 /\ "SCL" \in pins'.out
        /\ pins'.sda = BitOf(b, m + 1)
        /\ "SDA" \in pins'.out
        /\ UNCHANGED <<slave, seen, bus>>
    BY <1>1, <1>3, <2>1, <2>2, <2>3, SdaFacts, SetSdaFacts
  <2>. QED BY <1>4, <1>5, <1>7, <2>4 DEF SendAt
<1>8. CASE k = 3 * m + 3 /\ k % 3 = 0 /\ (k - 1) \div 3 = m /\ (k + 1) % 3 = 1 /\ k \div 3 = m + 1
  <2>1. Drive("SCL_SET_1") BY <1>8, SendOps
  <2>2. pins.scl = 0 /\ pins.sda = BitOf(b, m + 1) BY <1>8 DEF SendAt
  <2>3. BitOf(b, m + 1) \in {0, 1} /\ 2 * Top(b, m) + BitOf(b, m + 1) = Top(b, m + 1) BY TopFacts
  <2>4. Sda(pins, slave) = BitOf(b, m + 1) BY <1>3, <2>2, <2>3 DEF Sda
  <2>5. /\ pins'.scl = 1 /\ pins'.sda = pins.sda /\ "SCL" \in pins'.out
        /\ "SDA" \in pins'.out
        /\ OnRise(BitOf(b, m + 1))
    BY <1>1, <1>3, <2>1, <2>2, <2>4, RaiseScl
  <2>6. UNCHANGED <<slave, bus>> /\ Counts(m + 1, Top(b, m + 1))'
    BY <1>1, <1>3, <2>3, <2>5, Rises DEF Counts
  <2>7. Fresh' /\ slave'.role \in role /\ slave'.sda = 1 BY <1>3, <2>6 DEF Fresh
  <2>. QED BY <1>4, <1>8, <2>5, <2>6, <2>7 DEF SendAt
<1>. QED BY <1>2, <1>6, <1>7, <1>8

\* The acknowledge of a byte sent.
LEMMA SendEnds ==
  ASSUME I2cTypeOK, NEW b \in Byte, NEW role \in {{"addr"}, {"none", "rx"}},
         NEW k \in 25 .. 29, SendAt(b, role, k),
         Drive(gpio_i2c_send_byte(b)[k]), UNCHANGED <<data, pdata>>
  PROVE  /\ SendAt(b, role, k + 1)'
         /\ k # 27 => UNCHANGED bus
         /\ k = 27 => \E ack \in {0, 1} :
                        bus' = Append(bus, [ev |-> "byte", byte |-> b, ack |-> ack])
<1>1. /\ pins \in Latches /\ slave \in SlaveState /\ seen \in Counter
      /\ slave.sda \in {0, 1} /\ pins.sda \in {0, 1} /\ Sda(pins, slave) \in {0, 1}
  BY Types
<1>2. Top(b, 0) = 0 /\ Top(b, 8) = b BY TopFacts
<1>3. "SCL" \in pins.out BY DEF SendAt
<1>4. CASE k = 25
  <2>1. /\ "SDA" \in pins.out /\ Fresh /\ slave.role \in role
        /\ slave.sda = 1 /\ Counts(8, b) /\ pins.scl = 1
    BY <1>2, <1>4 DEF SendAt
  <2>2. Drive("SCL_SET_0") BY <1>4, SendOps
  <2>3. /\ pins'.scl = 0 /\ "SCL" \in pins'.out /\ "SDA" \in pins'.out
        /\ OnFall(Sda(pins, slave))
    BY <1>1, <1>3, <2>1, <2>2, LowerScl
  <2>4. /\ UNCHANGED <<seen, bus>> /\ slave'.role = slave.role /\ slave'.sent = slave.sent
        /\ slave.role = "none" => slave'.sda = 1
    <3>1. seen.n = 8 /\ slave.role \in {"none", "addr", "rx"} BY <2>1 DEF Counts
    <3>2. CASE slave.role = "none" BY <1>1, <2>1, <2>3, <3>1, <3>2, Falls
    <3>3. CASE slave.role \in {"addr", "rx"} BY <1>1, <2>1, <2>3, <3>1, <3>3, Falls
    <3>. QED BY <3>1, <3>2, <3>3
  <2>5. Fresh' /\ Counts(8, b)' BY <2>1, <2>4 DEF Fresh, Counts
  <2>. QED BY <1>4, <2>1, <2>3, <2>4, <2>5 DEF SendAt
<1>5. CASE k = 26
  <2>1. /\ "SDA" \in pins.out /\ Fresh /\ slave.role \in role
        /\ slave.role = "none" => slave.sda = 1
        /\ Counts(8, b) /\ pins.scl = 0
    BY <1>5 DEF SendAt
  <2>2. Drive("SET_SDA_IN") BY <1>5, SendOps
  <2>3. /\ pins'.scl = 0 /\ "SCL" \in pins'.out /\ "SDA" \notin pins'.out
        /\ UNCHANGED <<slave, seen, bus>>
    BY <1>1, <1>3, <2>1, <2>2, SdaFacts DEF SdaOps
  <2>4. Fresh' /\ Counts(8, b)' BY <2>1, <2>3 DEF Fresh, Counts
  <2>. QED BY <1>5, <2>1, <2>3, <2>4 DEF SendAt
<1>6. CASE k = 27
  <2>1. /\ "SDA" \notin pins.out /\ Fresh /\ slave.role \in role
        /\ slave.role = "none" => slave.sda = 1
        /\ Counts(8, b) /\ pins.scl = 0
    BY <1>6 DEF SendAt
  <2>2. Drive("SCL_SET_1") BY <1>6, SendOps
  <2>3. /\ pins'.scl = 1 /\ "SCL" \in pins'.out /\ "SDA" \notin pins'.out
        /\ OnRise(Sda(pins, slave))
    BY <1>1, <1>3, <2>1, <2>2, RaiseScl
  <2>4. /\ UNCHANGED slave /\ Counts(9, b)'
        /\ bus' = Append(bus, [ev |-> "byte", byte |-> b, ack |-> Sda(pins, slave)])
    BY <1>1, <2>1, <2>3, Rises DEF Counts
  <2>5. Fresh' BY <2>1, <2>4 DEF Fresh
  <2>. QED BY <1>1, <1>6, <2>1, <2>3, <2>4, <2>5 DEF SendAt
<1>7. CASE k = 28
  <2>1. /\ "SDA" \notin pins.out /\ Fresh /\ slave.role \in role
        /\ slave.role = "none" => slave.sda = 1
        /\ Counts(9, b) /\ pins.scl = 1
    BY <1>7 DEF SendAt
  <2>2. Drive("SCL_SET_0") BY <1>7, SendOps
  <2>3. /\ pins'.scl = 0 /\ "SCL" \in pins'.out /\ "SDA" \notin pins'.out
        /\ OnFall(Sda(pins, slave))
    BY <1>1, <1>3, <2>1, <2>2, LowerScl
  <2>4. UNCHANGED bus /\ Counts(0, 0)' BY <1>1, <2>1, <2>3, Falls DEF Counts
  <2>5. data' = 0 /\ pdata' = <<>> /\ slave.sent = <<>> BY <2>1 DEF Fresh
  <2>6. /\ slave'.role \in {"none"} \cup {IF role = {"addr"} /\ b % 2 = 1 THEN "tx" ELSE "rx"}
        /\ slave'.sda = SdaAfter(0)'
        /\ Ahead(1)'
    <3>1. seen.n = 9 /\ seen.v = b BY <2>1 DEF Counts
    <3>2. ASSUME slave'.role # "tx", slave'.sda = 1, slave'.sent = slave.sent
          PROVE  slave'.sda = SdaAfter(0)' /\ Ahead(1)'
      <4>1. SdaAfter(0)' = BitOf(255, 0 + 1) BY <3>2 DEF SdaAfter, Cur
      <4>2. BitOf(255, 0 + 1) = 1 BY OnesFacts
      <4>. QED BY <2>5, <3>2, <4>1, <4>2 DEF Ahead
    <3>3. ASSUME SendFirstBit
          PROVE  slave'.role = "tx" /\ slave'.sda = SdaAfter(0)' /\ Ahead(1)'
      <4>1. /\ slave'.role = "tx" /\ slave'.sda = BitOf(slave'.byte, 1)
            /\ slave'.sent = Append(slave.sent, slave'.byte)
        BY <1>1, <3>3, FirstBit
      <4>2. slave'.sda = SdaAfter(0)' BY <4>1 DEF SdaAfter, Cur
      <4>3. Len(slave'.sent) = 1 /\ slave'.sent[1] = slave'.byte /\ Len(pdata') = 0
        BY <2>5, <4>1
      <4>. QED BY <4>1, <4>2, <4>3 DEF Ahead
    <3>4. CASE slave.role = "addr"
      <4>1. role = {"addr"} BY <2>1, <3>4
      <4>2. \/ Released("none")
            \/ b % 2 = 1 /\ SendFirstBit
            \/ b % 2 # 1 /\ Released("rx")
        BY <1>1, <2>3, <3>1, <3>4, Falls
      <4>3. CASE Released("none") BY <1>1, <3>2, <4>3, Releases
      <4>4. CASE b % 2 = 1 /\ SendFirstBit BY <3>3, <4>1, <4>4
      <4>5. CASE b % 2 # 1 /\ Released("rx") BY <1>1, <3>2, <4>5, Releases
      <4>. QED BY <4>2, <4>3, <4>4, <4>5
    <3>5. CASE slave.role = "rx"
      <4>1. role # {"addr"} BY <2>1, <3>5
      <4>2. Released("rx") BY <1>1, <2>3, <3>1, <3>5, Falls
      <4>. QED BY <1>1, <3>2, <4>1, <4>2, Releases
    <3>6. CASE slave.role = "none"
      <4>1. slave' = slave BY <1>1, <2>3, <3>6, Falls
      <4>. QED BY <2>1, <3>2, <3>6, <4>1
    <3>. QED BY <2>1, <3>4, <3>5, <3>6
  <2>. QED BY <1>7, <2>1, <2>3, <2>4, <2>5, <2>6 DEF SendAt
<1>8. CASE k = 29
  <2>1. /\ "SDA" \notin pins.out /\ pins.scl = 0
        /\ Counts(0, 0) /\ data = 0 /\ pdata = <<>>
        /\ slave.role \in {"none"} \cup {IF role = {"addr"} /\ b % 2 = 1 THEN "tx" ELSE "rx"}
        /\ slave.sda = SdaAfter(0)
        /\ Ahead(1)
    BY <1>8 DEF SendAt
  <2>2. Drive("SET_SDA_OUT") BY <1>8, SendOps
  <2>3. /\ pins'.scl = 0 /\ "SCL" \in pins'.out /\ "SDA" \in pins'.out
        /\ UNCHANGED <<slave, seen, bus>>
    BY <1>1, <1>3, <2>1, <2>2, SdaFacts DEF SdaOps
  <2>4. Counts(0, 0)' /\ slave'.sda = SdaAfter(0)' /\ Ahead(1)'
    BY <2>1, <2>3 DEF Counts, SdaAfter, Cur, Ahead
  <2>. QED BY <1>8, <2>1, <2>3, <2>4 DEF SendAt
<1>. QED BY <1>4, <1>5, <1>6, <1>7, <1>8

\* Every operation of gpio_i2c_send_byte.
LEMMA SendStep ==
  ASSUME I2cTypeOK, NEW b \in Byte, NEW role \in {{"addr"}, {"none", "rx"}},
         NEW k \in 1 .. 29, SendAt(b, role, k),
         Drive(gpio_i2c_send_byte(b)[k]), UNCHANGED <<data, pdata>>
  PROVE  /\ SendAt(b, role, k + 1)'
         /\ k # 27 => UNCHANGED bus
         /\ k = 27 => \E ack \in {0, 1} :
                        bus' = Append(bus, [ev |-> "byte", byte |-> b, ack |-> ack])
<1>1. CASE k \in 1 .. 24
  <2>1. SendAt(b, role, k + 1)' /\ UNCHANGED bus BY <1>1, SendBits
  <2>. QED BY <1>1, <2>1
<1>2. CASE k \in 25 .. 29 BY <1>2, SendEnds
<1>. QED BY <1>1, <1>2

\* Where an operation is in the bit that is read.
LEMMA ReadThirds ==
  ASSUME NEW k \in 4 .. 27
  PROVE  \E m \in 0 .. 7 :
           /\ (k - 4) \div 3 = m
           /\ \/ k = 3 * m + 4 /\ k % 3 = 1 /\ (k + 1) % 3 = 2 /\ ((k + 1) - 4) \div 3 = m
              \/ k = 3 * m + 5 /\ k % 3 = 2 /\ (k + 1) % 3 = 0 /\ ((k + 1) - 4) \div 3 = m
              \/ k = 3 * m + 6 /\ k % 3 = 0 /\ (k + 1) % 3 = 1 /\ ((k + 1) - 4) \div 3 = m + 1
<1> DEFINE m == (k - 4) \div 3
<1>0. m \in 0 .. 7 /\ (k + 1) - 4 = k - 3 OBVIOUS
<1>1. CASE k % 3 = 1
  <2>1. k = 3 * m + 4 /\ (k + 1) % 3 = 2 /\ (k - 3) \div 3 = m BY <1>1
  <2>. QED BY <1>0, <1>1, <2>1
<1>2. CASE k % 3 = 2
  <2>1. k = 3 * m + 5 /\ (k + 1) % 3 = 0 /\ (k - 3) \div 3 = m BY <1>2
  <2>. QED BY <1>0, <1>2, <2>1
<1>3. CASE k % 3 = 0
  <2>1. k = 3 * m + 6 /\ (k + 1) % 3 = 1 /\ (k - 3) \div 3 = m + 1 BY <1>3
  <2>. QED BY <1>0, <1>3, <2>1
<1>. QED BY <1>1, <1>2, <1>3

\* What a slave shows that sends, or does not.
LEMMA Showing ==
  ASSUME I2cTypeOK, slave.role \in {"none", "tx"}
  PROVE  /\ Cur \in Byte
         /\ \A m \in 0 .. 7 : SdaAfter(m) = BitOf(Cur, m + 1)
         /\ SdaAfter(8) = 1
         /\ slave.role = "none" => Cur = 255 /\ \A m \in 0 .. 8 : SdaAfter(m) = 1
<1>1. Cur \in Byte BY Types DEF Cur, Byte
<1>2. (\A m \in 0 .. 7 : SdaAfter(m) = BitOf(Cur, m + 1)) /\ SdaAfter(8) = 1
  BY DEF SdaAfter
<1>3. ASSUME slave.role = "none" PROVE Cur = 255 /\ \A m \in 0 .. 8 : SdaAfter(m) = 1
  <2>1. Cur = 255 BY <1>3 DEF Cur
  <2>2. \A m \in 0 .. 7 : SdaAfter(m) = 1 BY <1>2, <2>1, OnesFacts
  <2>. QED BY <1>2, <2>1, <2>2
<1>. QED BY <1>1, <1>2, <1>3

\* The eight bits of a byte received.
LEMMA RecvBits ==
  ASSUME I2cTypeOK, NEW k \in 4 .. 27, RecvAt(k), UNCHANGED pdata,
         \/ k % 3 # 2 /\ Drive(gpio_i2c_recv_byte[k]) /\ UNCHANGED data
         \/ /\ k % 3 = 2 /\ data' = (2 * data + Sda(pins, slave)) % 256
            /\ UNCHANGED <<pins, slave, seen, bus>>
  PROVE  RecvAt(k + 1)' /\ UNCHANGED bus
<1>1. /\ pins \in Latches /\ slave \in SlaveState /\ seen \in Counter
      /\ slave.sda \in {0, 1} /\ pins.sda \in {0, 1} /\ Sda(pins, slave) \in {0, 1}
  BY Types
<1>2. PICK m \in 0 .. 7 :
           /\ (k - 4) \div 3 = m
           /\ \/ k = 3 * m + 4 /\ k % 3 = 1 /\ (k + 1) % 3 = 2 /\ ((k + 1) - 4) \div 3 = m
              \/ k = 3 * m + 5 /\ k % 3 = 2 /\ (k + 1) % 3 = 0 /\ ((k + 1) - 4) \div 3 = m
              \/ k = 3 * m + 6 /\ k % 3 = 0 /\ (k + 1) % 3 = 1 /\ ((k + 1) - 4) \div 3 = m + 1
  BY ReadThirds
<1>3. /\ "SCL" \in pins.out /\ "SDA" \notin pins.out
      /\ slave.role \in {"none", "tx"} /\ Stored /\ Ahead(1)
      /\ slave.sda = SdaAfter(m)
  BY <1>2 DEF RecvAt, Listening
<1>4. PICK c \in Byte : Cur = c BY <1>3, Showing
<1>5. /\ BitOf(c, m + 1) \in {0, 1} /\ 2 * Top(c, m) + BitOf(c, m + 1) = Top(c, m + 1)
      /\ Top(c, m) \in Byte /\ Top(c, m + 1) \in Byte
  BY TopFacts
<1>6. SdaAfter(m) = BitOf(c, m + 1) BY <1>3, <1>4, Showing
<1>7. Sda(pins, slave) = BitOf(c, m + 1) BY <1>3, <1>6 DEF Sda
<1>8. ASSUME slave'.role = slave.role, slave'.byte = slave.byte, slave'.sent = slave.sent
      PROVE  Stored' /\ Ahead(1)' /\ Cur' = c /\ slave'.role \in {"none", "tx"}
  BY <1>3, <1>4, <1>8 DEF Stored, Ahead, Cur
<1>9. CASE k = 3 * m + 4 /\ k % 3 = 1 /\ (k + 1) % 3 = 2 /\ ((k + 1) - 4) \div 3 = m
  <2>1. pins.scl = 0 /\ Counts(m, Top(c, m)) /\ data = Top(c, m) BY <1>2, <1>4, <1>9 DEF RecvAt
  <2>2. Drive("SCL_SET_1") /\ UNCHANGED data BY <1>9, RecvOps
  <2>3. /\ pins'.scl = 1 /\ "SCL" \in pins'.out /\ "SDA" \notin pins'.out
        /\ OnRise(BitOf(c, m + 1))
    BY <1>1, <1>3, <1>7, <2>1, <2>2, RaiseScl
  <2>4. UNCHANGED <<slave, bus>> /\ Counts(m + 1, Top(c, m + 1))'
    BY <1>1, <1>5, <2>1, <2>3, Rises DEF Counts
  <2>5. slave'.sda = SdaAfter(m)' BY <1>3, <2>4 DEF SdaAfter, Cur
  <2>6. Listening' BY <2>3 DEF Listening
  <2>7. Stored' /\ Ahead(1)' /\ Cur' = c /\ slave'.role \in {"none", "tx"} BY <1>8, <2>4
  <2>. QED BY <1>9, <2>1, <2>2, <2>3, <2>4, <2>5, <2>6, <2>7 DEF RecvAt
<1>10. CASE k = 3 * m + 5 /\ k % 3 = 2 /\ (k + 1) % 3 = 0 /\ ((k + 1) - 4) \div 3 = m
  <2>1. pins.scl = 1 /\ Counts(m + 1, Top(c, m + 1)) /\ data = Top(c, m)
    BY <1>2, <1>4, <1>10 DEF RecvAt
  <2>2. /\ data' = (2 * data + Sda(pins, slave)) % 256
        /\ UNCHANGED <<pins, slave, seen, bus>>
    BY <1>10
  <2>3. data' = Top(c, m + 1)
    <3>1. \A n \in 0 .. 255 : n % 256 = n OBVIOUS
    <3>2. 2 * data + Sda(pins, slave) = Top(c, m + 1) BY <1>5, <1>7, <2>1
    <3>3. Top(c, m + 1) \in 0 .. 255 BY <1>5 DEF Byte
    <3>. QED BY <2>2, <3>1, <3>2, <3>3
  <2>4. Counts(m + 1, Top(c, m + 1))' /\ Listening' /\ slave'.sda = SdaAfter(m)'
    BY <1>3, <2>1, <2>2 DEF Counts, Listening, SdaAfter, Cur
  <2>5. Stored' /\ Ahead(1)' /\ Cur' = c /\ slave'.role \in {"none", "tx"} BY <1>8, <2>2
  <2>. QED BY <1>10, <2>1, <2>2, <2>3, <2>4, <2>5 DEF RecvAt
<1>11. CASE k = 3 * m + 6 /\ k % 3 = 0 /\ (k + 1) % 3 = 1 /\ ((k + 1) - 4) \div 3 = m + 1
  <2>1. pins.scl = 1 /\ Counts(m + 1, Top(c, m + 1)) /\ data = Top(c, m + 1)
    BY <1>2, <1>4, <1>11 DEF RecvAt
  <2>2. Drive("SCL_SET_0") /\ UNCHANGED data BY <1>11, RecvOps
  <2>3. /\ pins'.scl = 0 /\ "SCL" \in pins'.out /\ "SDA" \notin pins'.out
        /\ OnFall(Sda(pins, slave))
    BY <1>1, <1>3, <2>1, <2>2, LowerScl
  <2>4. seen.n = m + 1 /\ seen.n < 9 BY <2>1 DEF Counts
  <2>5. UNCHANGED <<seen, bus>> BY <1>1, <2>3, <2>4, Falls
  <2>6. slave'.role = slave.role /\ slave'.byte = slave.byte /\ slave'.sent = slave.sent
        /\ slave'.sda = SdaAfter(m + 1)
    <3>1. CASE slave.role = "none"
      <4>1. slave' = slave BY <1>1, <2>3, <3>1, Falls
      <4>2. SdaAfter(m) = 1 /\ SdaAfter(m + 1) = 1 BY <3>1, <1>3, Showing
      <4>. QED BY <1>3, <4>1, <4>2
    <3>2. CASE slave.role = "tx" /\ m + 1 < 8
      <4>1. /\ slave'.role = "tx" /\ slave'.sda = BitOf(slave.byte, (m + 1) + 1)
            /\ slave'.byte = slave.byte /\ slave'.sent = slave.sent
        BY <1>1, <2>3, <2>4, <3>2, Falls
      <4>2. SdaAfter(m + 1) = BitOf(slave.byte, (m + 1) + 1) BY <3>2 DEF SdaAfter, Cur
      <4>. QED BY <3>2, <4>1, <4>2
    <3>3. CASE slave.role = "tx" /\ m + 1 = 8
      <4>1. Released("tx") BY <1>1, <2>3, <2>4, <3>3, Falls
      <4>2. SdaAfter(m + 1) = 1 BY <3>3 DEF SdaAfter
      <4>. QED BY <1>1, <3>3, <4>1, <4>2, Releases
    <3>. QED BY <1>3, <3>1, <3>2, <3>3
  <2>7. SdaAfter(m + 1)' = SdaAfter(m + 1) BY <2>6 DEF SdaAfter, Cur
  <2>8. Counts(m + 1, Top(c, m + 1))' /\ Listening' BY <2>1, <2>3, <2>5 DEF Counts, Listening
  <2>9. Stored' /\ Ahead(1)' /\ Cur' = c /\ slave'.role \in {"none", "tx"} BY <1>8, <2>6
  <2>. QED BY <1>11, <2>1, <2>2, <2>3, <2>5, <2>6, <2>7, <2>8, <2>9 DEF RecvAt
<1>. QED BY <1>2, <1>9, <1>10, <1>11

\* The operations before and behind them.
LEMMA RecvEnds ==
  ASSUME I2cTypeOK, NEW k \in {1, 2, 3, 28}, RecvAt(k),
         Drive(gpio_i2c_recv_byte[k]), UNCHANGED <<data, pdata>>
  PROVE  RecvAt(k + 1)' /\ UNCHANGED bus
<1>1. /\ pins \in Latches /\ slave \in SlaveState /\ seen \in Counter
      /\ slave.sda \in {0, 1} /\ pins.sda \in {0, 1} /\ Sda(pins, slave) \in {0, 1}
      /\ slave.sent \in Seq(Byte)
  BY Types
<1>2. "SCL" \in pins.out /\ slave.role \in {"none", "tx"} /\ Stored
  BY DEF RecvAt, Out, Listening
<1>3. ASSUME UNCHANGED <<slave, seen, bus>>
      PROVE  /\ Stored' /\ slave'.role \in {"none", "tx"}
             /\ Ahead(1) => Ahead(1)'
             /\ \A n, v : Counts(n, v) => Counts(n, v)'
             /\ Cur' = Cur
             /\ slave'.sda = slave.sda
             /\ SdaAfter(0)' = SdaAfter(0)
  BY <1>2, <1>3 DEF Stored, Ahead, Counts, Cur, SdaAfter
<1>4. CASE k = 1
  <2>1. /\ Out /\ data = 0
        /\ \/ pins.scl = 0 /\ Counts(0, 0) /\ slave.sda = SdaAfter(0) /\ Ahead(1)
           \/ /\ pins.scl = 1 /\ pins.sda = 0 /\ seen.open /\ seen.n = 9
              /\ slave.sda = 1 /\ Ahead(0)
    BY <1>4 DEF RecvAt
  <2>2. Drive("SCL_SET_0") BY <1>4, RecvOps
  <2>3. /\ pins'.scl = 0 /\ "SCL" \in pins'.out /\ "SDA" \in pins'.out
        /\ pins.scl = 0 => UNCHANGED <<slave, seen, bus>>
        /\ pins.scl = 1 => OnFall(Sda(pins, slave))
    BY <1>1, <1>2, <2>1, <2>2, LowerScl DEF Out
  <2>4. Out' BY <2>3 DEF Out
  <2>5. CASE pins.scl = 0
    <3>1. /\ Counts(0, 0)' /\ slave'.sda = SdaAfter(0)' /\ Ahead(1)' /\ Stored'
          /\ slave'.role \in {"none", "tx"} /\ UNCHANGED bus
      BY <1>3, <2>1, <2>3, <2>5
    <3>. QED BY <1>4, <2>1, <2>3, <2>4, <3>1 DEF RecvAt
  <2>6. CASE pins.scl = 1
    <3>1. pins.sda = 0 /\ seen.open /\ seen.n = 9 /\ slave.sda = 1 /\ Ahead(0)
      BY <2>1, <2>6
    <3>2. Sda(pins, slave) = 0 BY <2>1, <3>1 DEF Sda, Out
    <3>3. OnFall(0) BY <2>3, <2>6, <3>2
    <3>4. UNCHANGED bus /\ Counts(0, 0)' BY <1>1, <3>1, <3>3, Falls DEF Counts
    <3>5. CASE slave.role = "none"
      <4>1. slave' = slave BY <1>1, <3>3, <3>5, Falls
      <4>2. slave.sda = SdaAfter(0) BY <3>1, <3>5, Showing
      <4>3. Ahead(1)' /\ Stored' /\ slave'.sda = SdaAfter(0)'
        BY <1>2, <3>1, <3>5, <4>1, <4>2 DEF Ahead, Stored, SdaAfter, Cur
      <4>. QED BY <1>2, <1>4, <2>1, <2>3, <2>4, <3>4, <4>1, <4>3 DEF RecvAt
    <3>6. CASE slave.role = "tx"
      <4>1. SendFirstBit BY <1>1, <3>1, <3>3, <3>6, Falls
      <4>2. /\ slave'.role = "tx" /\ slave'.sda = BitOf(slave'.byte, 1)
            /\ slave'.sent = Append(slave.sent, slave'.byte)
            /\ slave' \in SlaveState
        BY <1>1, <4>1, FirstBit
      <4>3. slave'.sda = SdaAfter(0)' BY <4>2 DEF SdaAfter, Cur
      <4>4. Len(slave.sent) = Len(pdata) /\ Len(slave.sent) \in Nat
        BY <1>1, <3>1, <3>6, LenProperties DEF Ahead
      <4>5. slave'.byte \in Byte BY <4>2 DEF SlaveState
      <4>6. /\ Len(slave'.sent) = Len(slave.sent) + 1
            /\ slave'.sent[Len(slave.sent) + 1] = slave'.byte
            /\ \A i \in 1 .. Len(slave.sent) : slave'.sent[i] = slave.sent[i]
        BY <1>1, <4>2, <4>5, AppendProperties
      <4>7. Ahead(1)'
        BY <4>2, <4>4, <4>6 DEF Ahead
      <4>8. Stored'
        <5>1. ASSUME NEW i \in 1 .. Len(pdata)
              PROVE  pdata[i] = IF slave'.sent = <<>> THEN 255 ELSE slave'.sent[i]
          <6>1. slave.sent # <<>> /\ slave'.sent # <<>> BY <4>4, <4>6
          <6>2. pdata[i] = slave.sent[i] BY <1>2, <6>1 DEF Stored
          <6>. QED BY <4>4, <4>6, <6>1, <6>2
        <5>. QED BY <5>1 DEF Stored
      <4>. QED BY <1>4, <2>1, <2>3, <2>4, <3>4, <4>2, <4>3, <4>7, <4>8 DEF RecvAt
    <3>. QED BY <1>2, <3>5, <3>6
  <2>. QED BY <2>1, <2>5, <2>6
<1>5. CASE k = 2
  <2>1. Out /\ data = 0 /\ pins.scl = 0 /\ Counts(0, 0) /\ slave.sda = SdaAfter(0) /\ Ahead(1)
    BY <1>5 DEF RecvAt
  <2>2. Drive("SDA_SET_1") BY <1>5, RecvOps
  <2>3. /\ pins'.scl = 0 /\ pins'.sda = 1 /\ Out' /\ UNCHANGED <<slave, seen, bus>>
    BY <1>1, <1>2, <2>1, <2>2, SdaFacts DEF SdaOps, Out
  <2>. QED BY <1>3, <1>5, <2>1, <2>3 DEF RecvAt
<1>6. CASE k = 3
  <2>1. Out /\ data = 0 /\ pins.scl = 0 /\ Counts(0, 0) /\ slave.sda = SdaAfter(0) /\ Ahead(1)
    BY <1>6 DEF RecvAt
  <2>2. Drive("SET_SDA_IN") BY <1>6, RecvOps
  <2>3. /\ pins'.scl = 0 /\ Listening' /\ UNCHANGED <<slave, seen, bus>>
    BY <1>1, <1>2, <2>1, <2>2, SdaFacts DEF SdaOps, Listening
  <2>4. Top(Cur', 0) = 0 BY <1>2, <1>3, <2>3, Showing, TopFacts
  <2>5. ((k + 1) - 4) \div 3 = 0 /\ (k + 1) % 3 = 1 BY <1>6
  <2>6. /\ pins'.scl = 0 /\ Counts(0, Top(Cur, 0))' /\ data' = Top(Cur, 0)'
        /\ slave'.sda = SdaAfter(0)' /\ Stored' /\ Ahead(1)' /\ slave'.role \in {"none", "tx"}
    BY <1>3, <2>1, <2>3, <2>4
  <2>. QED BY <1>6, <2>3, <2>5, <2>6 DEF RecvAt
<1>7. CASE k = 28
  <2>0. (k - 4) \div 3 = 8 /\ k % 3 = 1 BY <1>7
  <2>1. /\ Listening /\ pins.scl = 0 /\ Counts(8, Top(Cur, 8)) /\ data = Top(Cur, 8)
        /\ slave.sda = SdaAfter(8) /\ Ahead(1)
    BY <1>7, <2>0 DEF RecvAt
  <2>2. Top(Cur, 8) = Cur /\ SdaAfter(8) = 1 BY <1>2, Showing, TopFacts
  <2>3. Drive("SET_SDA_OUT") BY <1>7, RecvOps
  <2>4. /\ pins'.scl = 0 /\ Out' /\ UNCHANGED <<slave, seen, bus>>
    BY <1>1, <1>2, <2>1, <2>3, SdaFacts DEF SdaOps, Out
  <2>5. Counts(8, Cur)' /\ data' = Cur' /\ slave'.sda = 1 BY <2>1, <2>2, <2>4 DEF Counts, Cur
  <2>. QED BY <1>3, <1>7, <2>1, <2>4, <2>5 DEF RecvAt
<1>. QED BY <1>4, <1>5, <1>6, <1>7

\* The byte is stored.
LEMMA RecvStores ==
  ASSUME I2cTypeOK, RecvAt(29), pdata' = Append(pdata, data), data' = 0,
         UNCHANGED <<pins, slave, seen, bus>>
  PROVE  RecvAt(30)' /\ Len(pdata') = Len(pdata) + 1
<1>1. /\ slave.role \in {"none", "tx"} /\ Stored /\ Ahead(1) /\ Out /\ pins.scl = 0
      /\ Counts(8, Cur) /\ slave.sda = 1 /\ data = Cur
  BY DEF RecvAt
<1>2. pdata \in Seq(Byte) /\ data \in Byte /\ slave.sent \in Seq(Byte) BY TypeParts, Types
<1>3. /\ Len(pdata) \in Nat /\ Len(pdata') = Len(pdata) + 1
      /\ pdata'[Len(pdata) + 1] = data
      /\ \A i \in 1 .. Len(pdata) : pdata'[i] = pdata[i]
  BY <1>2, AppendProperties, LenProperties
<1>4. /\ slave'.role \in {"none", "tx"} /\ Out' /\ pins'.scl = 0 /\ Counts(8, Cur)' /\ slave'.sda = 1
      /\ slave' = slave
  BY <1>1 DEF Out, Counts, Cur
<1>5. CASE slave.role = "tx"
  <2>1. Len(slave.sent) = Len(pdata) + 1 /\ slave.sent[Len(slave.sent)] = slave.byte
        /\ slave.sent # <<>> /\ data = slave.byte
    BY <1>1, <1>3, <1>5 DEF Ahead, Cur
  <2>2. Ahead(0)' BY <1>3, <1>4, <1>5, <2>1 DEF Ahead
  <2>3. \A i \in 1 .. Len(pdata) : pdata[i] = slave.sent[i] BY <1>1, <2>1 DEF Stored
  <2>4. \A i \in 1 .. Len(pdata) + 1 : pdata'[i] = slave.sent[i]
    <3> TAKE i \in 1 .. Len(pdata) + 1
    <3>1. CASE i \in 1 .. Len(pdata) BY <1>3, <2>3, <3>1
    <3>2. CASE i = Len(pdata) + 1 BY <1>3, <2>1, <3>2
    <3>. QED BY <1>3, <3>1, <3>2
  <2>5. Stored' BY <1>3, <1>4, <2>1, <2>4 DEF Stored
  <2>. QED BY <1>3, <1>4, <2>2, <2>5 DEF RecvAt
<1>6. CASE slave.role = "none"
  <2>1. slave.sent = <<>> /\ data = 255 BY <1>1, <1>6 DEF Ahead, Cur
  <2>2. Ahead(0)' BY <1>4, <1>6, <2>1 DEF Ahead
  <2>3. \A i \in 1 .. Len(pdata) : pdata[i] = 255 BY <1>1, <2>1 DEF Stored
  <2>4. \A i \in 1 .. Len(pdata) + 1 : pdata'[i] = 255
    <3> TAKE i \in 1 .. Len(pdata) + 1
    <3>1. CASE i \in 1 .. Len(pdata) BY <1>3, <2>3, <3>1
    <3>2. CASE i = Len(pdata) + 1 BY <1>3, <2>1, <3>2
    <3>. QED BY <1>3, <3>1, <3>2
  <2>5. Stored' BY <1>3, <1>4, <2>1, <2>4 DEF Stored
  <2>. QED BY <1>3, <1>4, <2>2, <2>5 DEF RecvAt
<1>. QED BY <1>1, <1>5, <1>6

\* Every operation of i2c_choice,
LEMMA ChoiceStep ==
  ASSUME I2cTypeOK, NEW k \in 1 .. 2, ChoiceAt(k),
         Drive(i2c_choice[k]), UNCHANGED <<data, pdata>>
  PROVE  ChoiceAt(k + 1)' /\ UNCHANGED bus
<1>1. /\ pins \in Latches /\ slave \in SlaveState /\ seen \in Counter
      /\ slave.sda \in {0, 1} /\ pins.sda \in {0, 1} /\ pins.scl \in {0, 1}
      /\ Sda(pins, slave) \in {0, 1}
  BY Types
<1>2. Closed /\ Fresh /\ slave.sda = 1 /\ slave.role = "none" /\ seen.n = 0
  BY DEF ChoiceAt, Closed
<1>3. ASSUME UNCHANGED <<slave, seen, bus>> PROVE Closed' /\ Fresh'
  BY <1>2, <1>3 DEF Closed, Fresh
<1>4. CASE k = 1
  <2>1. Resting BY <1>4 DEF ChoiceAt
  <2>2. Drive("SET_SCL_OUT") BY <1>4 DEF i2c_choice
  <2>3. /\ pins' \in Latches /\ pins'.scl = pins.scl /\ pins'.sda = pins.sda
        /\ "SCL" \in pins'.out
        /\ "SDA" \in pins'.out <=> "SDA" \in pins.out
    BY <1>1, <2>2, Edges, PinAfterFacts
  <2>4. pins.scl = 1 => pins.sda = 1 BY <2>1 DEF Resting
  <2>5. Sda(pins, slave) = 1 /\ Sda(pins', slave) = 1 /\ Scl(pins) = 1
    BY <1>2, <2>1, <2>3 DEF Sda, Scl, Resting, Out
  <2>6. CASE pins.scl = 1
    <3>1. Scl(pins') = 1 BY <2>3, <2>6 DEF Scl
    <3>2. UNCHANGED <<slave, seen, bus>> BY <1>1, <2>2, <2>5, <3>1, Edges
    <3>. QED BY <1>3, <1>4, <2>3, <2>4, <3>2 DEF ChoiceAt
  <2>7. CASE pins.scl = 0
    <3>1. Scl(pins') = 0 BY <2>3, <2>7 DEF Scl
    <3>2. OnFall(Sda(pins, slave)) BY <1>1, <2>2, <2>5, <3>1, Edges
    <3>3. UNCHANGED <<slave, seen, bus>> BY <1>1, <1>2, <3>2, Falls
    <3>. QED BY <1>3, <1>4, <2>3, <2>4, <3>3 DEF ChoiceAt
  <2>. QED BY <1>1, <2>6, <2>7
<1>5. CASE k = 2
  <2>1. "SCL" \in pins.out /\ (pins.scl = 1 => pins.sda = 1) BY <1>5 DEF ChoiceAt
  <2>2. Drive("SET_SDA_OUT") BY <1>5 DEF i2c_choice
  <2>3. /\ pins'.scl = pins.scl /\ "SCL" \in pins'.out /\ pins'.sda = pins.sda
        /\ "SDA" \in pins'.out
        /\ pins.scl = 0 => UNCHANGED <<slave, seen, bus>>
        /\ pins.scl = 1 /\ Sda(pins, slave) = Sda(pins', slave) => UNCHANGED <<slave, seen, bus>>
    BY <1>1, <2>1, <2>2, SdaFacts DEF SdaOps
  <2>4. pins.scl = 1 => Sda(pins, slave) = 1 /\ Sda(pins', slave) = 1
    BY <1>2, <2>1, <2>3 DEF Sda
  <2>5. UNCHANGED <<slave, seen, bus>> BY <1>1, <2>3, <2>4
  <2>. QED BY <1>3, <1>5, <2>1, <2>3, <2>5 DEF ChoiceAt, Out
<1>. QED BY <1>4, <1>5

\* of gpio_i2c_start,
LEMMA StartStep ==
  ASSUME I2cTypeOK, NEW k \in 1 .. 4, StartAt(k),
         Drive(gpio_i2c_start[k]), UNCHANGED <<data, pdata>>
  PROVE  /\ StartAt(k + 1)'
         /\ k # 3 => UNCHANGED bus
         /\ k = 3 => bus' = Append(bus, [ev |-> "S", byte |-> 0, ack |-> 0])
<1>1. /\ pins \in Latches /\ slave \in SlaveState /\ seen \in Counter
      /\ slave.sda \in {0, 1} /\ pins.sda \in {0, 1} /\ pins.scl \in {0, 1}
      /\ Sda(pins, slave) \in {0, 1} /\ seen.open \in BOOLEAN
  BY Types DEF Counter
<1>2. /\ "SCL" \in pins.out /\ "SDA" \in pins.out /\ Fresh /\ slave.sda = 1
  BY DEF StartAt, Out
<1>3. ASSUME slave'.sent = slave.sent PROVE Fresh' BY <1>2, <1>3 DEF Fresh
<1>4. CASE k = 1
  <2>1. /\ slave.role \in {"none", "rx"} /\ seen.n = 0 /\ (pins.scl = 1 => pins.sda = 1)
    BY <1>4 DEF StartAt
  <2>2. Drive("SDA_SET_1") BY <1>4 DEF gpio_i2c_start
  <2>3. /\ Out' /\ pins'.sda = 1
        /\ pins.scl = 0 => UNCHANGED <<slave, seen, bus>>
        /\ pins.scl = 1 /\ Sda(pins, slave) = Sda(pins', slave) => UNCHANGED <<slave, seen, bus>>
    BY <1>1, <1>2, <2>2, SdaFacts DEF SdaOps, Out
  <2>4. pins.scl = 1 => Sda(pins, slave) = 1 /\ Sda(pins', slave) = 1
    BY <1>2, <2>1, <2>3 DEF Sda
  <2>5. UNCHANGED <<slave, seen, bus>> BY <1>1, <2>3, <2>4
  <2>. QED BY <1>2, <1>3, <1>4, <2>1, <2>3, <2>5 DEF StartAt
<1>5. CASE k = 2
  <2>1. slave.role \in {"none", "rx"} /\ seen.n = 0 /\ pins.sda = 1
    BY <1>5 DEF StartAt
  <2>2. Drive("SCL_SET_1") BY <1>5 DEF gpio_i2c_start
  <2>3. /\ Out' /\ pins'.scl = 1 /\ pins'.sda = 1
        /\ pins.scl = 1 => UNCHANGED <<slave, seen, bus>>
        /\ pins.scl = 0 => OnRise(Sda(pins, slave))
    BY <1>1, <1>2, <2>1, <2>2, RaiseScl DEF Out
  <2>4. UNCHANGED <<slave, bus>>
    <3>1. seen.n < 8 BY <2>1
    <3>2. ASSUME OnRise(Sda(pins, slave)) PROVE UNCHANGED <<slave, bus>>
      BY <1>1, <3>1, <3>2, Rises
    <3>. QED BY <1>1, <2>3, <3>2
  <2>. QED BY <1>2, <1>3, <1>5, <2>1, <2>3, <2>4 DEF StartAt
<1>6. CASE k = 3
  <2>1. pins.sda = 1 /\ pins.scl = 1 BY <1>6 DEF StartAt
  <2>2. Drive("SDA_SET_0") BY <1>6 DEF gpio_i2c_start
  <2>3. /\ Out' /\ pins'.sda = 0 /\ pins'.scl = 1
        /\ Sda(pins, slave) = 1 /\ Sda(pins', slave) = 0 => OnStart
    BY <1>1, <1>2, <2>1, <2>2, SdaFacts DEF SdaOps, Out
  <2>4. Sda(pins, slave) = 1 /\ Sda(pins', slave) = 0
    BY <1>2, <2>1, <2>3 DEF Sda, Out
  <2>5. /\ bus' = Append(bus, [ev |-> "S", byte |-> 0, ack |-> 0])
        /\ Counts(0, 0)' /\ slave'.role = "addr" /\ slave'.sda = 1 /\ slave'.sent = slave.sent
    BY <1>1, <2>3, <2>4, Conditions DEF Counts
  <2>. QED BY <1>3, <1>6, <2>3, <2>5 DEF StartAt
<1>7. CASE k = 4
  <2>1. pins.scl = 1 /\ slave.role = "addr" /\ Counts(0, 0) BY <1>7 DEF StartAt
  <2>2. Drive("SCL_SET_0") BY <1>7 DEF gpio_i2c_start
  <2>3. Out' /\ pins'.scl = 0 /\ OnFall(Sda(pins, slave))
    BY <1>1, <1>2, <2>1, <2>2, LowerScl DEF Out
  <2>4. seen.n < 8 /\ seen.n < 9 BY <2>1 DEF Counts
  <2>5. UNCHANGED <<slave, seen, bus>> BY <1>1, <2>1, <2>3, <2>4, Falls
  <2>6. Counts(0, 0)' BY <2>1, <2>5 DEF Counts
  <2>. QED BY <1>2, <1>3, <1>7, <2>1, <2>3, <2>5, <2>6 DEF StartAt
<1>. QED BY <1>4, <1>5, <1>6, <1>7

\* of gpio_i2c_send_ack, which clocks the acknowledge of the byte received,
LEMMA AckStep ==
  ASSUME I2cTypeOK, NEW ack \in {0, 1}, NEW k \in 1 .. 2, AckAt(ack, k),
         Drive(gpio_i2c_send_ack(ack)[k]), UNCHANGED <<data, pdata>>
  PROVE  /\ AckAt(ack, k + 1)'
         /\ k = 1 => UNCHANGED bus
         /\ k = 2 => bus' = Append(bus, [ev |-> "byte", byte |-> Cur, ack |-> ack])
<1>1. /\ pins \in Latches /\ slave \in SlaveState /\ seen \in Counter
      /\ slave.sda \in {0, 1} /\ pins.sda \in {0, 1} /\ pins.scl \in {0, 1}
      /\ Sda(pins, slave) \in {0, 1}
  BY Types
<1>2. /\ "SCL" \in pins.out /\ "SDA" \in pins.out /\ slave.sda = 1
      /\ slave.role \in {"none", "tx"} /\ Stored /\ Ahead(0) /\ data = 0
      /\ pins.scl = 0 /\ Counts(8, Cur)
  BY DEF AckAt, Out
<1>3. ASSUME slave' = slave
      PROVE  /\ Stored' /\ Ahead(0)' /\ Cur' = Cur /\ data' = 0 /\ slave'.sda = 1
             /\ slave'.role \in {"none", "tx"}
  BY <1>2, <1>3 DEF Stored, Ahead, Cur
<1>4. CASE k = 1
  <2>1. Drive(SetSda(ack)) BY <1>4 DEF gpio_i2c_send_ack
  <2>2. Out' /\ pins'.sda = ack /\ pins'.scl = 0 /\ UNCHANGED <<slave, seen, bus>>
    BY <1>1, <1>2, <2>1, SdaFacts, SetSdaFacts DEF Out
  <2>3. Counts(8, Cur)' BY <1>2, <1>3, <2>2 DEF Counts
  <2>. QED BY <1>3, <1>4, <2>2, <2>3 DEF AckAt
<1>5. CASE k = 2
  <2>1. pins.sda = ack BY <1>5 DEF AckAt
  <2>2. Drive("SCL_SET_1") BY <1>5 DEF gpio_i2c_send_ack
  <2>3. Sda(pins, slave) = ack BY <1>2, <2>1 DEF Sda
  <2>4. Out' /\ pins'.sda = ack /\ pins'.scl = 1 /\ OnRise(ack)
    BY <1>1, <1>2, <2>1, <2>2, <2>3, RaiseScl DEF Out
  <2>5. /\ UNCHANGED slave /\ seen'.open /\ seen'.n = 9
        /\ bus' = Append(bus, [ev |-> "byte", byte |-> Cur, ack |-> ack])
    BY <1>1, <1>2, <2>4, Rises DEF Counts
  <2>. QED BY <1>3, <1>5, <2>4, <2>5 DEF AckAt
<1>. QED BY <1>4, <1>5

\* and of gpio_i2c_stop.
LEMMA StopStep ==
  ASSUME I2cTypeOK, NEW k \in 1 .. 4, StopAt(k),
         Drive(gpio_i2c_stop[k]), UNCHANGED <<data, pdata>>
  PROVE  /\ StopAt(k + 1)'
         /\ k # 4 => UNCHANGED bus
         /\ k = 4 => bus' = Append(bus, [ev |-> "P", byte |-> 0, ack |-> 0])
<1>1. /\ pins \in Latches /\ slave \in SlaveState /\ seen \in Counter
      /\ slave.sda \in {0, 1} /\ pins.sda \in {0, 1} /\ pins.scl \in {0, 1}
      /\ Sda(pins, slave) \in {0, 1}
  BY Types
<1>2. /\ "SCL" \in pins.out /\ "SDA" \in pins.out /\ slave.sda = 1 /\ Stored /\ data = 0
      /\ slave.sent = <<>> \/ Len(slave.sent) = Len(pdata)
  BY DEF StopAt, Out
<1>3. ASSUME slave'.sent = slave.sent
      PROVE  Stored' /\ data' = 0 /\ (slave'.sent = <<>> \/ Len(slave'.sent) = Len(pdata'))
  BY <1>2, <1>3 DEF Stored
<1>4. CASE k = 1
  <2>1. \/ pins.scl = 0 /\ Counts(0, 0) /\ slave.role \in {"none", "rx"}
        \/ /\ pins.scl = 1 /\ pins.sda = 1 /\ seen.open /\ seen.n = 9
           /\ slave.role \in {"none", "tx"}
    BY <1>4 DEF StopAt
  <2>2. Drive("SCL_SET_0") BY <1>4 DEF gpio_i2c_stop
  <2>3. /\ Out' /\ pins'.scl = 0
        /\ pins.scl = 0 => UNCHANGED <<slave, seen, bus>>
        /\ pins.scl = 1 => OnFall(Sda(pins, slave))
    BY <1>1, <1>2, <2>2, LowerScl DEF Out
  <2>4. /\ UNCHANGED bus /\ Counts(0, 0)' /\ slave'.role \in {"none", "rx"} /\ slave'.sda = 1
        /\ slave'.sent = slave.sent
    <3>1. CASE pins.scl = 0 BY <1>2, <2>1, <2>3, <3>1 DEF Counts
    <3>2. CASE pins.scl = 1
      <4>1. pins.sda = 1 /\ seen.open /\ seen.n = 9 /\ slave.role \in {"none", "tx"}
        BY <2>1, <3>2
      <4>2. OnFall(1) BY <1>2, <2>3, <3>2, <4>1 DEF Sda
      <4>3. UNCHANGED bus /\ Counts(0, 0)' BY <1>1, <4>1, <4>2, Falls DEF Counts
      <4>4. CASE slave.role = "none"
        <5>1. slave' = slave BY <1>1, <4>2, <4>4, Falls
        <5>. QED BY <1>2, <4>3, <4>4, <5>1
      <4>5. CASE slave.role = "tx"
        <5>1. Released("none") BY <1>1, <4>1, <4>2, <4>5, Falls
        <5>. QED BY <1>1, <4>3, <5>1, Releases
      <4>. QED BY <4>1, <4>4, <4>5
    <3>. QED BY <1>1, <3>1, <3>2
  <2>. QED BY <1>3, <1>4, <2>3, <2>4 DEF StopAt
<1>5. CASE k = 2
  <2>1. pins.scl = 0 /\ Counts(0, 0) /\ slave.role \in {"none", "rx"} BY <1>5 DEF StopAt
  <2>2. Drive("SDA_SET_0") BY <1>5 DEF gpio_i2c_stop
  <2>3. Out' /\ pins'.scl = 0 /\ pins'.sda = 0 /\ UNCHANGED <<slave, seen, bus>>
    BY <1>1, <1>2, <2>1, <2>2, SdaFacts DEF SdaOps, Out
  <2>4. Counts(0, 0)' BY <2>1, <2>3 DEF Counts
  <2>. QED BY <1>2, <1>3, <1>5, <2>1, <2>3, <2>4 DEF StopAt
<1>6. CASE k = 3
  <2>1. pins.scl = 0 /\ Counts(0, 0) /\ slave.role \in {"none", "rx"} /\ pins.sda = 0
    BY <1>6 DEF StopAt
  <2>2. Drive("SCL_SET_1") BY <1>6 DEF gpio_i2c_stop
  <2>3. Out' /\ pins'.scl = 1 /\ pins'.sda = 0 /\ OnRise(Sda(pins, slave))
    BY <1>1, <1>2, <2>1, <2>2, RaiseScl DEF Out
  <2>4. seen.open /\ seen.n < 8 BY <2>1 DEF Counts
  <2>5. UNCHANGED <<slave, bus>> BY <1>1, <2>3, <2>4, Rises
  <2>. QED BY <1>2, <1>3, <1>6, <2>1, <2>3, <2>5 DEF StopAt
<1>7. CASE k = 4
  <2>1. pins.scl = 1 /\ pins.sda = 0 BY <1>7 DEF StopAt
  <2>2. Drive("SDA_SET_1") BY <1>7 DEF gpio_i2c_stop
  <2>3. /\ Out' /\ pins'.scl = 1 /\ pins'.sda = 1
        /\ Sda(pins, slave) = 0 /\ Sda(pins', slave) = 1 => OnStop
    BY <1>1, <1>2, <2>1, <2>2, SdaFacts DEF SdaOps, Out
  <2>4. Sda(pins, slave) = 0 /\ Sda(pins', slave) = 1
    BY <1>2, <2>1, <2>3 DEF Sda
  <2>5. /\ bus' = Append(bus, [ev |-> "P", byte |-> 0, ack |-> 0])
        /\ Closed' /\ slave'.role = "none" /\ slave'.sda = 1 /\ slave'.sent = slave.sent
    BY <1>1, <2>3, <2>4, Conditions DEF Closed
  <2>. QED BY <1>3, <1>7, <2>3, <2>5 DEF StopAt, Resting, Out
<1>. QED BY <1>4, <1>5, <1>6, <1>7

(* The variant for the LCD *)

\* A slave that does not take part stays so while SCL moves.
LEMMA Passive ==
  ASSUME I2cTypeOK, "SCL" \in pins.out, slave.role = "none", slave.sda = 1
  PROVE  /\ Drive("SCL_SET_1") =>
              /\ pins'.scl = 1 /\ pins'.sda = pins.sda /\ "SCL" \in pins'.out
              /\ "SDA" \in pins'.out <=> "SDA" \in pins.out
              /\ slave'.role = "none" /\ slave'.sda = 1
         /\ Drive("SCL_SET_0") =>
              /\ pins'.scl = 0 /\ pins'.sda = pins.sda /\ "SCL" \in pins'.out
              /\ "SDA" \in pins'.out <=> "SDA" \in pins.out
              /\ slave'.role = "none" /\ slave'.sda = 1
<1>1. /\ pins \in Latches /\ slave \in SlaveState /\ seen \in Counter
      /\ slave.sda \in {0, 1} /\ pins.scl \in {0, 1} /\ Sda(pins, slave) \in {0, 1}
  BY Types
<1>2. ASSUME Drive("SCL_SET_1")
      PROVE  /\ pins'.scl = 1 /\ pins'.sda = pins.sda /\ "SCL" \in pins'.out
             /\ "SDA" \in pins'.out <=> "SDA" \in pins.out
             /\ slave'.role = "none" /\ slave'.sda = 1
  <2>1. /\ pins'.scl = 1 /\ pins'.sda = pins.sda /\ "SCL" \in pins'.out
        /\ "SDA" \in pins'.out <=> "SDA" \in pins.out
        /\ pins.scl = 1 => UNCHANGED <<slave, seen, bus>>
        /\ pins.scl = 0 => OnRise(Sda(pins, slave))
    BY <1>1, <1>2, RaiseScl
  <2>2. UNCHANGED slave
    <3>1. ASSUME OnRise(Sda(pins, slave)) PROVE UNCHANGED slave BY <1>1, <3>1, Rises
    <3>. QED BY <1>1, <2>1, <3>1
  <2>. QED BY <2>1, <2>2
<1>3. ASSUME Drive("SCL_SET_0")
      PROVE  /\ pins'.scl = 0 /\ pins'.sda = pins.sda /\ "SCL" \in pins'.out
             /\ "SDA" \in pins'.out <=> "SDA" \in pins.out
             /\ slave'.role = "none" /\ slave'.sda = 1
  <2>1. /\ pins'.scl = 0 /\ pins'.sda = pins.sda /\ "SCL" \in pins'.out
        /\ "SDA" \in pins'.out <=> "SDA" \in pins.out
        /\ pins.scl = 0 => UNCHANGED <<slave, seen, bus>>
        /\ pins.scl = 1 => OnFall(Sda(pins, slave))
    BY <1>1, <1>3, LowerScl
  <2>2. UNCHANGED slave
    <3>1. ASSUME OnFall(Sda(pins, slave)) PROVE UNCHANGED slave BY <1>1, <3>1, Falls
    <3>. QED BY <1>1, <2>1, <3>1
  <2>. QED BY <2>1, <2>2
<1>. QED BY <1>2, <1>3

\* The register's bits, while the slave may be sending.
LEMMA LcdSendBits ==
  ASSUME I2cTypeOK, NEW b \in Byte, NEW k \in 1 .. 24, LcdSendAt(k),
         Drive(gpio_i2c_send_byte(b)[k])
  PROVE  LcdSendAt(k + 1)'
<1>1. /\ pins \in Latches /\ slave \in SlaveState /\ seen \in Counter
      /\ slave.sda \in {0, 1} /\ pins.sda \in {0, 1} /\ Sda(pins, slave) \in {0, 1}
  BY Types
<1>2. PICK m \in 0 .. 7 :
           \/ k = 3 * m + 1 /\ k % 3 = 1 /\ (k - 1) \div 3 = m /\ (k + 1) % 3 = 2 /\ k \div 3 = m
           \/ /\ k = 3 * m + 2 /\ k % 3 = 2 /\ (k - 1) \div 3 = m /\ (k + 1) % 3 = 0 /\ k \div 3 = m
              /\ (k + 1) \div 3 = m + 1
           \/ k = 3 * m + 3 /\ k % 3 = 0 /\ (k - 1) \div 3 = m /\ (k + 1) % 3 = 1 /\ k \div 3 = m + 1
  BY Thirds
<1>3. /\ "SCL" \in pins.out /\ "SDA" \in pins.out
      /\ slave.role \in {"none", "tx"} /\ (slave.role = "none" => slave.sda = 1)
      /\ seen.open /\ seen.n = m
  BY <1>2 DEF LcdSendAt
<1>4. (k + 1) - 1 = k OBVIOUS
<1>6. CASE k = 3 * m + 1 /\ k % 3 = 1 /\ (k - 1) \div 3 = m /\ (k + 1) % 3 = 2 /\ k \div 3 = m
  <2>1. Drive("SCL_SET_0") BY <1>6, SendOps
  <2>2. /\ pins'.scl = 0 /\ "SCL" \in pins'.out /\ "SDA" \in pins'.out
        /\ pins.scl = 0 \/ OnFall(Sda(pins, slave))
        /\ pins.scl = 0 => UNCHANGED <<slave, seen, bus>>
    BY <1>1, <1>3, <2>1, LowerScl DEF Latches
  <2>3. /\ seen'.open /\ seen'.n = m /\ slave'.role \in {"none", "tx"}
        /\ slave'.role = "none" => slave'.sda = 1
    <3>1. seen.n < 8 /\ seen.n < 9 BY <1>3
    <3>2. ASSUME OnFall(Sda(pins, slave))
          PROVE  /\ seen' = seen /\ slave'.role = slave.role
                 /\ slave.role = "none" => slave' = slave
      BY <1>1, <1>3, <3>1, <3>2, Falls
    <3>3. CASE OnFall(Sda(pins, slave))
      <4>1. /\ seen' = seen /\ slave'.role = slave.role
            /\ slave.role = "none" => slave' = slave
        BY <3>2, <3>3
      <4>2. seen'.open /\ seen'.n = m BY <1>3, <4>1
      <4>. QED BY <1>3, <4>1, <4>2
    <3>4. CASE pins.scl = 0 BY <1>3, <2>2, <3>4
    <3>. QED BY <2>2, <3>3, <3>4
  <2>. QED BY <1>4, <1>6, <2>2, <2>3 DEF LcdSendAt
<1>7. CASE k = 3 * m + 2 /\ k % 3 = 2 /\ (k - 1) \div 3 = m /\ (k + 1) % 3 = 0 /\ k \div 3 = m
           /\ (k + 1) \div 3 = m + 1
  <2>1. Drive(SetSda(BitOf(b, m + 1))) BY <1>7, SendOps
  <2>2. BitOf(b, m + 1) \in {0, 1} BY TopFacts
  <2>3. pins.scl = 0 BY <1>7 DEF LcdSendAt
  <2>4. /\ pins'.scl = 0 /\ "SCL" \in pins'.out
        /\ "SDA" \in pins'.out
        /\ UNCHANGED <<slave, seen, bus>>
    BY <1>1, <1>3, <2>1, <2>2, <2>3, SdaFacts, SetSdaFacts
  <2>. QED BY <1>3, <1>4, <1>7, <2>4 DEF LcdSendAt
<1>8. CASE k = 3 * m + 3 /\ k % 3 = 0 /\ (k - 1) \div 3 = m /\ (k + 1) % 3 = 1 /\ k \div 3 = m + 1
  <2>1. Drive("SCL_SET_1") BY <1>8, SendOps
  <2>2. pins.scl = 0 BY <1>8 DEF LcdSendAt
  <2>3. /\ pins'.scl = 1 /\ "SCL" \in pins'.out
        /\ "SDA" \in pins'.out
        /\ OnRise(Sda(pins, slave))
    BY <1>1, <1>3, <2>1, <2>2, RaiseScl
  <2>4. seen.n < 8 BY <1>3
  <2>5. UNCHANGED slave /\ seen'.open /\ seen'.n = m + 1
    BY <1>1, <1>3, <2>3, <2>4, Rises
  <2>. QED BY <1>3, <1>4, <1>8, <2>3, <2>5 DEF LcdSendAt
<1>. QED BY <1>2, <1>6, <1>7, <1>8

\* Its acknowledge: the slave gives up, for SDA is high.
LEMMA LcdSendAck ==
  ASSUME I2cTypeOK, NEW b \in Byte, NEW k \in 25 .. 29, LcdSendAt(k),
         Drive(gpio_i2c_send_byte(b)[k])
  PROVE  LcdSendAt(k + 1)'
<1>1. /\ pins \in Latches /\ slave \in SlaveState /\ seen \in Counter
      /\ slave.sda \in {0, 1} /\ pins.sda \in {0, 1} /\ Sda(pins, slave) \in {0, 1}
  BY Types
<1>2. /\ "SCL" \in pins.out /\ slave.role \in {"none", "tx"} /\ seen.open
      /\ slave.role = "none" => slave.sda = 1
  BY DEF LcdSendAt
<1>4. CASE k = 25
  <2>0. (k - 1) \div 3 = 8 /\ k % 3 = 1 BY <1>4
  <2>1. "SDA" \in pins.out /\ seen.n = 8 /\ pins.scl = 1 BY <1>4, <2>0 DEF LcdSendAt
  <2>2. Drive("SCL_SET_0") BY <1>4, SendOps
  <2>3. /\ pins'.scl = 0 /\ "SCL" \in pins'.out /\ "SDA" \in pins'.out
        /\ OnFall(Sda(pins, slave))
    BY <1>1, <1>2, <2>1, <2>2, LowerScl
  <2>4. seen' = seen BY <1>1, <2>1, <2>3, Falls
  <2>5. slave'.role \in {"none", "tx"} /\ slave'.sda = 1
    <3>1. CASE slave.role = "none"
      <4>1. slave' = slave BY <1>1, <2>3, <3>1, Falls
      <4>. QED BY <1>2, <3>1, <4>1
    <3>2. CASE slave.role = "tx"
      <4>1. Released("tx") BY <1>1, <2>1, <2>3, <3>2, Falls
      <4>. QED BY <1>1, <4>1, Releases
    <3>. QED BY <1>2, <3>1, <3>2
  <2>. QED BY <1>2, <1>4, <2>1, <2>3, <2>4, <2>5 DEF LcdSendAt
<1>5. CASE k = 26
  <2>1. "SDA" \in pins.out /\ slave.sda = 1 /\ pins.scl = 0 /\ seen.n = 8
    BY <1>5 DEF LcdSendAt
  <2>2. Drive("SET_SDA_IN") BY <1>5, SendOps
  <2>3. /\ pins'.scl = 0 /\ "SCL" \in pins'.out /\ "SDA" \notin pins'.out
        /\ UNCHANGED <<slave, seen, bus>>
    BY <1>1, <1>2, <2>1, <2>2, SdaFacts DEF SdaOps
  <2>. QED BY <1>2, <1>5, <2>1, <2>3 DEF LcdSendAt
<1>6. CASE k = 27
  <2>1. "SDA" \notin pins.out /\ slave.sda = 1 /\ pins.scl = 0 /\ seen.n = 8
    BY <1>6 DEF LcdSendAt
  <2>2. Drive("SCL_SET_1") BY <1>6, SendOps
  <2>3. /\ pins'.scl = 1 /\ "SCL" \in pins'.out /\ "SDA" \notin pins'.out
        /\ OnRise(Sda(pins, slave))
    BY <1>1, <1>2, <2>1, <2>2, RaiseScl
  <2>4. UNCHANGED slave /\ seen'.open /\ seen'.n = 9
    BY <1>1, <1>2, <2>1, <2>3, Rises
  <2>. QED BY <1>2, <1>6, <2>1, <2>3, <2>4 DEF LcdSendAt
<1>7. CASE k = 28
  <2>1. "SDA" \notin pins.out /\ slave.sda = 1 /\ pins.scl = 1 /\ seen.n = 9
    BY <1>7 DEF LcdSendAt
  <2>2. Drive("SCL_SET_0") BY <1>7, SendOps
  <2>3. /\ pins'.scl = 0 /\ "SCL" \in pins'.out /\ "SDA" \notin pins'.out
        /\ OnFall(Sda(pins, slave))
    BY <1>1, <1>2, <2>1, <2>2, LowerScl
  <2>4. OnFall(1) BY <2>1, <2>3 DEF Sda
  <2>5. seen'.open BY <1>1, <1>2, <2>1, <2>4, Falls
  <2>6. slave'.role = "none" /\ slave'.sda = 1
    <3>1. CASE slave.role = "none"
      <4>1. slave' = slave BY <1>1, <2>3, <3>1, Falls
      <4>. QED BY <1>2, <3>1, <4>1
    <3>2. CASE slave.role = "tx"
      <4>1. Released("none") BY <1>1, <2>1, <2>4, <3>2, Falls
      <4>. QED BY <1>1, <4>1, Releases
    <3>. QED BY <1>2, <3>1, <3>2
  <2>. QED BY <1>7, <2>3, <2>5, <2>6 DEF LcdSendAt
<1>8. CASE k = 29
  <2>1. "SDA" \notin pins.out /\ pins.scl = 0 /\ slave.role = "none" BY <1>8 DEF LcdSendAt
  <2>2. Drive("SET_SDA_OUT") BY <1>8, SendOps
  <2>3. /\ pins'.scl = 0 /\ "SCL" \in pins'.out /\ "SDA" \in pins'.out
        /\ UNCHANGED <<slave, seen, bus>>
    BY <1>1, <1>2, <2>1, <2>2, SdaFacts DEF SdaOps
  <2>. QED BY <1>2, <1>8, <2>1, <2>3 DEF LcdSendAt
<1>. QED BY <1>4, <1>5, <1>6, <1>7, <1>8

\* Every operation that sends the register.
LEMMA LcdSendStep ==
  ASSUME I2cTypeOK, NEW b \in Byte, NEW k \in 1 .. 29, LcdSendAt(k),
         Drive(gpio_i2c_send_byte(b)[k])
  PROVE  LcdSendAt(k + 1)'
<1>1. CASE k \in 1 .. 24 BY <1>1, LcdSendBits
<1>2. CASE k \in 25 .. 29 BY <1>2, LcdSendAck
<1>. QED BY <1>1, <1>2

\* Every operation of the read of a byte.
LEMMA LcdRecvStep ==
  ASSUME I2cTypeOK, NEW k \in 1 .. 28, LcdRecvAt(k),
         \/ gpio_i2c_lcd_recv_byte[k] \notin {"SDA_GET", "STORE"} /\ Drive(gpio_i2c_lcd_recv_byte[k])
         \/ gpio_i2c_lcd_recv_byte[k] \in {"SDA_GET", "STORE"} /\ UNCHANGED <<pins, slave>>
  PROVE  LcdRecvAt(k + 1)'
<1>1. /\ pins \in Latches /\ slave \in SlaveState /\ seen \in Counter
      /\ slave.sda \in {0, 1} /\ pins.sda \in {0, 1} /\ pins.scl \in {0, 1}
      /\ Sda(pins, slave) \in {0, 1}
  BY Types
<1>2. "SCL" \in pins.out /\ slave.role = "none" /\ slave.sda = 1 BY DEF LcdRecvAt
<1>3. CASE k = 1
  <2>1. "SDA" \in pins.out BY <1>3 DEF LcdRecvAt
  <2>2. Drive("SDA_SET_1") BY <1>3, LcdRecvOps
  <2>3. /\ "SCL" \in pins'.out /\ "SDA" \in pins'.out /\ pins'.sda = 1
        /\ pins.scl = 0 => UNCHANGED <<slave, seen, bus>>
        /\ pins.scl = 1 =>
             /\ Sda(pins, slave) = Sda(pins', slave) => UNCHANGED <<slave, seen, bus>>
             /\ Sda(pins, slave) = 0 /\ Sda(pins', slave) = 1 => OnStop
    BY <1>1, <1>2, <2>1, <2>2, SdaFacts DEF SdaOps
  <2>4. Sda(pins', slave) = 1 BY <1>2, <2>3 DEF Sda
  <2>5. UNCHANGED slave \/ OnStop BY <1>1, <2>3, <2>4
  <2>6. slave'.role = "none" /\ slave'.sda = 1 BY <1>1, <1>2, <2>5, Conditions
  <2>. QED BY <1>3, <2>3, <2>6 DEF LcdRecvAt
<1>4. CASE k = 2
  <2>1. "SDA" \in pins.out /\ pins.sda = 1 BY <1>4 DEF LcdRecvAt
  <2>2. Drive("SET_SDA_IN") BY <1>4, LcdRecvOps
  <2>3. /\ "SCL" \in pins'.out /\ "SDA" \notin pins'.out
        /\ pins.scl = 0 => UNCHANGED <<slave, seen, bus>>
        /\ pins.scl = 1 /\ Sda(pins, slave) = Sda(pins', slave) => UNCHANGED <<slave, seen, bus>>
    BY <1>1, <1>2, <2>1, <2>2, SdaFacts DEF SdaOps
  <2>4. Sda(pins, slave) = 1 /\ Sda(pins', slave) = 1 BY <1>2, <2>1, <2>3 DEF Sda
  <2>5. UNCHANGED slave BY <1>1, <2>3, <2>4
  <2>. QED BY <1>2, <1>4, <2>3, <2>5 DEF LcdRecvAt
<1>5. CASE k \in 3 .. 26
  <2>1. "SDA" \notin pins.out BY <1>5 DEF LcdRecvAt
  <2>2. k % 3 = 0 \/ k % 3 = 1 \/ k % 3 = 2 BY <1>5
  <2>3. CASE k % 3 = 0
    <3>1. (k + 1) % 3 = 1 BY <1>5, <2>3
    <3>2. Drive("SCL_SET_1") BY <1>5, <2>3, LcdRecvOps
    <3>3. /\ pins'.scl = 1 /\ "SCL" \in pins'.out /\ "SDA" \notin pins'.out
          /\ slave'.role = "none" /\ slave'.sda = 1
      BY <1>2, <2>1, <3>2, Passive
    <3>4. k + 1 \in 4 .. 27 /\ k + 1 # 27 BY <1>5, <2>3, <3>1
    <3>. QED BY <3>1, <3>3, <3>4 DEF LcdRecvAt
  <2>4. CASE k % 3 = 1
    <3>1. (k + 1) % 3 = 2 BY <1>5, <2>4
    <3>2. UNCHANGED <<pins, slave>> BY <1>5, <2>4, LcdRecvOps
    <3>3. pins.scl = 1 BY <1>5, <2>4 DEF LcdRecvAt
    <3>4. k + 1 \in 4 .. 27 /\ k + 1 # 27 BY <1>5, <2>4, <3>1
    <3>. QED BY <1>2, <2>1, <3>1, <3>2, <3>3, <3>4 DEF LcdRecvAt
  <2>5. CASE k % 3 = 2
    <3>1. (k + 1) % 3 = 0 BY <1>5, <2>5
    <3>2. Drive("SCL_SET_0") BY <1>5, <2>5, LcdRecvOps
    <3>3. /\ pins'.scl = 0 /\ "SCL" \in pins'.out /\ "SDA" \notin pins'.out
          /\ slave'.role = "none" /\ slave'.sda = 1
      BY <1>2, <2>1, <3>2, Passive
    <3>4. k + 1 \in 4 .. 27 BY <1>5
    <3>. QED BY <3>1, <3>3, <3>4 DEF LcdRecvAt
  <2>. QED BY <2>2, <2>3, <2>4, <2>5
<1>6. CASE k = 27
  <2>1. "SDA" \notin pins.out /\ pins.scl = 0 BY <1>6 DEF LcdRecvAt
  <2>2. Drive("SET_SDA_OUT") BY <1>6, LcdRecvOps
  <2>3. /\ pins'.scl = 0 /\ "SCL" \in pins'.out /\ "SDA" \in pins'.out
        /\ UNCHANGED <<slave, seen, bus>>
    BY <1>1, <1>2, <2>1, <2>2, SdaFacts DEF SdaOps
  <2>. QED BY <1>2, <1>6, <2>3 DEF LcdRecvAt
<1>7. CASE k = 28
  <2>1. UNCHANGED <<pins, slave>> BY <1>7, LcdRecvOps
  <2>2. "SDA" \in pins.out /\ pins.scl = 0 BY <1>7 DEF LcdRecvAt
  <2>. QED BY <1>2, <1>7, <2>1, <2>2 DEF LcdRecvAt
<1>. QED BY <1>3, <1>4, <1>5, <1>6, <1>7

\* Every operation of its acknowledge.
LEMMA LcdAckStep ==
  ASSUME I2cTypeOK, NEW ack \in {0, 1}, NEW k \in 1 .. 2, LcdAckAt(k),
         Drive(gpio_i2c_send_ack(ack)[k])
  PROVE  LcdAckAt(k + 1)'
<1>1. pins \in Latches /\ slave.sda \in {0, 1} BY Types
<1>2. "SCL" \in pins.out /\ "SDA" \in pins.out /\ slave.role = "none" /\ slave.sda = 1
      /\ pins.scl = 0
  BY DEF LcdAckAt, Out
<1>3. CASE k = 1
  <2>1. Drive(SetSda(ack)) BY <1>3 DEF gpio_i2c_send_ack
  <2>2. Out' /\ pins'.scl = 0 /\ UNCHANGED <<slave, seen, bus>>
    BY <1>1, <1>2, <2>1, SdaFacts, SetSdaFacts DEF Out
  <2>. QED BY <1>2, <1>3, <2>2 DEF LcdAckAt
<1>4. CASE k = 2
  <2>1. Drive("SCL_SET_1") BY <1>4 DEF gpio_i2c_send_ack
  <2>2. Out' /\ pins'.scl = 1 /\ slave'.role = "none" /\ slave'.sda = 1
    BY <1>2, <2>1, Passive DEF Out
  <2>. QED BY <1>4, <2>2 DEF LcdAckAt
<1>. QED BY <1>3, <1>4

\* Every operation of the stop.
LEMMA LcdStopStep ==
  ASSUME I2cTypeOK, NEW k \in 1 .. 4, LcdStopAt(k), Drive(gpio_i2c_stop[k])
  PROVE  LcdStopAt(k + 1)'
<1>1. /\ pins \in Latches /\ slave.sda \in {0, 1} /\ slave \in SlaveState BY Types
<1>2. "SCL" \in pins.out /\ "SDA" \in pins.out /\ slave.role = "none" /\ slave.sda = 1
  BY DEF LcdStopAt, Out
<1>3. CASE k = 1
  <2>1. Drive("SCL_SET_0") BY <1>3 DEF gpio_i2c_stop
  <2>2. Out' /\ pins'.scl = 0 /\ slave'.role = "none" /\ slave'.sda = 1
    BY <1>2, <2>1, Passive DEF Out
  <2>. QED BY <1>3, <2>2 DEF LcdStopAt
<1>4. CASE k = 2
  <2>1. Drive("SDA_SET_0") /\ pins.scl = 0 BY <1>4 DEF gpio_i2c_stop, LcdStopAt
  <2>2. Out' /\ pins'.scl = 0 /\ pins'.sda = 0 /\ UNCHANGED <<slave, seen, bus>>
    BY <1>1, <1>2, <2>1, SdaFacts DEF SdaOps, Out
  <2>. QED BY <1>2, <1>4, <2>2 DEF LcdStopAt
<1>5. CASE k = 3
  <2>1. Drive("SCL_SET_1") /\ pins.sda = 0 BY <1>5 DEF gpio_i2c_stop, LcdStopAt
  <2>2. Out' /\ pins'.scl = 1 /\ pins'.sda = 0 /\ slave'.role = "none" /\ slave'.sda = 1
    BY <1>2, <2>1, Passive DEF Out
  <2>. QED BY <1>5, <2>2 DEF LcdStopAt
<1>6. CASE k = 4
  <2>1. Drive("SDA_SET_1") /\ pins.scl = 1 /\ pins.sda = 0 BY <1>6 DEF gpio_i2c_stop, LcdStopAt
  <2>2. /\ Out' /\ pins'.scl = 1 /\ pins'.sda = 1
        /\ Sda(pins, slave) = 0 /\ Sda(pins', slave) = 1 => OnStop
    BY <1>1, <1>2, <2>1, SdaFacts DEF SdaOps, Out
  <2>3. Sda(pins, slave) = 0 /\ Sda(pins', slave) = 1 BY <1>2, <2>1, <2>2 DEF Sda
  <2>4. Closed' /\ slave'.role = "none" /\ slave'.sda = 1
    BY <1>1, <2>2, <2>3, Conditions DEF Closed
  <2>. QED BY <1>6, <2>2, <2>4 DEF LcdStopAt, Resting, Out
<1>. QED BY <1>3, <1>4, <1>5, <1>6

-----------------------------------------------------------------------------
(* The place of a function in its call *)

\* The length of a function, and the operation that completes its event.
LEMMA Lengths ==
  /\ Body(Do("i2c_choice")) = i2c_choice /\ Len(Body(Do("i2c_choice"))) = 2
  /\ Body(Do("start")) = gpio_i2c_start /\ Len(Body(Do("start"))) = 4
  /\ \A b : Body(Send(b)) = gpio_i2c_send_byte(b) /\ Len(Body(Send(b))) = 29
  /\ Body(Do("recv_byte")) = gpio_i2c_recv_byte /\ Len(Body(Do("recv_byte"))) = 29
  /\ Body(Do("lcd_recv_byte")) = gpio_i2c_lcd_recv_byte /\ Len(Body(Do("lcd_recv_byte"))) = 28
  /\ \A a : Body(Ack(a)) = gpio_i2c_send_ack(a) /\ Len(Body(Ack(a))) = 2
  /\ Body(Do("stop")) = gpio_i2c_stop /\ Len(Body(Do("stop"))) = 4
<1>1. Body(Do("i2c_choice")) = i2c_choice /\ Len(i2c_choice) = 2 BY DEF Body, Do, i2c_choice
<1>2. Body(Do("start")) = gpio_i2c_start /\ Len(gpio_i2c_start) = 4 BY DEF Body, Do, gpio_i2c_start
<1>3. \A b : Body(Send(b)) = gpio_i2c_send_byte(b) BY DEF Body, Send
<1>4. \A b : Len(gpio_i2c_send_byte(b)) = 29 BY SendOps
<1>5. Body(Do("recv_byte")) = gpio_i2c_recv_byte BY DEF Body, Do
<1>6. Body(Do("lcd_recv_byte")) = gpio_i2c_lcd_recv_byte BY DEF Body, Do
<1>7. \A a : Body(Ack(a)) = gpio_i2c_send_ack(a) BY DEF Body, Ack
<1>8. \A a : Len(gpio_i2c_send_ack(a)) = 2 BY DEF gpio_i2c_send_ack
<1>9. Body(Do("stop")) = gpio_i2c_stop /\ Len(gpio_i2c_stop) = 4 BY DEF Body, Do, gpio_i2c_stop
<1>. QED BY <1>1, <1>2, <1>3, <1>4, <1>5, <1>6, <1>7, <1>8, <1>9, RecvOps, LcdRecvOps

\* The functions of a read come in pairs: a byte and its acknowledge.
LEMMA Halves ==
  ASSUME NEW len \in Nat, NEW j \in 7 .. 2 * len + 6
  PROVE  \E i \in 1 .. len :
           \/ /\ j = 2 * i + 5 /\ j % 2 = 1
              /\ (j - 7) \div 2 = i - 1 /\ ((j + 1) - 7) \div 2 = i - 1
              /\ (j - 6) \div 2 = i - 1 /\ ((j + 1) - 6) \div 2 = i
           \/ /\ j = 2 * i + 6 /\ j % 2 # 1
              /\ (j - 7) \div 2 = i - 1 /\ ((j + 1) - 7) \div 2 = i
              /\ (j - 6) \div 2 = i /\ ((j + 1) - 6) \div 2 = i
<1>1. CASE j % 2 = 1
  <2> DEFINE i == (j - 5) \div 2
  <2>1. i \in 1 .. len /\ j = 2 * i + 5 BY <1>1
  <2>2. /\ (j - 7) \div 2 = i - 1 /\ ((j + 1) - 7) \div 2 = i - 1
        /\ (j - 6) \div 2 = i - 1 /\ ((j + 1) - 6) \div 2 = i
    <3> HIDE DEF i
    <3>. QED BY <2>1
  <2>. QED BY <1>1, <2>1, <2>2
<1>2. CASE j % 2 # 1
  <2> DEFINE i == (j - 6) \div 2
  <2>1. i \in 1 .. len /\ j = 2 * i + 6 BY <1>2
  <2>2. /\ (j - 7) \div 2 = i - 1 /\ ((j + 1) - 7) \div 2 = i
        /\ (j - 6) \div 2 = i /\ ((j + 1) - 6) \div 2 = i
    <3> HIDE DEF i
    <3>. QED BY <2>1
  <2>. QED BY <1>2, <2>1, <2>2
<1>. QED BY <1>1, <1>2

\* A function, the events before it and its own, and the bytes stored before it.
At(c, j, f, n, s) ==
  /\ j \in 1 .. Len(Calls(c)) /\ Calls(c)[j] = f
  /\ EventsBefore(c, j) = n /\ StoredBefore(c, j) = s

Place(c, j) ==
  \/ At(c, j, Do("i2c_choice"), 0, 0)
  \/ \E n \in {0, 3} : At(c, j, Do("start"), n, 0) /\ EventOf(c, n + 1) = Mark("S")
  \/ \E n \in Nat, b \in Byte : At(c, j, Send(b), n, 0) /\ EventOf(c, n + 1) = Clocked(b)
  \/ \E s \in Nat : At(c, j, Do("recv_byte"), s + 5, s)
  \/ \E s \in Nat \ {0}, a \in {0, 1} :
       At(c, j, Ack(a), s + 4, s) /\ EventOf(c, s + 5) = Got(s, c.len) /\ a = IF s < c.len THEN 0 ELSE 1
  \/ \E n \in Nat : /\ At(c, j, Do("stop"), n, c.len) /\ EventOf(c, n + 1) = Mark("P")
                    /\ n + 1 = IF c.len = 0 THEN Len(c.bytes) + 4 ELSE c.len + 6
                    /\ j = Len(Calls(c))

\* Every function of a write has its place in the transfer.
LEMMA WritePlace ==
  ASSUME NEW c, IsCall(c), c.len = 0, NEW j \in 1 .. Len(Calls(c))
  PROVE  Place(c, j)
<1> DEFINE m == Len(c.bytes)
<1>1. m \in Nat /\ Len(Calls(c)) = m + 5 BY WriteCalls
<1>2. StoredBefore(c, j) = 0 /\ EventsBefore(c, j) = IF j > 2 THEN j - 2 ELSE 0
  BY DEF StoredBefore, EventsBefore
<1>3. c.addr \in Byte /\ c.reg \in Byte BY CallFacts
<1>4. CASE j = 1
  <2>1. At(c, j, Do("i2c_choice"), 0, 0) BY <1>2, <1>4, WriteCalls DEF At
  <2>. QED BY <2>1 DEF Place
<1>5. CASE j = 2
  <2>1. At(c, j, Do("start"), 0, 0) BY <1>2, <1>5, WriteCalls DEF At
  <2>2. EventOf(c, 0 + 1) = Mark("S") BY DEF EventOf
  <2>. QED BY <2>1, <2>2 DEF Place
<1>6. CASE j = 3
  <2>1. At(c, j, Send(c.addr), 1, 0) BY <1>2, <1>6, WriteCalls DEF At
  <2>2. EventOf(c, 1 + 1) = Clocked(c.addr) BY DEF EventOf
  <2>. QED BY <1>3, <2>1, <2>2 DEF Place
<1>7. CASE j = 4
  <2>1. At(c, j, Send(c.reg), 2, 0) BY <1>2, <1>7, WriteCalls DEF At
  <2>2. EventOf(c, 2 + 1) = Clocked(c.reg) BY DEF EventOf
  <2>. QED BY <1>3, <2>1, <2>2 DEF Place
<1>8. CASE j \in 5 .. m + 4
  <2>1. Calls(c)[j] = Send(c.bytes[j - 4]) /\ c.bytes[j - 4] \in Byte BY <1>8, WriteCalls
  <2>2. j - 2 \in Nat /\ EventsBefore(c, j) = j - 2 BY <1>1, <1>2, <1>8
  <2>3. At(c, j, Send(c.bytes[j - 4]), j - 2, 0) BY <1>2, <2>1, <2>2 DEF At
  <2>4. /\ (j - 2) + 1 > 3 /\ (j - 2) + 1 <= m + 3 /\ ((j - 2) + 1) - 3 = j - 4
        /\ (j - 2) + 1 # 1 /\ (j - 2) + 1 # 2 /\ (j - 2) + 1 # 3
    BY <1>1, <1>8
  <2>5. EventOf(c, (j - 2) + 1) = Clocked(c.bytes[j - 4]) BY <2>4 DEF EventOf
  <2>. QED BY <2>1, <2>2, <2>3, <2>5 DEF Place
<1>9. CASE j = m + 5
  <2>1. Calls(c)[j] = Do("stop") BY <1>9, WriteCalls
  <2>2. m + 3 \in Nat /\ EventsBefore(c, j) = m + 3 BY <1>1, <1>2, <1>9
  <2>3. At(c, j, Do("stop"), m + 3, 0) BY <1>2, <2>1, <2>2 DEF At
  <2>4. /\ (m + 3) + 1 > 3 /\ ~((m + 3) + 1 <= m + 3)
        /\ (m + 3) + 1 # 1 /\ (m + 3) + 1 # 2 /\ (m + 3) + 1 # 3
    BY <1>1
  <2>5. EventOf(c, (m + 3) + 1) = Mark("P") BY <2>4 DEF EventOf
  <2>6. (m + 3) + 1 = m + 4 BY <1>1
  <2>. QED BY <1>1, <1>9, <2>2, <2>3, <2>5, <2>6 DEF Place
<1>. QED BY <1>1, <1>4, <1>5, <1>6, <1>7, <1>8, <1>9

\* So has every function of a read,
LEMMA ReadPlace ==
  ASSUME NEW c, IsCall(c), c.fn \in {"read_byte", "read_data"}, NEW j \in 1 .. Len(Calls(c))
  PROVE  Place(c, j)
<1>1. c.len \in Nat \ {0} /\ c.len > 0 /\ Len(Calls(c)) = 2 * c.len + 7 BY ReadCalls
<1>2. /\ StoredBefore(c, j) = IF j > 7 THEN (j - 6) \div 2 ELSE 0
      /\ EventsBefore(c, j) = IF j > 6 THEN 5 + (j - 7) \div 2 ELSE IF j > 2 THEN j - 2 ELSE 0
  BY <1>1 DEF StoredBefore, EventsBefore
<1>3. c.addr \in Byte /\ c.reg \in Byte /\ c.addr + 1 \in Byte BY CallFacts
<1>4. CASE j = 1
  <2>1. At(c, j, Do("i2c_choice"), 0, 0) BY <1>2, <1>4, ReadCalls DEF At
  <2>. QED BY <2>1 DEF Place
<1>5. CASE j = 2
  <2>1. At(c, j, Do("start"), 0, 0) BY <1>2, <1>5, ReadCalls DEF At
  <2>2. EventOf(c, 0 + 1) = Mark("S") BY DEF EventOf
  <2>. QED BY <2>1, <2>2 DEF Place
<1>6. CASE j = 3
  <2>1. At(c, j, Send(c.addr), 1, 0) BY <1>2, <1>6, ReadCalls DEF At
  <2>2. EventOf(c, 1 + 1) = Clocked(c.addr) BY DEF EventOf
  <2>. QED BY <1>3, <2>1, <2>2 DEF Place
<1>7. CASE j = 4
  <2>1. At(c, j, Send(c.reg), 2, 0) BY <1>2, <1>7, ReadCalls DEF At
  <2>2. EventOf(c, 2 + 1) = Clocked(c.reg) BY DEF EventOf
  <2>. QED BY <1>3, <2>1, <2>2 DEF Place
<1>8. CASE j = 5
  <2>1. At(c, j, Do("start"), 3, 0) BY <1>2, <1>8, ReadCalls DEF At
  <2>2. EventOf(c, 3 + 1) = Mark("S") BY <1>1 DEF EventOf
  <2>. QED BY <2>1, <2>2 DEF Place
<1>9. CASE j = 6
  <2>1. At(c, j, Send(c.addr + 1), 4, 0) BY <1>2, <1>9, ReadCalls DEF At
  <2>2. EventOf(c, 4 + 1) = Clocked(c.addr + 1) BY <1>1 DEF EventOf
  <2>. QED BY <1>3, <2>1, <2>2 DEF Place
<1>10. CASE j \in 7 .. 2 * c.len + 6
  <2>1. PICK i \in 1 .. c.len :
           \/ /\ j = 2 * i + 5 /\ j % 2 = 1 /\ (j - 7) \div 2 = i - 1 /\ (j - 6) \div 2 = i - 1
           \/ /\ j = 2 * i + 6 /\ j % 2 # 1 /\ (j - 7) \div 2 = i - 1 /\ (j - 6) \div 2 = i
    BY <1>1, <1>10, Halves
  <2>2. CASE j = 2 * i + 5 /\ j % 2 = 1 /\ (j - 7) \div 2 = i - 1 /\ (j - 6) \div 2 = i - 1
    <3>1. Calls(c)[j] = Do("recv_byte") BY <1>10, <2>2, ReadCalls
    <3>2. i - 1 \in Nat /\ EventsBefore(c, j) = (i - 1) + 5 /\ StoredBefore(c, j) = i - 1
      BY <1>1, <1>2, <2>2
    <3>3. At(c, j, Do("recv_byte"), (i - 1) + 5, i - 1) BY <3>1, <3>2 DEF At
    <3>. QED BY <3>2, <3>3 DEF Place
  <2>3. CASE j = 2 * i + 6 /\ j % 2 # 1 /\ (j - 7) \div 2 = i - 1 /\ (j - 6) \div 2 = i
    <3> DEFINE a == IF i < c.len THEN 0 ELSE 1
    <3>1. a = IF j = 2 * c.len + 6 THEN 1 ELSE 0 BY <1>1, <2>3
    <3>2. Calls(c)[j] = Ack(a) BY <1>10, <2>3, <3>1, ReadCalls
    <3>3. i \in Nat \ {0} /\ EventsBefore(c, j) = i + 4 /\ StoredBefore(c, j) = i
      BY <1>1, <1>2, <2>3
    <3>4. At(c, j, Ack(a), i + 4, i) BY <3>2, <3>3 DEF At
    <3>5. /\ i + 5 # 1 /\ i + 5 # 2 /\ i + 5 # 3 /\ i + 5 # 4 /\ i + 5 # 5 /\ i + 5 > 5
          /\ i + 5 <= c.len + 5 /\ (i + 5) - 5 = i /\ c.len # 0
      BY <1>1
    <3>6. EventOf(c, i + 5) = Got(i, c.len) BY <1>1, <3>5 DEF EventOf
    <3>7. a \in {0, 1} OBVIOUS
    <3>. QED BY <3>3, <3>4, <3>6, <3>7 DEF Place
  <2>. QED BY <2>1, <2>2, <2>3
<1>11. CASE j = 2 * c.len + 7
  <2>1. Calls(c)[j] = Do("stop") BY <1>11, ReadCalls
  <2>2. (j - 7) \div 2 = c.len /\ (j - 6) \div 2 = c.len /\ j > 7
    <3>1. PICK n \in Nat \ {0} : c.len = n BY <1>1
    <3>2. j = 2 * n + 7 BY <1>11, <3>1
    <3>3. (j - 7) \div 2 = n /\ (j - 6) \div 2 = n /\ j > 7 BY <3>2
    <3>. QED BY <3>1, <3>3
  <2>3. c.len + 5 \in Nat /\ EventsBefore(c, j) = c.len + 5 /\ StoredBefore(c, j) = c.len
    BY <1>1, <1>2, <2>2
  <2>4. At(c, j, Do("stop"), c.len + 5, c.len) BY <2>1, <2>3 DEF At
  <2>5. /\ (c.len + 5) + 1 > 5 /\ ~((c.len + 5) + 1 <= c.len + 5) /\ c.len # 0
        /\ (c.len + 5) + 1 # 1 /\ (c.len + 5) + 1 # 2 /\ (c.len + 5) + 1 # 3
        /\ (c.len + 5) + 1 # 4 /\ (c.len + 5) + 1 # 5 /\ (c.len + 5) + 1 = c.len + 6
    BY <1>1
  <2>6. EventOf(c, (c.len + 5) + 1) = Mark("P") BY <1>1, <2>5 DEF EventOf
  <2>. QED BY <1>1, <1>11, <2>3, <2>4, <2>5, <2>6 DEF Place
<1>. QED BY <1>1, <1>4, <1>5, <1>6, <1>7, <1>8, <1>9, <1>10, <1>11

\* and so of every standard call.
LEMMA Places ==
  ASSUME NEW c, IsCall(c), c.fn # "lcd_read_data", NEW j \in 1 .. Len(Calls(c))
  PROVE  Place(c, j)
<1>1. c.len = 0 \/ c.fn \in {"read_byte", "read_data"} BY CallFacts
<1>. QED BY <1>1, WritePlace, ReadPlace

\* Every call has two functions or more.
LEMMA LenCalls ==
  ASSUME NEW c, IsCall(c)
  PROVE  Len(Calls(c)) \in Nat /\ Len(Calls(c)) > 1
<1>1. CASE c.len = 0
  <2>1. Len(c.bytes) \in Nat /\ Len(Calls(c)) = Len(c.bytes) + 5 BY <1>1, WriteCalls
  <2>. QED BY <2>1
<1>2. CASE c.fn \in {"read_byte", "read_data"}
  <2>1. c.len \in Nat /\ Len(Calls(c)) = 2 * c.len + 7 BY <1>2, ReadCalls
  <2>. QED BY <2>1
<1>3. CASE c.fn = "lcd_read_data"
  <2>1. c.len \in Nat /\ Len(Calls(c)) = 2 * c.len + 5 BY <1>3, LcdCalls
  <2>. QED BY <2>1
<1>. QED BY <1>1, <1>2, <1>3, CallFacts

\* A function and the one after it; what the first adds to the events and to
\* the bytes stored.
Follows(c, j, f, g, n, s) ==
  /\ Calls(c)[j] = f /\ Calls(c)[j + 1] = g
  /\ EventsBefore(c, j + 1) = EventsBefore(c, j) + n
  /\ StoredBefore(c, j + 1) = StoredBefore(c, j) + s

ToReader(c, j, b) == RoleOf(c, j) = {"addr"} /\ b % 2 = 1

Pair(c, j) ==
  \/ Follows(c, j, Do("i2c_choice"), Do("start"), 0, 0)
  \/ \E b \in Byte : Follows(c, j, Do("start"), Send(b), 1, 0) /\ RoleOf(c, j + 1) = {"addr"}
  \/ \E b, b2 \in Byte : /\ Follows(c, j, Send(b), Send(b2), 1, 0) /\ ~ToReader(c, j, b)
                         /\ RoleOf(c, j + 1) = {"none", "rx"}
  \/ \E b \in Byte : Follows(c, j, Send(b), Do("stop"), 1, 0) /\ ~ToReader(c, j, b)
  \/ \E b \in Byte : Follows(c, j, Send(b), Do("start"), 1, 0) /\ ~ToReader(c, j, b)
  \/ \E b \in Byte : Follows(c, j, Send(b), Do("recv_byte"), 1, 0) /\ ToReader(c, j, b)
  \/ \E a \in {0, 1} : Follows(c, j, Do("recv_byte"), Ack(a), 0, 1)
  \/ Follows(c, j, Ack(0), Do("recv_byte"), 1, 0)
  \/ Follows(c, j, Ack(1), Do("stop"), 1, 0)

\* The functions of a write follow each other as Pair says.
LEMMA WritePairs ==
  ASSUME NEW c, IsCall(c), c.len = 0, NEW j \in Nat \ {0}, j < Len(Calls(c))
  PROVE  Pair(c, j)
<1> DEFINE m == Len(c.bytes)
<1>1. m \in Nat /\ Len(Calls(c)) = m + 5 BY WriteCalls
<1>2. /\ \A i \in Nat : StoredBefore(c, i) = 0 /\ EventsBefore(c, i) = IF i > 2 THEN i - 2 ELSE 0
      /\ \A i \in Nat : RoleOf(c, i) = IF i = 3 THEN {"addr"} ELSE {"none", "rx"}
  BY DEF StoredBefore, EventsBefore, RoleOf
<1>3. c.addr \in Byte /\ c.addr % 2 = 0 /\ c.reg \in Byte BY CallFacts
<1>4. CASE j = 1
  <2>1. Follows(c, j, Do("i2c_choice"), Do("start"), 0, 0) BY <1>2, <1>4, WriteCalls DEF Follows
  <2>. QED BY <2>1 DEF Pair
<1>5. CASE j = 2
  <2>1. Follows(c, j, Do("start"), Send(c.addr), 1, 0) /\ RoleOf(c, j + 1) = {"addr"}
    BY <1>2, <1>5, WriteCalls DEF Follows
  <2>. QED BY <1>3, <2>1 DEF Pair
<1>6. CASE j = 3
  <2>1. /\ Follows(c, j, Send(c.addr), Send(c.reg), 1, 0) /\ RoleOf(c, j + 1) = {"none", "rx"}
        /\ ~ToReader(c, j, c.addr)
    BY <1>2, <1>3, <1>6, WriteCalls DEF Follows, ToReader
  <2>. QED BY <1>3, <2>1 DEF Pair
<1>7. CASE j > 3
  <2>1. PICK b \in Byte : Calls(c)[j] = Send(b)
    <3>1. CASE j = 4 BY <1>3, <3>1, WriteCalls
    <3>2. CASE j # 4
      <4>1. j \in 5 .. m + 4 BY <1>1, <1>7, <3>2
      <4>. QED BY <4>1, WriteCalls
    <3>. QED BY <3>1, <3>2
  <2>2. j + 1 \in Nat /\ j \in Nat /\ (j + 1) - 2 = (j - 2) + 1 /\ j > 2 /\ j + 1 > 2
        /\ j # 3 /\ j + 1 # 3
    BY <1>7
  <2>3. /\ EventsBefore(c, j + 1) = EventsBefore(c, j) + 1
        /\ StoredBefore(c, j + 1) = StoredBefore(c, j) + 0
        /\ RoleOf(c, j) = {"none", "rx"} /\ RoleOf(c, j + 1) = {"none", "rx"}
    BY <1>2, <2>2
  <2>4. ~ToReader(c, j, b) BY <2>3 DEF ToReader
  <2>5. CASE j = m + 4
    <3>1. Calls(c)[j + 1] = Do("stop")
      <4>1. j + 1 = m + 5 BY <1>1, <2>5
      <4>. QED BY <4>1, WriteCalls
    <3>2. Follows(c, j, Send(b), Do("stop"), 1, 0) BY <2>1, <2>3, <3>1 DEF Follows
    <3>. QED BY <2>4, <3>2 DEF Pair
  <2>6. CASE j # m + 4
    <3>1. j + 1 \in 5 .. m + 4 BY <1>1, <1>7, <2>6
    <3>2. PICK b2 \in Byte : Calls(c)[j + 1] = Send(b2) BY <3>1, WriteCalls
    <3>3. Follows(c, j, Send(b), Send(b2), 1, 0) BY <2>1, <2>3, <3>2 DEF Follows
    <3>. QED BY <2>3, <2>4, <3>3 DEF Pair
  <2>. QED BY <2>5, <2>6
<1>. QED BY <1>1, <1>4, <1>5, <1>6, <1>7

\* So do those of a read,
LEMMA ReadPairs ==
  ASSUME NEW c, IsCall(c), c.fn \in {"read_byte", "read_data"},
         NEW j \in Nat \ {0}, j < Len(Calls(c))
  PROVE  Pair(c, j)
<1>1. c.len \in Nat \ {0} /\ c.len > 0 /\ Len(Calls(c)) = 2 * c.len + 7 BY ReadCalls
<1>2. /\ \A i \in Nat : StoredBefore(c, i) = IF i > 7 THEN (i - 6) \div 2 ELSE 0
      /\ \A i \in Nat : EventsBefore(c, i) = IF i > 6 THEN 5 + (i - 7) \div 2
                                             ELSE IF i > 2 THEN i - 2 ELSE 0
      /\ \A i \in Nat : RoleOf(c, i) = IF i = 3 \/ i = 6 THEN {"addr"} ELSE {"none", "rx"}
  BY <1>1 DEF StoredBefore, EventsBefore, RoleOf
<1>3. /\ c.addr \in Byte /\ c.addr % 2 = 0 /\ c.reg \in Byte
      /\ c.addr + 1 \in Byte /\ (c.addr + 1) % 2 = 1
  BY CallFacts
<1>4. CASE j = 1
  <2>1. Follows(c, j, Do("i2c_choice"), Do("start"), 0, 0) BY <1>2, <1>4, ReadCalls DEF Follows
  <2>. QED BY <2>1 DEF Pair
<1>5. CASE j = 2
  <2>1. Follows(c, j, Do("start"), Send(c.addr), 1, 0) /\ RoleOf(c, j + 1) = {"addr"}
    BY <1>2, <1>5, ReadCalls DEF Follows
  <2>. QED BY <1>3, <2>1 DEF Pair
<1>6. CASE j = 3
  <2>1. /\ Follows(c, j, Send(c.addr), Send(c.reg), 1, 0) /\ RoleOf(c, j + 1) = {"none", "rx"}
        /\ ~ToReader(c, j, c.addr)
    BY <1>2, <1>3, <1>6, ReadCalls DEF Follows, ToReader
  <2>. QED BY <1>3, <2>1 DEF Pair
<1>7. CASE j = 4
  <2>1. Follows(c, j, Send(c.reg), Do("start"), 1, 0)
    <3>1. Calls(c)[4] = Send(c.reg) /\ Calls(c)[5] = Do("start") BY ReadCalls
    <3>. QED BY <1>2, <1>7, <3>1 DEF Follows
  <2>2. RoleOf(c, j) # {"addr"}
    <3>1. j \in Nat /\ j # 3 /\ j # 6 BY <1>7
    <3>2. RoleOf(c, j) = {"none", "rx"} BY <1>2, <3>1
    <3>. QED BY <3>2
  <2>. QED BY <1>3, <2>1, <2>2 DEF Pair, ToReader
<1>8. CASE j = 5
  <2>1. Follows(c, j, Do("start"), Send(c.addr + 1), 1, 0) /\ RoleOf(c, j + 1) = {"addr"}
    BY <1>2, <1>8, ReadCalls DEF Follows
  <2>. QED BY <1>3, <2>1 DEF Pair
<1>9. CASE j = 6
  <2>1. Calls(c)[6] = Send(c.addr + 1) /\ Calls(c)[7] = Do("recv_byte")
    <3>1. 7 \in 7 .. 2 * c.len + 6 /\ 7 % 2 = 1 BY <1>1
    <3>. QED BY <3>1, ReadCalls
  <2>2. Follows(c, j, Send(c.addr + 1), Do("recv_byte"), 1, 0) /\ ToReader(c, j, c.addr + 1)
    BY <1>2, <1>3, <1>9, <2>1 DEF Follows, ToReader
  <2>. QED BY <1>3, <2>2 DEF Pair
<1>10. CASE j > 6
  <2>1. PICK i \in 1 .. c.len :
           \/ /\ j = 2 * i + 5 /\ j % 2 = 1
              /\ (j - 7) \div 2 = i - 1 /\ ((j + 1) - 7) \div 2 = i - 1
              /\ (j - 6) \div 2 = i - 1 /\ ((j + 1) - 6) \div 2 = i
           \/ /\ j = 2 * i + 6 /\ j % 2 # 1
              /\ (j - 7) \div 2 = i - 1 /\ ((j + 1) - 7) \div 2 = i
              /\ (j - 6) \div 2 = i /\ ((j + 1) - 6) \div 2 = i
    <3>1. j \in 7 .. 2 * c.len + 6 BY <1>1, <1>10
    <3>. QED BY <1>1, <3>1, Halves
  <2>2. j \in 7 .. 2 * c.len + 6 /\ j + 1 \in Nat /\ j + 1 > 7 /\ j + 1 > 6 BY <1>1, <1>10
  <2>3. CASE /\ j = 2 * i + 5 /\ j % 2 = 1
             /\ (j - 7) \div 2 = i - 1 /\ ((j + 1) - 7) \div 2 = i - 1
             /\ (j - 6) \div 2 = i - 1 /\ ((j + 1) - 6) \div 2 = i
    <3>1. Calls(c)[j] = Do("recv_byte") BY <2>2, <2>3, ReadCalls
    <3>2. j + 1 \in 7 .. 2 * c.len + 6 /\ (j + 1) % 2 # 1 BY <1>1, <2>3
    <3>3. PICK a \in {0, 1} : Calls(c)[j + 1] = Ack(a) BY <3>2, ReadCalls
    <3>4. EventsBefore(c, j + 1) = 5 + (i - 1) /\ StoredBefore(c, j + 1) = i
      BY <1>2, <2>2, <2>3
    <3>5. EventsBefore(c, j) = 5 + (i - 1) BY <1>2, <1>10, <2>3
    <3>6. StoredBefore(c, j) = i - 1 BY <1>2, <1>10, <2>3
    <3>7. Follows(c, j, Do("recv_byte"), Ack(a), 0, 1)
      BY <1>1, <3>1, <3>3, <3>4, <3>5, <3>6 DEF Follows
    <3>. QED BY <3>7 DEF Pair
  <2>4. CASE /\ j = 2 * i + 6 /\ j % 2 # 1
             /\ (j - 7) \div 2 = i - 1 /\ ((j + 1) - 7) \div 2 = i
             /\ (j - 6) \div 2 = i /\ ((j + 1) - 6) \div 2 = i
    <3>1. EventsBefore(c, j + 1) = 5 + i /\ StoredBefore(c, j + 1) = i
      BY <1>2, <2>2, <2>4
    <3>2. j > 7 BY <2>4
    <3>3. EventsBefore(c, j) = 5 + (i - 1) /\ StoredBefore(c, j) = i BY <1>2, <1>10, <2>4, <3>2
    <3>4. /\ EventsBefore(c, j + 1) = EventsBefore(c, j) + 1
          /\ StoredBefore(c, j + 1) = StoredBefore(c, j) + 0
      BY <1>1, <3>1, <3>3
    <3>5. CASE i = c.len
      <4>1. j = 2 * c.len + 6 /\ j + 1 = 2 * c.len + 7 BY <1>1, <2>4, <3>5
      <4>2. Calls(c)[j] = Ack(1) BY <2>2, <2>4, <4>1, ReadCalls
      <4>3. Calls(c)[j + 1] = Do("stop") BY <4>1, ReadCalls
      <4>4. Follows(c, j, Ack(1), Do("stop"), 1, 0) BY <3>4, <4>2, <4>3 DEF Follows
      <4>. QED BY <4>4 DEF Pair
    <3>6. CASE i # c.len
      <4>1. j # 2 * c.len + 6 /\ j + 1 \in 7 .. 2 * c.len + 6 /\ (j + 1) % 2 = 1
        BY <1>1, <2>4, <3>6
      <4>2. Calls(c)[j] = Ack(0) BY <2>2, <2>4, <4>1, ReadCalls
      <4>3. Calls(c)[j + 1] = Do("recv_byte") BY <4>1, ReadCalls
      <4>4. Follows(c, j, Ack(0), Do("recv_byte"), 1, 0) BY <3>4, <4>2, <4>3 DEF Follows
      <4>. QED BY <4>4 DEF Pair
    <3>. QED BY <3>5, <3>6
  <2>. QED BY <2>1, <2>3, <2>4
<1>. QED BY <1>1, <1>4, <1>5, <1>6, <1>7, <1>8, <1>9, <1>10

\* and so those of every standard call.
LEMMA Pairs ==
  ASSUME NEW c, IsCall(c), c.fn # "lcd_read_data", NEW j \in Nat \ {0}, j < Len(Calls(c))
  PROVE  Pair(c, j)
<1>1. c.len = 0 \/ c.fn \in {"read_byte", "read_data"} BY CallFacts
<1>. QED BY <1>1, WritePairs, ReadPairs

-----------------------------------------------------------------------------
(* From one function to the next *)

\* What StandardAt says of each function.
LEMMA Reads ==
  ASSUME NEW j, NEW k
  PROVE  LET ev(m) == Logged(EventsBefore(call, j) + IF k > m THEN 1 ELSE 0)
             st    == Len(pdata) = StoredBefore(call, j) + 0 IN
         /\ StandardAt(Do("i2c_choice"), j, k) <=> ChoiceAt(k) /\ ev(30) /\ st
         /\ StandardAt(Do("start"), j, k) <=> StartAt(k) /\ ev(3) /\ st
         /\ StandardAt(Do("recv_byte"), j, k) <=>
              RecvAt(k) /\ ev(30) /\ Len(pdata) = StoredBefore(call, j) + IF k = 30 THEN 1 ELSE 0
         /\ StandardAt(Do("stop"), j, k) <=> StopAt(k) /\ ev(4) /\ st
  BY DEF StandardAt, EventAt, Do

LEMMA ReadsSend ==
  ASSUME NEW j, NEW k, NEW b
  PROVE  StandardAt(Send(b), j, k) <=>
           /\ SendAt(b, RoleOf(call, j), k)
           /\ Logged(EventsBefore(call, j) + IF k > 27 THEN 1 ELSE 0)
           /\ Len(pdata) = StoredBefore(call, j) + 0
  BY DEF StandardAt, EventAt, Send

LEMMA ReadsAck ==
  ASSUME NEW j, NEW k, NEW a
  PROVE  StandardAt(Ack(a), j, k) <=>
           /\ AckAt(a, k)
           /\ Logged(EventsBefore(call, j) + IF k > 2 THEN 1 ELSE 0)
           /\ Len(pdata) = StoredBefore(call, j) + 0
  BY DEF StandardAt, EventAt, Ack

\* The end of a function is the beginning of the one that follows it.
LEMMA Arrivals ==
  ASSUME I2cTypeOK
  PROVE  /\ ChoiceAt(3) => StartAt(1)
         /\ \A b \in Byte : StartAt(5) => SendAt(b, {"addr"}, 1)
         /\ RecvAt(30) => \A a \in {0, 1} : AckAt(a, 1)
         /\ AckAt(0, 3) => RecvAt(1)
         /\ AckAt(1, 3) => StopAt(1)
<1>1. ASSUME ChoiceAt(3) PROVE StartAt(1)
  BY <1>1 DEF ChoiceAt, StartAt, Closed
<1>2. ASSUME NEW b \in Byte, StartAt(5) PROVE SendAt(b, {"addr"}, 1)
  <2>1. (1 - 1) \div 3 = 0 /\ 1 % 3 = 1 /\ Top(b, 0) = 0 BY TopFacts
  <2>2. /\ "SCL" \in pins.out /\ "SDA" \in pins.out /\ Fresh /\ slave.sda = 1
        /\ slave.role = "addr" /\ Counts(0, 0) /\ pins.scl = 0
    BY <1>2 DEF StartAt, Out
  <2>. QED BY <2>1, <2>2 DEF SendAt
<1>3. ASSUME NEW a \in {0, 1}, RecvAt(30) PROVE AckAt(a, 1)
  BY <1>3 DEF RecvAt, AckAt
<1>4. ASSUME AckAt(0, 3) PROVE RecvAt(1)
  BY <1>4 DEF RecvAt, AckAt
<1>5. ASSUME AckAt(1, 3) PROVE StopAt(1)
  <2>1. /\ slave.role \in {"none", "tx"} /\ Stored /\ Ahead(0) /\ Out /\ data = 0 /\ slave.sda = 1
        /\ pins.scl = 1 /\ pins.sda = 1 /\ seen.open /\ seen.n = 9
    BY <1>5 DEF AckAt
  <2>2. Len(pdata) \in Nat BY TypeParts, LenProperties
  <2>3. slave.sent = <<>> \/ Len(slave.sent) = Len(pdata) BY <2>1, <2>2 DEF Ahead
  <2>. QED BY <2>1, <2>3 DEF StopAt
<1>. QED BY <1>1, <1>2, <1>3, <1>4, <1>5

\* After a byte that starts no read, and after the one that does.
LEMMA AfterSend ==
  ASSUME I2cTypeOK, NEW b \in Byte, NEW role, SendAt(b, role, 30)
  PROVE  /\ ~(role = {"addr"} /\ b % 2 = 1) =>
              /\ \A b2 \in Byte : SendAt(b2, {"none", "rx"}, 1)
              /\ StopAt(1) /\ StartAt(1)
         /\ role = {"addr"} /\ b % 2 = 1 => RecvAt(1)
<1>1. /\ Out /\ pins.scl = 0 /\ Counts(0, 0) /\ data = 0 /\ pdata = <<>>
      /\ slave.role \in {"none"} \cup {IF role = {"addr"} /\ b % 2 = 1 THEN "tx" ELSE "rx"}
      /\ slave.sda = SdaAfter(0)
      /\ Ahead(1)
  BY DEF SendAt, Out
<1>2. ASSUME ~(role = {"addr"} /\ b % 2 = 1)
      PROVE  /\ \A b2 \in Byte : SendAt(b2, {"none", "rx"}, 1)
             /\ StopAt(1) /\ StartAt(1)
  <2>1. slave.role \in {"none", "rx"} BY <1>1, <1>2
  <2>2. slave.sent = <<>> BY <1>1, <2>1 DEF Ahead
  <2>3. slave.sda = 1
    <3>1. SdaAfter(0) = BitOf(255, 0 + 1) BY <2>1 DEF SdaAfter, Cur
    <3>. QED BY <1>1, <3>1, OnesFacts
  <2>4. Fresh BY <1>1, <2>2 DEF Fresh
  <2>5. Stored BY <1>1 DEF Stored
  <2>6. StopAt(1) BY <1>1, <2>1, <2>2, <2>3, <2>5 DEF StopAt
  <2>7. StartAt(1) BY <1>1, <2>1, <2>3, <2>4 DEF StartAt, Counts
  <2>8. ASSUME NEW b2 \in Byte PROVE SendAt(b2, {"none", "rx"}, 1)
    <3>1. (1 - 1) \div 3 = 0 /\ 1 % 3 = 1 /\ Top(b2, 0) = 0 BY TopFacts
    <3>. QED BY <1>1, <2>1, <2>3, <2>4, <3>1 DEF SendAt, Out
  <2>. QED BY <2>6, <2>7, <2>8
<1>3. ASSUME role = {"addr"}, b % 2 = 1 PROVE RecvAt(1)
  <2>1. Stored BY <1>1 DEF Stored
  <2>. QED BY <1>1, <1>3, <2>1 DEF RecvAt
<1>. QED BY <1>2, <1>3

\* From the end of a function to the beginning of the next one.
LEMMA HandOver ==
  ASSUME NEW j \in Nat \ {0}
  PROVE  /\ I2cTypeOK /\ IsCall(call) /\ Standard /\ j < Len(Calls(call))
         /\ StandardAt(Calls(call)[j], j, Len(Body(Calls(call)[j])) + 1)
         => StandardAt(Calls(call)[j + 1], j + 1, 1)
<1> SUFFICES ASSUME I2cTypeOK, IsCall(call), Standard, j < Len(Calls(call)),
                    StandardAt(Calls(call)[j], j, Len(Body(Calls(call)[j])) + 1)
             PROVE  StandardAt(Calls(call)[j + 1], j + 1, 1)
  OBVIOUS
<1> DEFINE f == Calls(call)[j]
           g == Calls(call)[j + 1]
           e == EventsBefore(call, j)
           s == StoredBefore(call, j)
           l == Len(Body(f))
<1>1. e \in Nat /\ s \in Nat
  <2>1. j \in 1 .. Len(Calls(call)) BY LenCalls
  <2>2. Place(call, j) BY <2>1, Places DEF Standard
  <2>. QED BY <2>2, CallFacts DEF Place, At
<1>2. Pair(call, j) BY Pairs DEF Standard
<1>a. StandardAt(f, j, l + 1) OBVIOUS
<1>3. ASSUME NEW n \in {0, 1}, NEW t \in {0, 1}, Follows(call, j, f, g, n, t)
      PROVE  /\ EventsBefore(call, j + 1) + 0 = e + n
             /\ StoredBefore(call, j + 1) + 0 = s + t
  BY <1>1, <1>3 DEF Follows
<1>b. \A x, y, n, t : Follows(call, j, x, y, n, t) => f = x /\ g = y BY DEF Follows
<1> HIDE DEF f, g, e, s, l
<1>4. ASSUME Follows(call, j, Do("i2c_choice"), Do("start"), 0, 0) PROVE StandardAt(g, j + 1, 1)
  <2>1. f = Do("i2c_choice") /\ g = Do("start") BY <1>4, <1>b
  <2>2. StandardAt(Do("i2c_choice"), j, 3)
    <3>0. l = Len(Body(Do("i2c_choice"))) BY <2>1 DEF l
    <3>1. l = 2 BY <3>0, Lengths
    <3>. QED BY <1>a, <2>1, <3>1
  <2>3. ChoiceAt(3) /\ Logged(e + 0) /\ Len(pdata) = s + 0 BY <2>2, Reads DEF e, s
  <2>4. StartAt(1) BY <2>3, Arrivals
  <2>5. StandardAt(Do("start"), j + 1, 1) BY <1>3, <1>4, <2>1, <2>3, <2>4, Reads
  <2>. QED BY <2>1, <2>5
<1>5. ASSUME NEW b \in Byte, Follows(call, j, Do("start"), Send(b), 1, 0), RoleOf(call, j + 1) = {"addr"}
      PROVE  StandardAt(g, j + 1, 1)
  <2>1. f = Do("start") /\ g = Send(b) BY <1>5, <1>b
  <2>2. StandardAt(Do("start"), j, 5)
    <3>0. l = Len(Body(Do("start"))) BY <2>1 DEF l
    <3>1. l = 4 BY <3>0, Lengths
    <3>. QED BY <1>a, <2>1, <3>1
  <2>3. StartAt(5) /\ Logged(e + 1) /\ Len(pdata) = s + 0 BY <2>2, Reads DEF e, s
  <2>4. SendAt(b, RoleOf(call, j + 1), 1) BY <1>5, <2>3, Arrivals
  <2>5. StandardAt(Send(b), j + 1, 1) BY <1>3, <1>5, <2>1, <2>3, <2>4, ReadsSend
  <2>. QED BY <2>1, <2>5
<1>6. ASSUME NEW b \in Byte, Follows(call, j, Send(b), g, 1, 0)
      PROVE  SendAt(b, RoleOf(call, j), 30) /\ Logged(e + 1) /\ Len(pdata) = s + 0
  <2>1. f = Send(b) BY <1>6, <1>b
  <2>2. StandardAt(Send(b), j, 30)
    <3>0. l = Len(Body(Send(b))) BY <2>1 DEF l
    <3>1. l = 29 BY <3>0, Lengths
    <3>. QED BY <1>a, <2>1, <3>1
  <2>. QED BY <2>2, ReadsSend DEF e, s
<1>7. ASSUME NEW b \in Byte, NEW b2 \in Byte, Follows(call, j, Send(b), Send(b2), 1, 0),
             ~ToReader(call, j, b), RoleOf(call, j + 1) = {"none", "rx"}
      PROVE  StandardAt(g, j + 1, 1)
  <2>1. f = Send(b) /\ g = Send(b2) BY <1>7, <1>b
  <2>2. SendAt(b, RoleOf(call, j), 30) /\ Logged(e + 1) /\ Len(pdata) = s + 0
    BY <1>6, <1>7, <2>1
  <2>3. SendAt(b2, RoleOf(call, j + 1), 1) BY <1>7, <2>2, AfterSend DEF ToReader
  <2>4. StandardAt(Send(b2), j + 1, 1) BY <1>3, <1>7, <2>1, <2>2, <2>3, ReadsSend
  <2>. QED BY <2>1, <2>4
<1>8. ASSUME NEW b \in Byte, Follows(call, j, Send(b), Do("stop"), 1, 0), ~ToReader(call, j, b)
      PROVE  StandardAt(g, j + 1, 1)
  <2>1. f = Send(b) /\ g = Do("stop") BY <1>8, <1>b
  <2>2. SendAt(b, RoleOf(call, j), 30) /\ Logged(e + 1) /\ Len(pdata) = s + 0
    BY <1>6, <1>8, <2>1
  <2>3. StopAt(1) BY <1>8, <2>2, AfterSend DEF ToReader
  <2>4. StandardAt(Do("stop"), j + 1, 1) BY <1>3, <1>8, <2>1, <2>2, <2>3, Reads
  <2>. QED BY <2>1, <2>4
<1>9. ASSUME NEW b \in Byte, Follows(call, j, Send(b), Do("start"), 1, 0), ~ToReader(call, j, b)
      PROVE  StandardAt(g, j + 1, 1)
  <2>1. f = Send(b) /\ g = Do("start") BY <1>9, <1>b
  <2>2. SendAt(b, RoleOf(call, j), 30) /\ Logged(e + 1) /\ Len(pdata) = s + 0
    BY <1>6, <1>9, <2>1
  <2>3. StartAt(1) BY <1>9, <2>2, AfterSend DEF ToReader
  <2>4. StandardAt(Do("start"), j + 1, 1) BY <1>3, <1>9, <2>1, <2>2, <2>3, Reads
  <2>. QED BY <2>1, <2>4
<1>10. ASSUME NEW b \in Byte, Follows(call, j, Send(b), Do("recv_byte"), 1, 0), ToReader(call, j, b)
       PROVE  StandardAt(g, j + 1, 1)
  <2>1. f = Send(b) /\ g = Do("recv_byte") BY <1>10, <1>b
  <2>2. SendAt(b, RoleOf(call, j), 30) /\ Logged(e + 1) /\ Len(pdata) = s + 0
    BY <1>6, <1>10, <2>1
  <2>3. RecvAt(1) BY <1>10, <2>2, AfterSend DEF ToReader
  <2>4. StandardAt(Do("recv_byte"), j + 1, 1) BY <1>3, <1>10, <2>1, <2>2, <2>3, Reads
  <2>. QED BY <2>1, <2>4
<1>11. ASSUME NEW a \in {0, 1}, Follows(call, j, Do("recv_byte"), Ack(a), 0, 1)
       PROVE  StandardAt(g, j + 1, 1)
  <2>1. f = Do("recv_byte") /\ g = Ack(a) BY <1>11, <1>b
  <2>2. StandardAt(Do("recv_byte"), j, 30)
    <3>0. l = Len(Body(Do("recv_byte"))) BY <2>1 DEF l
    <3>1. l = 29 BY <3>0, Lengths
    <3>. QED BY <1>a, <2>1, <3>1
  <2>3. RecvAt(30) /\ Logged(e + 0) /\ Len(pdata) = s + 1 BY <2>2, Reads DEF e, s
  <2>4. AckAt(a, 1) BY <2>3, Arrivals
  <2>5. StandardAt(Ack(a), j + 1, 1) BY <1>3, <1>11, <2>1, <2>3, <2>4, ReadsAck
  <2>. QED BY <2>1, <2>5
<1>12. ASSUME Follows(call, j, Ack(0), Do("recv_byte"), 1, 0) PROVE StandardAt(g, j + 1, 1)
  <2>1. f = Ack(0) /\ g = Do("recv_byte") BY <1>12, <1>b
  <2>2. StandardAt(Ack(0), j, 3)
    <3>0. l = Len(Body(Ack(0))) BY <2>1 DEF l
    <3>1. l = 2 BY <3>0, Lengths
    <3>. QED BY <1>a, <2>1, <3>1
  <2>3. AckAt(0, 3) /\ Logged(e + 1) /\ Len(pdata) = s + 0 BY <2>2, ReadsAck DEF e, s
  <2>4. RecvAt(1) BY <2>3, Arrivals
  <2>5. StandardAt(Do("recv_byte"), j + 1, 1) BY <1>3, <1>12, <2>1, <2>3, <2>4, Reads
  <2>. QED BY <2>1, <2>5
<1>13. ASSUME Follows(call, j, Ack(1), Do("stop"), 1, 0) PROVE StandardAt(g, j + 1, 1)
  <2>1. f = Ack(1) /\ g = Do("stop") BY <1>13, <1>b
  <2>2. StandardAt(Ack(1), j, 3)
    <3>0. l = Len(Body(Ack(1))) BY <2>1 DEF l
    <3>1. l = 2 BY <3>0, Lengths
    <3>. QED BY <1>a, <2>1, <3>1
  <2>3. AckAt(1, 3) /\ Logged(e + 1) /\ Len(pdata) = s + 0 BY <2>2, ReadsAck DEF e, s
  <2>4. StopAt(1) BY <2>3, Arrivals
  <2>5. StandardAt(Do("stop"), j + 1, 1) BY <1>3, <1>13, <2>1, <2>3, <2>4, Reads
  <2>. QED BY <2>1, <2>5
<1>14. StandardAt(g, j + 1, 1)
  BY <1>2, <1>4, <1>5, <1>7, <1>8, <1>9, <1>10, <1>11, <1>12, <1>13 DEF Pair
<1>. QED BY <1>14 DEF g

-----------------------------------------------------------------------------
(* A step within a function *)

\* Pin operation o is executed.
Does(o) ==
  \/ o \notin {"SDA_GET", "STORE"} /\ Drive(o) /\ UNCHANGED <<data, pdata>>
  \/ /\ o = "SDA_GET" /\ data' = (2 * data + Sda(pins, slave)) % 256
     /\ UNCHANGED <<pins, pdata, slave, seen, bus>>
  \/ /\ o = "STORE" /\ pdata' = Append(pdata, data) /\ data' = 0
     /\ UNCHANGED <<pins, slave, seen, bus>>

\* What the observer has seen stays true.
LEMMA LoggedStays ==
  ASSUME NEW n, Logged(n), UNCHANGED <<bus, call, pdata>>
  PROVE  Logged(n)'
<1>1. Len(bus') = n BY DEF Logged
<1>2. \A i : EventOf(call, i)' = EventOf(call, i) BY DEF EventOf, Got, Mark, Clocked
<1>3. ASSUME NEW i \in 1 .. n PROVE Shows(i, EventOf(call, i))'
  <2>1. Shows(i, EventOf(call, i)) BY DEF Logged
  <2>. QED BY <1>2, <2>1 DEF Shows
<1>. QED BY <1>1, <1>3 DEF Logged

\* A byte stored does not change what has been seen.
LEMMA LoggedStored ==
  ASSUME NEW n \in Nat, Logged(n), pdata \in Seq(Byte), data \in Byte, call.len \in Nat,
         n <= Len(pdata) + 5, pdata' = Append(pdata, data), UNCHANGED <<bus, call>>
  PROVE  Logged(n)'
<1>1. Len(bus') = n BY DEF Logged
<1>2. Len(pdata) \in Nat /\ \A i \in 1 .. Len(pdata) : pdata'[i] = pdata[i]
  BY AppendProperties, LenProperties
<1>3. ASSUME NEW i \in 1 .. n PROVE EventOf(call, i)' = EventOf(call, i)
  <2>1. i > 5 => i - 5 \in 1 .. Len(pdata) BY <1>2
  <2>2. i > 5 => Got(i - 5, call.len)' = Got(i - 5, call.len) BY <1>2, <2>1 DEF Got
  <2>. QED BY <2>2 DEF EventOf, Mark, Clocked
<1>4. ASSUME NEW i \in 1 .. n PROVE Shows(i, EventOf(call, i))'
  <2>1. Shows(i, EventOf(call, i)) BY DEF Logged
  <2>. QED BY <1>3, <2>1 DEF Shows
<1>. QED BY <1>1, <1>4 DEF Logged

\* An event more is seen.
LEMMA LoggedMore ==
  ASSUME NEW n \in Nat, Logged(n), bus \in Seq(Events), NEW e \in Events, bus' = Append(bus, e),
         UNCHANGED <<call, pdata>>,
         e.ev = EventOf(call, n + 1).ev, e.byte = EventOf(call, n + 1).byte,
         e.ack \in EventOf(call, n + 1).ack
  PROVE  Logged(n + 1)'
<1>1. Len(bus) = n BY DEF Logged
<1>2. Len(bus') = n + 1 /\ bus'[n + 1] = e /\ \A i \in 1 .. n : bus'[i] = bus[i]
  BY <1>1, AppendProperties
<1>3. \A i : EventOf(call, i)' = EventOf(call, i) BY DEF EventOf, Got, Mark, Clocked
<1>4. ASSUME NEW i \in 1 .. n PROVE Shows(i, EventOf(call, i))'
  <2>1. Shows(i, EventOf(call, i)) BY DEF Logged
  <2>. QED BY <1>2, <1>3, <2>1 DEF Shows
<1>5. Shows(n + 1, EventOf(call, n + 1))' BY <1>2, <1>3 DEF Shows
<1>6. \A i \in 1 .. n + 1 : Shows(i, EventOf(call, i))'
  <2> TAKE i \in 1 .. n + 1
  <2>1. i \in 1 .. n \/ i = n + 1 OBVIOUS
  <2>. QED BY <1>4, <1>5, <2>1
<1>. QED BY <1>2, <1>6 DEF Logged

\* StandardAt after the step, from its parts.
LEMMA Joins ==
  ASSUME NEW j, NEW k, NEW n, NEW s, EventsBefore(call, j)' = n, StoredBefore(call, j)' = s
  PROVE  LET ev(m) == Logged(n + IF k > m THEN 1 ELSE 0)'
             st    == (Len(pdata) = s + 0)' IN
         /\ ChoiceAt(k)' /\ ev(30) /\ st => StandardAt(Do("i2c_choice"), j, k)'
         /\ StartAt(k)' /\ ev(3) /\ st => StandardAt(Do("start"), j, k)'
         /\ RecvAt(k)' /\ ev(30) /\ Len(pdata') = s + (IF k = 30 THEN 1 ELSE 0)
              => StandardAt(Do("recv_byte"), j, k)'
         /\ StopAt(k)' /\ ev(4) /\ st => StandardAt(Do("stop"), j, k)'
  BY DEF StandardAt, EventAt, Do

LEMMA JoinsSend ==
  ASSUME NEW j, NEW k, NEW n, NEW s, EventsBefore(call, j)' = n, StoredBefore(call, j)' = s,
         NEW b, NEW role, RoleOf(call, j)' = role, SendAt(b, role, k)',
         Logged(n + IF k > 27 THEN 1 ELSE 0)', Len(pdata') = s + 0
  PROVE  StandardAt(Send(b), j, k)'
  BY DEF StandardAt, EventAt, Send

LEMMA JoinsAck ==
  ASSUME NEW j, NEW k, NEW n, NEW s, EventsBefore(call, j)' = n, StoredBefore(call, j)' = s,
         NEW a, AckAt(a, k)',
         Logged(n + IF k > 2 THEN 1 ELSE 0)', Len(pdata') = s + 0
  PROVE  StandardAt(Ack(a), j, k)'
  BY DEF StandardAt, EventAt, Ack

\* The byte that is acknowledged is the last one stored.
LEMMA LastStored ==
  ASSUME I2cTypeOK, NEW a, NEW k, AckAt(a, k), NEW s \in Nat \ {0}, Len(pdata) = s
  PROVE  pdata[s] = Cur
<1>1. slave.role \in {"none", "tx"} /\ Stored /\ Ahead(0) BY DEF AckAt
<1>2. s \in 1 .. Len(pdata) OBVIOUS
<1>3. pdata[s] = IF slave.sent = <<>> THEN 255 ELSE slave.sent[s] BY <1>1, <1>2 DEF Stored
<1>4. CASE slave.role = "none" BY <1>1, <1>3, <1>4 DEF Ahead, Cur
<1>5. CASE slave.role = "tx"
  <2>1. Len(slave.sent) = s /\ slave.sent[s] = slave.byte BY <1>1, <1>5 DEF Ahead
  <2>2. slave.sent # <<>> BY <2>1
  <2>. QED BY <1>3, <1>5, <2>1, <2>2 DEF Cur
<1>. QED BY <1>1, <1>4, <1>5

\* gpio_i2c_send_byte neither samples nor stores.
LEMMA SendPins ==
  ASSUME NEW b, NEW k \in 1 .. 29
  PROVE  gpio_i2c_send_byte(b)[k] \notin {"SDA_GET", "STORE"}
<1>1. CASE k \in 1 .. 24
  <2>1. k % 3 = 0 \/ k % 3 = 1 \/ k % 3 = 2 BY <1>1
  <2>. QED BY <1>1, <2>1, SendOps DEF SetSda
<1>2. CASE k \in 25 .. 29
  <2>1. k = 25 \/ k = 26 \/ k = 27 \/ k = 28 \/ k = 29 BY <1>2
  <2>. QED BY <2>1, SendOps
<1>. QED BY <1>1, <1>2

\* Every operation of a standard call leads to the condition of the next.
LEMMA StandardStep ==
  ASSUME I2cTypeOK, IsCall(call), Standard, NEW j \in 1 .. Len(Calls(call)),
         NEW f, f = Calls(call)[j], NEW k \in 1 .. Len(Body(f)),
         StandardAt(f, j, k), Does(Body(f)[k]), UNCHANGED call
  PROVE  StandardAt(f, j, k + 1)'
<1>1. Place(call, j) BY Places DEF Standard
<1>2. bus \in Seq(Events) /\ pdata \in Seq(Byte) /\ data \in Byte BY TypeParts
<1>3. ASSUME NEW g, NEW n, NEW s, At(call, j, g, n, s)
      PROVE  /\ f = g /\ EventsBefore(call, j) = n /\ StoredBefore(call, j) = s
             /\ EventsBefore(call, j)' = n /\ StoredBefore(call, j)' = s
  BY <1>3 DEF At
<1>4. CASE At(call, j, Do("i2c_choice"), 0, 0)
  <2>1. f = Do("i2c_choice") /\ EventsBefore(call, j) = 0 /\ StoredBefore(call, j) = 0
        /\ EventsBefore(call, j)' = 0 /\ StoredBefore(call, j)' = 0
    BY <1>3, <1>4
  <2>2. k \in 1 .. 2 /\ Does(i2c_choice[k]) BY <2>1, Lengths
  <2>3. ChoiceAt(k) /\ Logged(0 + 0) /\ Len(pdata) = 0 + 0
    <3>1. ~(k > 30) BY <2>2
    <3>. QED BY <2>1, <3>1, Reads
  <2>4. i2c_choice[k] \notin {"SDA_GET", "STORE"} BY <2>2 DEF i2c_choice
  <2>5. Drive(i2c_choice[k]) /\ UNCHANGED <<data, pdata>> BY <2>2, <2>4 DEF Does
  <2>6. ChoiceAt(k + 1)' /\ UNCHANGED bus BY <2>2, <2>3, <2>5, ChoiceStep
  <2>7. Logged(0 + 0)' BY <2>3, <2>5, <2>6, LoggedStays
  <2>8. ~(k + 1 > 30) BY <2>2
  <2>9. StandardAt(Do("i2c_choice"), j, k + 1)' BY <2>1, <2>3, <2>5, <2>6, <2>7, <2>8, Joins
  <2>. QED BY <2>1, <2>9
<1>5. ASSUME NEW n \in {0, 3}, At(call, j, Do("start"), n, 0), EventOf(call, n + 1) = Mark("S")
      PROVE  StandardAt(f, j, k + 1)'
  <2>1. f = Do("start") /\ EventsBefore(call, j) = n /\ StoredBefore(call, j) = 0
        /\ EventsBefore(call, j)' = n /\ StoredBefore(call, j)' = 0
    BY <1>3, <1>5
  <2>2. k \in 1 .. 4 /\ Does(gpio_i2c_start[k]) BY <2>1, Lengths
  <2>3. StartAt(k) /\ Logged(n + IF k > 3 THEN 1 ELSE 0) /\ Len(pdata) = 0 + 0
    BY <2>1, Reads
  <2>4. gpio_i2c_start[k] \notin {"SDA_GET", "STORE"} BY <2>2 DEF gpio_i2c_start
  <2>5. Drive(gpio_i2c_start[k]) /\ UNCHANGED <<data, pdata>> BY <2>2, <2>4 DEF Does
  <2>6. /\ StartAt(k + 1)'
        /\ k # 3 => UNCHANGED bus
        /\ k = 3 => bus' = Append(bus, [ev |-> "S", byte |-> 0, ack |-> 0])
    BY <2>2, <2>3, <2>5, StartStep
  <2>7. Logged(n + IF k + 1 > 3 THEN 1 ELSE 0)'
    <3>1. CASE k = 3
      <4>1. Logged(n + 0) /\ n + 0 = n BY <2>3, <3>1
      <4>2. [ev |-> "S", byte |-> 0, ack |-> 0] \in Events BY DEF Events, Byte
      <4>3. Logged(n + 1)' BY <1>2, <1>5, <2>5, <2>6, <3>1, <4>1, <4>2, LoggedMore DEF Mark
      <4>. QED BY <3>1, <4>3
    <3>2. CASE k < 3
      <4>1. Logged(n + 0) BY <2>3, <3>2
      <4>2. Logged(n + 0)' BY <2>5, <2>6, <3>2, <4>1, LoggedStays
      <4>3. ~(k + 1 > 3) BY <2>2, <3>2
      <4>. QED BY <4>2, <4>3
    <3>3. CASE k = 4
      <4>1. Logged(n + 1) BY <2>3, <3>3
      <4>2. Logged(n + 1)' BY <2>5, <2>6, <3>3, <4>1, LoggedStays
      <4>. QED BY <3>3, <4>2
    <3>. QED BY <2>2, <3>1, <3>2, <3>3
  <2>8. StandardAt(Do("start"), j, k + 1)' BY <2>1, <2>3, <2>5, <2>6, <2>7, Joins
  <2>. QED BY <2>1, <2>8
<1>6. ASSUME NEW n \in Nat, NEW b \in Byte, At(call, j, Send(b), n, 0),
             EventOf(call, n + 1) = Clocked(b)
      PROVE  StandardAt(f, j, k + 1)'
  <2>1. f = Send(b) /\ EventsBefore(call, j) = n /\ StoredBefore(call, j) = 0
        /\ EventsBefore(call, j)' = n /\ StoredBefore(call, j)' = 0
    BY <1>3, <1>6
  <2>2. k \in 1 .. 29 /\ Does(gpio_i2c_send_byte(b)[k])
    <3>1. Body(f) = gpio_i2c_send_byte(b) BY <2>1, Lengths
    <3>2. Len(gpio_i2c_send_byte(b)) = 29 BY SendOps
    <3>. QED BY <3>1, <3>2
  <2> DEFINE role == RoleOf(call, j)
  <2>3. SendAt(b, role, k) /\ Logged(n + IF k > 27 THEN 1 ELSE 0) /\ Len(pdata) = 0 + 0
    BY <2>1, ReadsSend
  <2>4. role \in {{"addr"}, {"none", "rx"}} /\ RoleOf(call, j)' = role BY DEF RoleOf
  <2>5. Drive(gpio_i2c_send_byte(b)[k]) /\ UNCHANGED <<data, pdata>>
    <3>1. gpio_i2c_send_byte(b)[k] \notin {"SDA_GET", "STORE"} BY <2>2, SendPins
    <3>. QED BY <2>2, <3>1 DEF Does
  <2> HIDE DEF role
  <2>6. /\ SendAt(b, role, k + 1)'
        /\ k # 27 => UNCHANGED bus
        /\ k = 27 => \E ack \in {0, 1} :
                        bus' = Append(bus, [ev |-> "byte", byte |-> b, ack |-> ack])
    <3>1. PICK r \in {{"addr"}, {"none", "rx"}} : role = r BY <2>4
    <3>2. SendAt(b, r, k) BY <2>3, <3>1
    <3>3. /\ SendAt(b, r, k + 1)'
          /\ k # 27 => UNCHANGED bus
          /\ k = 27 => \E ack \in {0, 1} :
                          bus' = Append(bus, [ev |-> "byte", byte |-> b, ack |-> ack])
      BY <2>2, <2>5, <3>2, SendStep
    <3>4. role' = r BY <2>4, <3>1 DEF role
    <3>. QED BY <3>3, <3>4
  <2>7. Logged(n + IF k + 1 > 27 THEN 1 ELSE 0)'
    <3>1. CASE k = 27
      <4>1. Logged(n + 0) /\ n + 0 = n BY <2>3, <3>1
      <4>2. PICK ack \in {0, 1} : bus' = Append(bus, [ev |-> "byte", byte |-> b, ack |-> ack])
        BY <2>6, <3>1
      <4>3. [ev |-> "byte", byte |-> b, ack |-> ack] \in Events BY DEF Events
      <4>4. EventOf(call, n + 1) = [ev |-> "byte", byte |-> b, ack |-> {0, 1}]
        BY <1>6 DEF Clocked
      <4>5. PICK e \in Events : e = [ev |-> "byte", byte |-> b, ack |-> ack] BY <4>3
      <4>6. /\ bus' = Append(bus, e) /\ e.ev = EventOf(call, n + 1).ev
            /\ e.byte = EventOf(call, n + 1).byte /\ e.ack \in EventOf(call, n + 1).ack
        BY <4>2, <4>4, <4>5
      <4>7. Logged(n + 1)' BY <1>2, <2>5, <4>1, <4>6, LoggedMore
      <4>. QED BY <3>1, <4>7
    <3>2. CASE k < 27
      <4>1. Logged(n + 0) BY <2>3, <3>2
      <4>2. Logged(n + 0)' BY <2>5, <2>6, <3>2, <4>1, LoggedStays
      <4>3. ~(k + 1 > 27) BY <2>2, <3>2
      <4>. QED BY <4>2, <4>3
    <3>3. CASE k > 27
      <4>1. Logged(n + 1) BY <2>3, <3>3
      <4>2. Logged(n + 1)' BY <2>5, <2>6, <3>3, <4>1, LoggedStays
      <4>. QED BY <2>2, <3>3, <4>2
    <3>. QED BY <2>2, <3>1, <3>2, <3>3
  <2>8. StandardAt(Send(b), j, k + 1)'
    <3>1. PICK r : role = r OBVIOUS
    <3>2. RoleOf(call, j)' = r BY <2>4, <3>1
    <3>3. SendAt(b, r, k + 1)' BY <2>6, <3>1, <2>4 DEF role
    <3>. QED BY <2>1, <2>3, <2>5, <2>7, <3>2, <3>3, JoinsSend
  <2>. QED BY <2>1, <2>8
<1>7. ASSUME NEW s \in Nat, At(call, j, Do("recv_byte"), s + 5, s)
      PROVE  StandardAt(f, j, k + 1)'
  <2>1. f = Do("recv_byte") /\ EventsBefore(call, j) = s + 5 /\ StoredBefore(call, j) = s
        /\ EventsBefore(call, j)' = s + 5 /\ StoredBefore(call, j)' = s
    BY <1>3, <1>7
  <2>2. k \in 1 .. 29 /\ Does(gpio_i2c_recv_byte[k]) BY <2>1, Lengths
  <2>3. RecvAt(k) /\ Logged((s + 5) + 0) /\ Len(pdata) = s + 0
    BY <2>1, <2>2, Reads
  <2>4. RecvAt(k + 1)' /\ UNCHANGED bus /\ Logged(s + 5)'
        /\ Len(pdata') = s + IF k + 1 = 30 THEN 1 ELSE 0
    <3>1. Logged(s + 5) BY <2>3
    <3>2. CASE k \in 4 .. 27
      <4>1. /\ UNCHANGED pdata
            /\ \/ k % 3 # 2 /\ Drive(gpio_i2c_recv_byte[k]) /\ UNCHANGED data
               \/ /\ k % 3 = 2 /\ data' = (2 * data + Sda(pins, slave)) % 256
                  /\ UNCHANGED <<pins, slave, seen, bus>>
        <5>1. CASE k % 3 = 2
          <6>1. gpio_i2c_recv_byte[k] = "SDA_GET" BY <3>2, <5>1, RecvOps
          <6>. QED BY <2>2, <5>1, <6>1 DEF Does
        <5>2. CASE k % 3 # 2
          <6>1. k % 3 = 0 \/ k % 3 = 1 BY <3>2, <5>2
          <6>2. gpio_i2c_recv_byte[k] \in {"SCL_SET_0", "SCL_SET_1"} BY <3>2, <6>1, RecvOps
          <6>. QED BY <2>2, <5>2, <6>2 DEF Does
        <5>. QED BY <5>1, <5>2
      <4>2. RecvAt(k + 1)' /\ UNCHANGED bus BY <2>3, <3>2, <4>1, RecvBits
      <4>3. Logged(s + 5)' BY <3>1, <4>1, <4>2, LoggedStays
      <4>4. k + 1 # 30 BY <3>2
      <4>. QED BY <2>3, <4>1, <4>2, <4>3, <4>4
    <3>3. CASE k \in {1, 2, 3, 28}
      <4>1. gpio_i2c_recv_byte[k] \notin {"SDA_GET", "STORE"} BY <3>3, RecvOps
      <4>2. Drive(gpio_i2c_recv_byte[k]) /\ UNCHANGED <<data, pdata>> BY <2>2, <4>1 DEF Does
      <4>3. RecvAt(k + 1)' /\ UNCHANGED bus BY <2>3, <3>3, <4>2, RecvEnds
      <4>4. Logged(s + 5)' BY <3>1, <4>2, <4>3, LoggedStays
      <4>5. k + 1 # 30 BY <3>3
      <4>. QED BY <2>3, <4>2, <4>3, <4>4, <4>5
    <3>4. CASE k = 29
      <4>1. gpio_i2c_recv_byte[k] = "STORE" BY <3>4, RecvOps
      <4>2. pdata' = Append(pdata, data) /\ data' = 0 /\ UNCHANGED <<pins, slave, seen, bus>>
        BY <2>2, <4>1 DEF Does
      <4>3. RecvAt(30)' /\ Len(pdata') = Len(pdata) + 1 BY <2>3, <3>4, <4>2, RecvStores
      <4>4. s + 5 <= Len(pdata) + 5 /\ call.len \in Nat BY <2>3, CallFacts
      <4>5. Logged(s + 5)' BY <1>2, <3>1, <4>2, <4>4, LoggedStored
      <4>. QED BY <2>3, <3>4, <4>2, <4>3, <4>5
    <3>. QED BY <2>2, <3>2, <3>3, <3>4
  <2>5. ~(k + 1 > 30) /\ (s + 5) + 0 = s + 5 BY <2>2
  <2>6. StandardAt(Do("recv_byte"), j, k + 1)' BY <2>1, <2>4, <2>5, Joins
  <2>. QED BY <2>1, <2>6
<1>8. ASSUME NEW s \in Nat \ {0}, NEW a \in {0, 1}, At(call, j, Ack(a), s + 4, s),
             EventOf(call, s + 5) = Got(s, call.len), a = IF s < call.len THEN 0 ELSE 1
      PROVE  StandardAt(f, j, k + 1)'
  <2>1. f = Ack(a) /\ EventsBefore(call, j) = s + 4 /\ StoredBefore(call, j) = s
        /\ EventsBefore(call, j)' = s + 4 /\ StoredBefore(call, j)' = s
    BY <1>3, <1>8
  <2>2. k \in 1 .. 2 /\ Does(gpio_i2c_send_ack(a)[k])
    <3>1. Body(f) = gpio_i2c_send_ack(a) BY <2>1, Lengths
    <3>2. Len(gpio_i2c_send_ack(a)) = 2 BY DEF gpio_i2c_send_ack
    <3>. QED BY <3>1, <3>2
  <2>3. AckAt(a, k) /\ Logged((s + 4) + 0) /\ Len(pdata) = s + 0
    <3>1. ~(k > 2) BY <2>2
    <3>. QED BY <2>1, <3>1, ReadsAck
  <2>4. gpio_i2c_send_ack(a)[k] \notin {"SDA_GET", "STORE"}
    BY <2>2 DEF gpio_i2c_send_ack, SetSda
  <2>5. Drive(gpio_i2c_send_ack(a)[k]) /\ UNCHANGED <<data, pdata>> BY <2>2, <2>4 DEF Does
  <2>6. /\ AckAt(a, k + 1)'
        /\ k = 1 => UNCHANGED bus
        /\ k = 2 => bus' = Append(bus, [ev |-> "byte", byte |-> Cur, ack |-> a])
    BY <2>2, <2>3, <2>5, AckStep
  <2>7. Logged((s + 4) + IF k + 1 > 2 THEN 1 ELSE 0)'
    <3>1. Logged(s + 4) BY <2>3
    <3>2. CASE k = 1 BY <2>3, <2>5, <2>6, <3>2, LoggedStays
    <3>3. CASE k = 2
      <4>1. pdata[s] = Cur
        <5>1. Len(pdata) = s BY <2>3
        <5>. QED BY <2>3, <5>1, LastStored
      <4>2. Cur \in Byte
        <5>1. slave.role \in {"none", "tx"} BY <2>3 DEF AckAt
        <5>. QED BY <5>1, Showing
      <4>3. PICK c \in Byte : Cur = c BY <4>2
      <4>4. [ev |-> "byte", byte |-> c, ack |-> a] \in Events BY DEF Events
      <4>5. (s + 4) + 1 = s + 5 /\ s + 4 \in Nat OBVIOUS
      <4>6. bus' = Append(bus, [ev |-> "byte", byte |-> c, ack |-> a]) BY <2>6, <3>3, <4>3
      <4>7. EventOf(call, (s + 4) + 1) = [ev |-> "byte", byte |-> c, ack |-> {a}]
        BY <1>8, <4>1, <4>3, <4>5 DEF Got
      <4>8. Logged((s + 4) + 1)'
        BY <1>2, <2>5, <3>1, <4>4, <4>5, <4>6, <4>7, LoggedMore
      <4>. QED BY <3>3, <4>8
    <3>. QED BY <2>2, <3>2, <3>3
  <2>8. Len(pdata') = s + 0 BY <2>3, <2>5
  <2>9. StandardAt(Ack(a), j, k + 1)' BY <2>1, <2>6, <2>7, <2>8, JoinsAck
  <2>. QED BY <2>1, <2>9
<1>9. ASSUME NEW n \in Nat, At(call, j, Do("stop"), n, call.len), EventOf(call, n + 1) = Mark("P")
      PROVE  StandardAt(f, j, k + 1)'
  <2>0. PICK s \in Nat : call.len = s BY CallFacts
  <2>1. f = Do("stop") /\ EventsBefore(call, j) = n /\ StoredBefore(call, j) = s
        /\ EventsBefore(call, j)' = n /\ StoredBefore(call, j)' = s
    BY <1>3, <1>9, <2>0
  <2>2. k \in 1 .. 4 /\ Does(gpio_i2c_stop[k]) BY <2>1, Lengths
  <2>3. StopAt(k) /\ Logged(n + 0) /\ Len(pdata) = s + 0
    <3>1. ~(k > 4) BY <2>2
    <3>. QED BY <2>1, <3>1, Reads
  <2>4. gpio_i2c_stop[k] \notin {"SDA_GET", "STORE"} BY <2>2 DEF gpio_i2c_stop
  <2>5. Drive(gpio_i2c_stop[k]) /\ UNCHANGED <<data, pdata>> BY <2>2, <2>4 DEF Does
  <2>6. /\ StopAt(k + 1)'
        /\ k # 4 => UNCHANGED bus
        /\ k = 4 => bus' = Append(bus, [ev |-> "P", byte |-> 0, ack |-> 0])
    BY <2>2, <2>3, <2>5, StopStep
  <2>7. Logged(n + IF k + 1 > 4 THEN 1 ELSE 0)'
    <3>1. CASE k = 4
      <4>1. Logged(n) BY <2>3
      <4>2. [ev |-> "P", byte |-> 0, ack |-> 0] \in Events BY DEF Events, Byte
      <4>3. Logged(n + 1)' BY <1>2, <1>9, <2>5, <2>6, <3>1, <4>1, <4>2, LoggedMore DEF Mark
      <4>. QED BY <3>1, <4>3
    <3>2. CASE k < 4
      <4>1. Logged(n + 0)' BY <2>3, <2>5, <2>6, <3>2, LoggedStays
      <4>2. ~(k + 1 > 4) BY <2>2, <3>2
      <4>. QED BY <4>1, <4>2
    <3>. QED BY <2>2, <3>1, <3>2
  <2>8. Len(pdata') = s + 0 BY <2>3, <2>5
  <2>9. StandardAt(Do("stop"), j, k + 1)' BY <2>1, <2>6, <2>7, <2>8, Joins
  <2>. QED BY <2>1, <2>9
<1>. QED BY <1>1, <1>4, <1>5, <1>6, <1>7, <1>8, <1>9 DEF Place

-----------------------------------------------------------------------------
(* The call of the LCD *)

LcdFunctions(c, j, f) ==
  \/ j = 1 /\ f = Do("i2c_choice")
  \/ j = 2 /\ f = Do("start")
  \/ j = 3 /\ \E b \in Byte : f = Send(b) /\ b % 2 = 1
  \/ j = 4 /\ \E b \in Byte : f = Send(b)
  \/ j > 4 /\ j < Len(Calls(c)) /\ f = Do("lcd_recv_byte")
  \/ j > 4 /\ j < Len(Calls(c)) /\ \E a \in {0, 1} : f = Ack(a)
  \/ j > 4 /\ j = Len(Calls(c)) /\ f = Do("stop")

LEMMA LcdPlaces ==
  ASSUME NEW c, IsCall(c), c.fn = "lcd_read_data", NEW j \in 1 .. Len(Calls(c))
  PROVE  LcdFunctions(c, j, Calls(c)[j])
<1>1. c.len \in Nat \ {0} /\ Len(Calls(c)) = 2 * c.len + 5 BY LcdCalls
<1>2. c.reg \in Byte /\ c.addr + 1 \in Byte /\ (c.addr + 1) % 2 = 1 BY CallFacts
<1>3. CASE j = 1 BY <1>3, LcdCalls DEF LcdFunctions
<1>4. CASE j = 2 BY <1>4, LcdCalls DEF LcdFunctions
<1>5. CASE j = 3 BY <1>2, <1>5, LcdCalls DEF LcdFunctions
<1>6. CASE j = 4 BY <1>2, <1>6, LcdCalls DEF LcdFunctions
<1>7. CASE j \in 5 .. 2 * c.len + 4
  <2>1. j > 4 /\ j < Len(Calls(c)) BY <1>1, <1>7
  <2>2. Calls(c)[j] = Do("lcd_recv_byte") \/ \E a \in {0, 1} : Calls(c)[j] = Ack(a)
    BY <1>7, LcdCalls
  <2>. QED BY <2>1, <2>2 DEF LcdFunctions
<1>8. CASE j = 2 * c.len + 5
  <2>1. j > 4 BY <1>1, <1>8
  <2>. QED BY <1>1, <1>8, <2>1, LcdCalls DEF LcdFunctions
<1>. QED BY <1>1, <1>3, <1>4, <1>5, <1>6, <1>7, <1>8

\* A byte received is acknowledged next, and an acknowledge follows one.
LEMMA LcdAlternates ==
  ASSUME NEW c, IsCall(c), c.fn = "lcd_read_data", NEW j \in Nat, j > 3, j < Len(Calls(c))
  PROVE  /\ Calls(c)[j] = Do("lcd_recv_byte") => \E a \in {0, 1} : Calls(c)[j + 1] = Ack(a)
         /\ Calls(c)[j] # Do("lcd_recv_byte") => Calls(c)[j + 1] \in {Do("lcd_recv_byte"), Do("stop")}
<1>1. c.len \in Nat \ {0} /\ Len(Calls(c)) = 2 * c.len + 5 BY LcdCalls
<1>2. CASE j % 2 = 1
  <2>1. j \in 5 .. 2 * c.len + 4 BY <1>1, <1>2
  <2>2. Calls(c)[j] = Do("lcd_recv_byte") BY <1>2, <2>1, LcdCalls
  <2>3. j + 1 \in 5 .. 2 * c.len + 4 /\ (j + 1) % 2 # 1
    <3>1. (j + 1) % 2 = 0 BY <1>2
    <3>2. PICK n \in Nat : c.len = n BY <1>1
    <3>3. j < 2 * n + 5 /\ j # 2 * n + 4 BY <1>1, <1>2, <3>2
    <3>. QED BY <2>1, <3>1, <3>2, <3>3
  <2>4. \E a \in {0, 1} : Calls(c)[j + 1] = Ack(a) BY <2>3, LcdCalls
  <2>. QED BY <2>2, <2>4
<1>3. CASE j % 2 # 1
  <2>1. (j + 1) % 2 = 1 /\ j + 1 \in 5 .. 2 * c.len + 5 BY <1>1, <1>3
  <2>2. Calls(c)[j] # Do("lcd_recv_byte")
    <3>1. CASE j = 4
      <4>1. Calls(c)[j] = Send(c.reg) BY <3>1, LcdCalls
      <4>2. Send(c.reg).fn = "send_byte" /\ Do("lcd_recv_byte").fn = "lcd_recv_byte" BY DEF Send, Do
      <4>. QED BY <4>1, <4>2
    <3>2. CASE j \in 5 .. 2 * c.len + 4
      <4>1. PICK a : Calls(c)[j] = Ack(a) BY <1>3, <3>2, LcdCalls
      <4>. QED BY <4>1 DEF Ack, Do
    <3>. QED BY <1>1, <3>1, <3>2
  <2>3. CASE j + 1 \in 5 .. 2 * c.len + 4 BY <2>1, <2>2, <2>3, LcdCalls
  <2>4. CASE j + 1 = 2 * c.len + 5 BY <2>1, <2>2, <2>4, LcdCalls
  <2>. QED BY <1>1, <2>1, <2>3, <2>4
<1>. QED BY <1>2, <1>3

\* The conditions of its functions, before a step and after.
LEMMA LcdReads ==
  ASSUME NEW j, NEW k
  PROVE  /\ LcdAt(Do("i2c_choice"), j, k) <=> ChoiceAt(k)
         /\ LcdAt(Do("start"), j, k) <=> StartAt(k)
         /\ LcdAt(Do("lcd_recv_byte"), j, k) <=> LcdRecvAt(k)
         /\ LcdAt(Do("stop"), j, k) <=> LcdStopAt(k)
  BY DEF LcdAt, Do

LEMMA LcdReadsArg ==
  ASSUME NEW j, NEW k, NEW b
  PROVE  /\ j = 3 => (LcdAt(Send(b), j, k) <=> SendAt(b, {"addr"}, k))
         /\ j # 3 => (LcdAt(Send(b), j, k) <=> LcdSendAt(k))
         /\ LcdAt(Ack(b), j, k) <=> LcdAckAt(k)
  BY DEF LcdAt, Send, Ack

LEMMA LcdJoins ==
  ASSUME NEW j, NEW k
  PROVE  /\ LcdAt(Do("i2c_choice"), j, k)' <=> ChoiceAt(k)'
         /\ LcdAt(Do("start"), j, k)' <=> StartAt(k)'
         /\ LcdAt(Do("lcd_recv_byte"), j, k)' <=> LcdRecvAt(k)'
         /\ LcdAt(Do("stop"), j, k)' <=> LcdStopAt(k)'
  BY DEF LcdAt, Do

LEMMA LcdJoinsArg ==
  ASSUME NEW j, NEW k, NEW b
  PROVE  /\ j = 3 => (LcdAt(Send(b), j, k)' <=> SendAt(b, {"addr"}, k)')
         /\ j # 3 => (LcdAt(Send(b), j, k)' <=> LcdSendAt(k)')
         /\ LcdAt(Ack(b), j, k)' <=> LcdAckAt(k)'
  BY DEF LcdAt, Send, Ack

\* Every operation leads to the condition of the next.
LEMMA LcdStep ==
  ASSUME I2cTypeOK, IsCall(call), call.fn = "lcd_read_data", NEW j \in 1 .. Len(Calls(call)),
         NEW f, f = Calls(call)[j], NEW k \in 1 .. Len(Body(f)),
         LcdAt(f, j, k), Does(Body(f)[k])
  PROVE  LcdAt(f, j, k + 1)'
<1>1. LcdFunctions(call, j, f) BY LcdPlaces
<1>2. CASE f = Do("i2c_choice")
  <2>1. k \in 1 .. 2 /\ Does(i2c_choice[k]) BY <1>2, Lengths
  <2>2. ChoiceAt(k) BY <1>2, LcdReads
  <2>3. i2c_choice[k] \notin {"SDA_GET", "STORE"} BY <2>1 DEF i2c_choice
  <2>4. ChoiceAt(k + 1)' BY <2>1, <2>2, <2>3, ChoiceStep DEF Does
  <2>. QED BY <1>2, <2>4, LcdJoins
<1>3. CASE f = Do("start")
  <2>1. k \in 1 .. 4 /\ Does(gpio_i2c_start[k]) BY <1>3, Lengths
  <2>2. StartAt(k) BY <1>3, LcdReads
  <2>3. gpio_i2c_start[k] \notin {"SDA_GET", "STORE"} BY <2>1 DEF gpio_i2c_start
  <2>4. StartAt(k + 1)' BY <2>1, <2>2, <2>3, StartStep DEF Does
  <2>. QED BY <1>3, <2>4, LcdJoins
<1>4. ASSUME NEW b \in Byte, f = Send(b)
      PROVE  /\ k \in 1 .. 29
             /\ Drive(gpio_i2c_send_byte(b)[k]) /\ UNCHANGED <<data, pdata>>
  <2>1. Body(f) = gpio_i2c_send_byte(b) BY <1>4, Lengths
  <2>2. Len(gpio_i2c_send_byte(b)) = 29 BY SendOps
  <2>3. k \in 1 .. 29 /\ Does(gpio_i2c_send_byte(b)[k]) BY <2>1, <2>2
  <2>4. gpio_i2c_send_byte(b)[k] \notin {"SDA_GET", "STORE"} BY <2>3, SendPins
  <2>. QED BY <2>3, <2>4 DEF Does
<1>5. ASSUME j = 3, NEW b \in Byte, f = Send(b) PROVE LcdAt(f, j, k + 1)'
  <2>1. SendAt(b, {"addr"}, k) BY <1>5, LcdReadsArg
  <2>2. SendAt(b, {"addr"}, k + 1)'
    <3>1. PICK r \in {{"addr"}, {"none", "rx"}} : r = {"addr"} OBVIOUS
    <3>2. SendAt(b, r, k) BY <2>1, <3>1
    <3>3. SendAt(b, r, k + 1)' BY <1>4, <1>5, <3>2, SendStep
    <3>. QED BY <3>1, <3>3
  <2>. QED BY <1>5, <2>2, LcdJoinsArg
<1>6. ASSUME j = 4, NEW b \in Byte, f = Send(b) PROVE LcdAt(f, j, k + 1)'
  <2>1. LcdSendAt(k) /\ j # 3 BY <1>6, LcdReadsArg
  <2>2. LcdSendAt(k + 1)' BY <1>4, <1>6, <2>1, LcdSendStep
  <2>. QED BY <1>6, <2>1, <2>2, LcdJoinsArg
<1>7. CASE f = Do("lcd_recv_byte")
  <2>1. k \in 1 .. 28 /\ Does(gpio_i2c_lcd_recv_byte[k]) BY <1>7, Lengths
  <2>2. LcdRecvAt(k) BY <1>7, LcdReads
  <2>3. LcdRecvAt(k + 1)' BY <2>1, <2>2, LcdRecvStep DEF Does
  <2>. QED BY <1>7, <2>3, LcdJoins
<1>8. ASSUME NEW a \in {0, 1}, f = Ack(a) PROVE LcdAt(f, j, k + 1)'
  <2>1. Body(f) = gpio_i2c_send_ack(a) BY <1>8, Lengths
  <2>2. Len(gpio_i2c_send_ack(a)) = 2 BY DEF gpio_i2c_send_ack
  <2>3. k \in 1 .. 2 /\ Does(gpio_i2c_send_ack(a)[k]) BY <2>1, <2>2
  <2>4. gpio_i2c_send_ack(a)[k] \notin {"SDA_GET", "STORE"}
    BY <2>3 DEF gpio_i2c_send_ack, SetSda
  <2>5. LcdAckAt(k) BY <1>8, LcdReadsArg
  <2>6. LcdAckAt(k + 1)' BY <2>3, <2>4, <2>5, LcdAckStep DEF Does
  <2>. QED BY <1>8, <2>6, LcdJoinsArg
<1>9. CASE f = Do("stop")
  <2>1. k \in 1 .. 4 /\ Does(gpio_i2c_stop[k]) BY <1>9, Lengths
  <2>2. LcdStopAt(k) BY <1>9, LcdReads
  <2>3. gpio_i2c_stop[k] \notin {"SDA_GET", "STORE"} BY <2>1 DEF gpio_i2c_stop
  <2>4. LcdStopAt(k + 1)' BY <2>1, <2>2, <2>3, LcdStopStep DEF Does
  <2>. QED BY <1>9, <2>4, LcdJoins
<1>. QED BY <1>1, <1>2, <1>3, <1>5, <1>6, <1>7, <1>8, <1>9 DEF LcdFunctions

\* The end of a function is the beginning of the one that follows it.
LEMMA LcdArrivals ==
  ASSUME I2cTypeOK
  PROVE  /\ \A b \in Byte : b % 2 = 1 /\ SendAt(b, {"addr"}, 30) => LcdSendAt(1)
         /\ LcdSendAt(30) => LcdRecvAt(1)
         /\ LcdRecvAt(29) => LcdAckAt(1)
         /\ LcdAckAt(3) => LcdRecvAt(1) /\ LcdStopAt(1)
<1>1. ASSUME NEW b \in Byte, b % 2 = 1, SendAt(b, {"addr"}, 30) PROVE LcdSendAt(1)
  <2>1. /\ "SCL" \in pins.out /\ "SDA" \in pins.out /\ pins.scl = 0 /\ Counts(0, 0)
        /\ slave.role \in {"none", "tx"} /\ slave.sda = SdaAfter(0)
    BY <1>1 DEF SendAt
  <2>2. slave.role = "none" => slave.sda = 1 BY <2>1, Showing
  <2>3. (1 - 1) \div 3 = 0 /\ 1 % 3 = 1 OBVIOUS
  <2>. QED BY <2>1, <2>2, <2>3 DEF LcdSendAt, Counts
<1>2. ASSUME LcdSendAt(30) PROVE LcdRecvAt(1)
  BY <1>2 DEF LcdSendAt, LcdRecvAt
<1>3. ASSUME LcdRecvAt(29) PROVE LcdAckAt(1)
  BY <1>3 DEF LcdRecvAt, LcdAckAt, Out
<1>4. ASSUME LcdAckAt(3) PROVE LcdRecvAt(1) /\ LcdStopAt(1)
  BY <1>4 DEF LcdRecvAt, LcdAckAt, LcdStopAt, Out
<1>. QED BY <1>1, <1>2, <1>3, <1>4

\* From the end of a function to the beginning of the next one.
LEMMA LcdHandOver ==
  ASSUME NEW j \in Nat \ {0}
  PROVE  /\ I2cTypeOK /\ IsCall(call) /\ ~Standard /\ j < Len(Calls(call))
         /\ LcdAt(Calls(call)[j], j, Len(Body(Calls(call)[j])) + 1)
         => LcdAt(Calls(call)[j + 1], j + 1, 1)
<1> SUFFICES ASSUME I2cTypeOK, IsCall(call), ~Standard, j < Len(Calls(call)),
                    LcdAt(Calls(call)[j], j, Len(Body(Calls(call)[j])) + 1)
             PROVE  LcdAt(Calls(call)[j + 1], j + 1, 1)
  OBVIOUS
<1> DEFINE f == Calls(call)[j]
           g == Calls(call)[j + 1]
           l == Len(Body(f))
<1>1. Len(Calls(call)) \in Nat BY LenCalls
<1>2. LcdFunctions(call, j, f) /\ LcdFunctions(call, j + 1, g)
  <2>1. j \in 1 .. Len(Calls(call)) /\ j + 1 \in 1 .. Len(Calls(call)) BY <1>1
  <2>. QED BY <2>1, LcdPlaces DEF Standard
<1>3. LcdAt(f, j, l + 1) OBVIOUS
<1>4. j > 3 => /\ f = Do("lcd_recv_byte") => \E a \in {0, 1} : g = Ack(a)
               /\ f # Do("lcd_recv_byte") => g \in {Do("lcd_recv_byte"), Do("stop")}
  BY LcdAlternates DEF Standard
<1>5. /\ f = Do("i2c_choice") => l = 2
      /\ f = Do("start") => l = 4
      /\ \A b : f = Send(b) => l = 29
      /\ f = Do("lcd_recv_byte") => l = 28
      /\ \A a : f = Ack(a) => l = 2
  <2>1. /\ f = Do("i2c_choice") => l = Len(Body(Do("i2c_choice")))
        /\ f = Do("start") => l = Len(Body(Do("start")))
        /\ \A b : f = Send(b) => l = Len(Body(Send(b)))
        /\ f = Do("lcd_recv_byte") => l = Len(Body(Do("lcd_recv_byte")))
        /\ \A a : f = Ack(a) => l = Len(Body(Ack(a)))
    OBVIOUS
  <2> HIDE DEF f, g, l
  <2>. QED BY <2>1, Lengths
<1> SUFFICES LcdAt(g, j + 1, 1) OBVIOUS
<1> HIDE DEF f, g, l
<1>6. CASE j = 1
  <2>1. f = Do("i2c_choice") /\ g = Do("start") BY <1>2, <1>6 DEF LcdFunctions
  <2>2. LcdAt(Do("i2c_choice"), 1, 3) BY <1>3, <1>5, <1>6, <2>1
  <2>3. StartAt(1) BY <2>2, LcdReads, Arrivals
  <2>4. LcdAt(Do("start"), j + 1, 1) BY <2>3, LcdReads
  <2>. QED BY <2>1, <2>4
<1>7. CASE j = 2
  <2>1. f = Do("start") /\ \E b \in Byte : g = Send(b) BY <1>2, <1>7 DEF LcdFunctions
  <2>2. PICK b \in Byte : g = Send(b) BY <2>1
  <2>3. LcdAt(Do("start"), 2, 5) BY <1>3, <1>5, <1>7, <2>1
  <2>4. SendAt(b, {"addr"}, 1) BY <2>3, LcdReads, Arrivals
  <2>5. LcdAt(Send(b), 3, 1) BY <2>4, LcdReadsArg
  <2>. QED BY <1>7, <2>2, <2>5
<1>8. CASE j = 3
  <2>1. (\E b \in Byte : f = Send(b) /\ b % 2 = 1) /\ \E b \in Byte : g = Send(b)
    BY <1>2, <1>8 DEF LcdFunctions
  <2>2. PICK b \in Byte : f = Send(b) /\ b % 2 = 1 BY <2>1
  <2>3. PICK b2 \in Byte : g = Send(b2) BY <2>1
  <2>4. LcdAt(Send(b), 3, 30) BY <1>3, <1>5, <1>8, <2>2
  <2>5. SendAt(b, {"addr"}, 30) BY <2>4, LcdReadsArg
  <2>6. LcdSendAt(1) BY <2>2, <2>5, LcdArrivals
  <2>7. LcdAt(Send(b2), 4, 1) BY <2>6, LcdReadsArg
  <2>. QED BY <1>8, <2>3, <2>7
<1>9. CASE j > 3
  <2>1. \/ \E b \in Byte : f = Send(b)
        \/ f = Do("lcd_recv_byte")
        \/ \E a \in {0, 1} : f = Ack(a)
    BY <1>1, <1>2, <1>9 DEF LcdFunctions
  <2>2. CASE f = Do("lcd_recv_byte")
    <3>1. PICK a \in {0, 1} : g = Ack(a) BY <1>4, <1>9, <2>2
    <3>2. LcdAt(Do("lcd_recv_byte"), j, 29) BY <1>3, <1>5, <2>2
    <3>3. LcdAckAt(1) BY <3>2, LcdReads, LcdArrivals
    <3>4. LcdAt(Ack(a), j + 1, 1) BY <3>3, LcdReadsArg
    <3>. QED BY <3>1, <3>4
  <2>3. CASE f # Do("lcd_recv_byte")
    <3>1. LcdRecvAt(1) /\ (g = Do("stop") => LcdStopAt(1))
      <4>1. ASSUME NEW b \in Byte, f = Send(b)
            PROVE  LcdRecvAt(1) /\ (g = Do("stop") => LcdStopAt(1))
        <5>1. LcdAt(Send(b), j, 30) BY <1>3, <1>5, <4>1
        <5>2. LcdSendAt(30) BY <1>9, <5>1, LcdReadsArg
        <5>3. LcdRecvAt(1) BY <5>2, LcdArrivals
        <5>4. LcdStopAt(1) BY <5>3 DEF LcdRecvAt, LcdStopAt, Out
        <5>. QED BY <5>3, <5>4
      <4>2. ASSUME NEW a \in {0, 1}, f = Ack(a)
            PROVE  LcdRecvAt(1) /\ LcdStopAt(1)
        <5>1. LcdAt(Ack(a), j, 3) BY <1>3, <1>5, <4>2
        <5>. QED BY <5>1, LcdReadsArg, LcdArrivals
      <4>. QED BY <2>1, <2>3, <4>1, <4>2
    <3>2. g \in {Do("lcd_recv_byte"), Do("stop")} BY <1>4, <1>9, <2>3
    <3>3. LcdAt(Do("lcd_recv_byte"), j + 1, 1) BY <3>1, LcdReads
    <3>4. g = Do("stop") => LcdAt(Do("stop"), j + 1, 1) BY <3>1, LcdReads
    <3>. QED BY <3>2, <3>3, <3>4
  <2>. QED BY <2>2, <2>3
<1>. QED BY <1>6, <1>7, <1>8, <1>9

-----------------------------------------------------------------------------
(* The last function *)

\* After the last function of a call the bus rests and the transfer is complete.
LEMMA Ending ==
  ASSUME I2cTypeOK, IsCall(call), Standard, NEW f, f = Calls(call)[Len(Calls(call))],
         StandardAt(f, Len(Calls(call)), Len(Body(f)) + 1)
  PROVE  AtRest
<1> DEFINE j == Len(Calls(call))
<1>1. f = Do("stop") /\ \E n \in Nat :
        /\ EventsBefore(call, j) = n /\ StoredBefore(call, j) = call.len
        /\ n + 1 = IF call.len = 0 THEN Len(call.bytes) + 4 ELSE call.len + 6
  <2>1. j \in Nat /\ j > 1 BY LenCalls
  <2>2. j \in 1 .. Len(Calls(call)) BY <2>1
  <2>3. Place(call, j) BY <2>2, Places DEF Standard
  <2>4. f = Do("stop")
    <3>1. CASE call.len = 0 BY <3>1, WriteCalls DEF Standard
    <3>2. CASE call.fn \in {"read_byte", "read_data"} BY <3>2, ReadCalls
    <3>3. call.len = 0 \/ call.fn \in {"read_byte", "read_data"} BY DEF IsCall, Standard
    <3>. QED BY <3>1, <3>2, <3>3
  <2>5. PICK n \in Nat : /\ At(call, j, Do("stop"), n, call.len)
                         /\ n + 1 = IF call.len = 0 THEN Len(call.bytes) + 4 ELSE call.len + 6
    <3>1. \A g, n, s : At(call, j, g, n, s) => g = Do("stop") BY <2>4 DEF At
    <3>2. /\ Do("i2c_choice") # Do("stop") /\ Do("start") # Do("stop")
          /\ Do("recv_byte") # Do("stop")
          /\ \A b : Send(b) # Do("stop") /\ Ack(b) # Do("stop")
      <4>1. /\ Do("i2c_choice").fn = "i2c_choice" /\ Do("start").fn = "start"
            /\ Do("recv_byte").fn = "recv_byte" /\ Do("stop").fn = "stop"
            /\ \A b : Send(b).fn = "send_byte" /\ Ack(b).fn = "send_ack"
        BY DEF Do, Send, Ack
      <4>. QED BY <4>1
    <3>. QED BY <2>3, <3>1, <3>2 DEF Place
  <2>. QED BY <2>4, <2>5 DEF At
<1>2. PICK n \in Nat :
        /\ EventsBefore(call, j) = n /\ StoredBefore(call, j) = call.len
        /\ n + 1 = IF call.len = 0 THEN Len(call.bytes) + 4 ELSE call.len + 6
  BY <1>1
<1>3. StandardAt(Do("stop"), j, 5)
  <2>1. Len(Body(f)) = Len(Body(Do("stop"))) BY <1>1
  <2>2. Len(Body(f)) = 4 BY <2>1, Lengths
  <2>3. StandardAt(f, j, 5) BY <2>2
  <2>. QED BY <1>1, <2>3
<1>4. call.len \in Nat BY CallFacts
<1>5. StopAt(5) /\ Logged(n + 1) /\ Len(pdata) = call.len
  BY <1>2, <1>3, <1>4, Reads
<1>6. /\ Resting /\ Closed /\ Stored
      /\ slave.sent = <<>> \/ Len(slave.sent) = Len(pdata)
  BY <1>5 DEF StopAt
<1>. QED BY <1>2, <1>5, <1>6 DEF AtRest

LEMMA LcdEnding ==
  ASSUME IsCall(call), ~Standard, NEW f, f = Calls(call)[Len(Calls(call))],
         LcdAt(f, Len(Calls(call)), Len(Body(f)) + 1)
  PROVE  AtRest
<1>1. f = Do("stop") BY LcdCalls DEF Standard
<1>2. Len(Body(f)) = Len(Body(Do("stop"))) BY <1>1
<1>3. Len(Body(f)) = 4 BY <1>2, Lengths
<1>4. LcdAt(f, Len(Calls(call)), 5) BY <1>3
<1>5. LcdStopAt(5) BY <1>1, <1>4, LcdReads
<1>. QED BY <1>5 DEF AtRest, LcdStopAt

\* The same for any last function, and the passage to the next one, as state
\* formulas, to be used of the state after a step.
Hands ==
  \A j \in Nat \ {0} :
    LET f == Calls(call)[j]  k == Len(Body(f)) + 1 IN
    I2cTypeOK /\ IsCall(call) =>
      /\ j < Len(Calls(call)) =>
           /\ Standard /\ StandardAt(f, j, k) => StandardAt(Calls(call)[j + 1], j + 1, 1)
           /\ ~Standard /\ LcdAt(f, j, k) => LcdAt(Calls(call)[j + 1], j + 1, 1)
      /\ j = Len(Calls(call)) =>
           /\ Standard /\ StandardAt(f, j, k) => AtRest
           /\ ~Standard /\ LcdAt(f, j, k) => AtRest

LEMMA Handing == Hands
<1> SUFFICES ASSUME NEW j \in Nat \ {0}, I2cTypeOK, IsCall(call)
             PROVE  LET f == Calls(call)[j]  k == Len(Body(f)) + 1 IN
      /\ j < Len(Calls(call)) =>
           /\ Standard /\ StandardAt(f, j, k) => StandardAt(Calls(call)[j + 1], j + 1, 1)
           /\ ~Standard /\ LcdAt(f, j, k) => LcdAt(Calls(call)[j + 1], j + 1, 1)
      /\ j = Len(Calls(call)) =>
           /\ Standard /\ StandardAt(f, j, k) => AtRest
           /\ ~Standard /\ LcdAt(f, j, k) => AtRest
  BY DEF Hands
<1> DEFINE f == Calls(call)[j]
           k == Len(Body(f)) + 1
<1>1. ASSUME j < Len(Calls(call)), Standard, StandardAt(f, j, k)
      PROVE  StandardAt(Calls(call)[j + 1], j + 1, 1)
  BY <1>1, HandOver
<1>2. ASSUME j < Len(Calls(call)), ~Standard, LcdAt(f, j, k)
      PROVE  LcdAt(Calls(call)[j + 1], j + 1, 1)
  BY <1>2, LcdHandOver
<1>3. ASSUME j = Len(Calls(call)), Standard, StandardAt(f, j, k) PROVE AtRest
  BY <1>3, Ending
<1>4. ASSUME j = Len(Calls(call)), ~Standard, LcdAt(f, j, k) PROVE AtRest
  BY <1>4, LcdEnding
<1>. QED BY <1>1, <1>2, <1>3, <1>4

LEMMA HandingNext == Hands'
BY Handing, PTL

\* Every function has a first operation.
LEMMA BodyLen ==
  ASSUME NEW c, IsCall(c), NEW j \in 1 .. Len(Calls(c))
  PROVE  1 \in 1 .. Len(Body(Calls(c)[j]))
<1>1. PICK f : f = Calls(c)[j] OBVIOUS
<1>2. \/ f \in {Do("i2c_choice"), Do("start"), Do("recv_byte"), Do("lcd_recv_byte"), Do("stop")}
      \/ \E b : f = Send(b) \/ f = Ack(b)
  <2>1. CASE c.fn = "lcd_read_data"
    <3>1. LcdFunctions(c, j, f) BY <1>1, <2>1, LcdPlaces
    <3>. QED BY <3>1 DEF LcdFunctions
  <2>2. CASE c.fn # "lcd_read_data"
    <3>1. Place(c, j) BY <2>2, Places
    <3>2. \A g, n, s : At(c, j, g, n, s) => g = f BY <1>1 DEF At
    <3>. QED BY <3>1, <3>2 DEF Place
  <2>. QED BY <2>1, <2>2
<1>3. PICK m : m = Len(Body(f)) OBVIOUS
<1>4. m \in {2, 4, 28, 29}
  <2>2. \A fn : f = Do(fn) => m = Len(Body(Do(fn))) BY <1>3
  <2>3. CASE f \in {Do("i2c_choice"), Do("start"), Do("recv_byte"), Do("lcd_recv_byte"), Do("stop")}
    BY <2>2, <2>3, Lengths
  <2>4. ASSUME NEW b, f = Send(b) PROVE m \in {2, 4, 28, 29}
    <3>1. m = Len(Body(Send(b))) BY <1>3, <2>4
    <3>. QED BY <3>1, Lengths
  <2>5. ASSUME NEW b, f = Ack(b) PROVE m \in {2, 4, 28, 29}
    <3>1. m = Len(Body(Ack(b))) BY <1>3, <2>5
    <3>. QED BY <3>1, Lengths
  <2>. QED BY <1>2, <2>3, <2>4, <2>5
<1>5. 1 \in 1 .. m BY <1>4
<1>6. m = Len(Body(Calls(c)[j])) BY <1>1, <1>3
<1>. QED BY <1>5, <1>6

-----------------------------------------------------------------------------
(* The induction *)

\* An operation of a running call.
LEMMA OperationStep ==
  ASSUME I2cInv, I2cTypeOK', ~Idle, Does(Op), Advance, UNCHANGED call
  PROVE  (Idle => AtRest)' /\ (~Idle => InCall)'
<1>0. I2cTypeOK /\ InCall BY DEF I2cInv, Typed
<1>1. IsCall(call) /\ IsCall(call)'
  BY <1>0 DEF InCall, IsCall
<1>2. PICK c : c = call /\ c = call' OBVIOUS
<1>3. PICK j : j = piece OBVIOUS
<1>4. PICK k : k = op OBVIOUS
<1>5. PICK f : f = Calls(c)[j] OBVIOUS
<1>6. PICK m : m = Len(Body(f)) OBVIOUS
<1>7. Len(Calls(c)) \in Nat /\ j \in 1 .. Len(Calls(c)) /\ k \in 1 .. Len(Body(f))
  <2>1. piece \in 1 .. Len(Calls(call)) /\ op \in 1 .. Len(Body(Calls(call)[piece]))
    BY <1>0 DEF InCall
  <2>2. Len(Calls(c)) \in Nat BY <1>1, <1>2, LenCalls
  <2>. QED BY <1>2, <1>3, <1>4, <1>5, <2>1, <2>2
<1>8. Does(Body(f)[k]) BY <1>2, <1>3, <1>4, <1>5 DEF Op, Running
<1>9. /\ Standard => StandardAt(f, j, k + 1)'
      /\ ~Standard => LcdAt(f, j, k + 1)'
  <2>1. /\ Standard => StandardAt(f, j, k)
        /\ ~Standard => LcdAt(f, j, k)
    <3>1. IF Standard THEN StandardAt(Calls(call)[piece], piece, op)
                      ELSE LcdAt(Calls(call)[piece], piece, op)
      BY <1>0 DEF InCall
    <3>. QED BY <1>2, <1>3, <1>4, <1>5, <3>1
  <2>2. j \in 1 .. Len(Calls(call)) /\ f = Calls(call)[j] BY <1>2, <1>5, <1>7
  <2>3. ASSUME Standard PROVE StandardAt(f, j, k + 1)'
    BY <1>0, <1>1, <1>7, <1>8, <2>1, <2>2, <2>3, StandardStep
  <2>4. ASSUME ~Standard PROVE LcdAt(f, j, k + 1)'
    <3>1. call.fn = "lcd_read_data" BY <2>4 DEF Standard
    <3>. QED BY <1>0, <1>1, <1>7, <1>8, <2>1, <2>2, <2>4, <3>1, LcdStep
  <2>. QED BY <2>3, <2>4
<1>10. Standard' <=> Standard BY DEF Standard
<1>11. \/ k < m /\ op' = k + 1 /\ piece' = j
       \/ k = m /\ j < Len(Calls(c)) /\ piece' = j + 1 /\ op' = 1
       \/ k = m /\ j = Len(Calls(c)) /\ piece' = 0 /\ op' = 0
  BY <1>2, <1>3, <1>4, <1>5, <1>6 DEF Advance, Running
<1>12. CASE k < m /\ op' = k + 1 /\ piece' = j
  <2>1. ~Idle' BY <1>7, <1>12 DEF Idle
  <2>2. k + 1 \in 1 .. Len(Body(f)) BY <1>6, <1>7, <1>12
  <2>3. InCall'
    <3>1. piece' \in 1 .. Len(Calls(call')) /\ op' \in 1 .. Len(Body(Calls(call')[piece']))
      BY <1>2, <1>5, <1>7, <1>12, <2>2
    <3>2. IF Standard' THEN StandardAt(Calls(call)[piece], piece, op)'
                       ELSE LcdAt(Calls(call)[piece], piece, op)'
      BY <1>2, <1>5, <1>9, <1>10, <1>12
    <3>. QED BY <1>1, <3>1, <3>2 DEF InCall
  <2>. QED BY <2>1, <2>3
<1>13. CASE k = m /\ j < Len(Calls(c)) /\ piece' = j + 1 /\ op' = 1
  <2>1. ~Idle' BY <1>7, <1>13 DEF Idle
  <2>2. /\ Standard' => StandardAt(Calls(c)[j + 1], j + 1, 1)'
        /\ ~Standard' => LcdAt(Calls(c)[j + 1], j + 1, 1)'
    <3>1. j \in Nat \ {0} BY <1>7
    <3>. QED BY <1>1, <1>2, <1>5, <1>6, <1>9, <1>10, <1>13, <3>1, HandingNext DEF Hands
  <2>3. InCall'
    <3>1. piece' \in 1 .. Len(Calls(call')) BY <1>2, <1>7, <1>13
    <3>2. op' \in 1 .. Len(Body(Calls(call')[piece']))
      <4>1. j + 1 \in 1 .. Len(Calls(c)) BY <1>7, <1>13
      <4>2. 1 \in 1 .. Len(Body(Calls(c)[j + 1])) BY <1>1, <1>2, <4>1, BodyLen
      <4>. QED BY <1>2, <1>13, <4>2
    <3>3. IF Standard' THEN StandardAt(Calls(call)[piece], piece, op)'
                       ELSE LcdAt(Calls(call)[piece], piece, op)'
      BY <1>2, <1>13, <2>2
    <3>. QED BY <1>1, <3>1, <3>2, <3>3 DEF InCall
  <2>. QED BY <2>1, <2>3
<1>14. CASE k = m /\ j = Len(Calls(c)) /\ piece' = 0 /\ op' = 0
  <2>1. Idle' BY <1>14 DEF Idle
  <2>2. AtRest'
    <3>1. j \in Nat \ {0} BY <1>7
    <3>. QED BY <1>1, <1>2, <1>5, <1>6, <1>9, <1>10, <1>14, <3>1, HandingNext DEF Hands
  <2>. QED BY <2>1, <2>2
<1>. QED BY <1>11, <1>12, <1>13, <1>14

\* A call starts at its first function, from a bus at rest.
LEMMA CallStart ==
  ASSUME I2cInv, WriteByte \/ WriteData \/ ReadByte \/ ReadData \/ LcdReadData
  PROVE  (Idle => AtRest)' /\ (~Idle => InCall)'
<1>1. /\ Idle /\ IsCall(call') /\ piece' = 1 /\ op' = 1 /\ data' = 0 /\ pdata' = <<>> /\ bus' = <<>>
      /\ slave' = [slave EXCEPT !.sent = <<>>] /\ UNCHANGED <<pins, seen>>
  BY CallIs
<1>2. ~Idle' BY <1>1 DEF Idle
<1>3. slave \in SlaveState /\ Resting /\ Closed
  BY <1>1, TypeParts DEF I2cInv, Typed, AtRest
<1>4. PICK c : c = call' OBVIOUS
<1>5. IsCall(c) BY <1>1, <1>4
<1>6. Calls(c)[1] = Do("i2c_choice") /\ EventsBefore(c, 1) = 0 /\ StoredBefore(c, 1) = 0
  <2>1. Calls(c)[1] = Do("i2c_choice")
    <3>1. CASE c.len = 0 BY <1>5, <3>1, WriteCalls
    <3>2. CASE c.fn \in {"read_byte", "read_data"} BY <1>5, <3>2, ReadCalls
    <3>3. CASE c.fn = "lcd_read_data" BY <1>5, <3>3, LcdCalls
    <3>. QED BY <1>5, <3>1, <3>2, <3>3, CallFacts
  <2>. QED BY <2>1 DEF EventsBefore, StoredBefore
<1>7. ChoiceAt(1)'
  <2>1. Resting' BY <1>1, <1>3 DEF Resting, Out
  <2>2. slave'.role = slave.role /\ slave'.sda = slave.sda /\ slave'.sent = <<>>
    BY <1>1, <1>3 DEF SlaveState
  <2>3. Closed' BY <1>1, <1>3, <2>2 DEF Closed
  <2>4. Fresh' BY <1>1, <2>2 DEF Fresh
  <2>. QED BY <2>1, <2>3, <2>4 DEF ChoiceAt
<1>8. StandardAt(Do("i2c_choice"), 1, 1)' /\ LcdAt(Do("i2c_choice"), 1, 1)'
  <2>1. EventsBefore(call, 1)' = 0 /\ StoredBefore(call, 1)' = 0
    BY <1>4, <1>6 DEF EventsBefore, StoredBefore
  <2>2. Len(bus') = 0 /\ Len(pdata') = 0 BY <1>1
  <2>3. Logged(0)' BY <2>2 DEF Logged
  <2>4. EventAt(Do("i2c_choice")) = 30 BY DEF EventAt, Do
  <2>5. Logged(EventsBefore(call, 1) + IF 1 > 30 THEN 1 ELSE 0)' BY <2>1, <2>3
  <2>6. StandardAt(Do("i2c_choice"), 1, 1)'
    BY <1>7, <2>1, <2>2, <2>4, <2>5 DEF StandardAt, Do
  <2>7. LcdAt(Do("i2c_choice"), 1, 1)' BY <1>7 DEF LcdAt, Do
  <2>. QED BY <2>6, <2>7
<1>9. InCall'
  <2>1. 1 \in 1 .. Len(Calls(c)) BY <1>5, LenCalls
  <2>2. 1 \in 1 .. Len(Body(Calls(c)[1])) BY <1>5, <2>1, BodyLen
  <2>3. piece' \in 1 .. Len(Calls(call')) /\ op' \in 1 .. Len(Body(Calls(call')[piece']))
    BY <1>1, <1>4, <2>1, <2>2
  <2>4. StandardAt(Calls(call)[piece], piece, op)' /\ LcdAt(Calls(call)[piece], piece, op)'
    BY <1>1, <1>4, <1>6, <1>8
  <2>. QED BY <1>1, <2>3, <2>4 DEF InCall
<1>. QED BY <1>2, <1>9

\* The invariant holds at first, every step keeps it, and so it always holds.
LEMMA InvariantInit == I2cInit => I2cInv
<1> SUFFICES ASSUME I2cInit PROVE I2cInv OBVIOUS
<1>1. Idle BY DEF I2cInit, Idle
<1>2. Resting BY DEF I2cInit, Resting
<1>3. Closed BY DEF I2cInit, Closed
<1>4. ~Returned BY DEF I2cInit, Returned
<1>. QED BY <1>1, <1>2, <1>3, <1>4, TypedInit DEF I2cInv, AtRest

\* An operation, whichever of the three actions executes it.
LEMMA OperationIs ==
  ASSUME DrivePins \/ SampleBit \/ StoreByte
  PROVE  ~Idle /\ Does(Op) /\ Advance /\ UNCHANGED call
  BY DEF DrivePins, SampleBit, StoreByte, Does

LEMMA InvariantStep ==
  ASSUME I2cInv, [I2cNext]_i2cVars
  PROVE  I2cInv'
<1>1. Typed' BY TypeStep DEF I2cInv
<1> SUFFICES (Idle => AtRest)' /\ (~Idle => InCall)' BY <1>1 DEF I2cInv
<1>2. I2cTypeOK' BY <1>1 DEF Typed
<1>3. CASE WriteByte \/ WriteData \/ ReadByte \/ ReadData \/ LcdReadData BY <1>3, CallStart
<1>4. CASE DrivePins \/ SampleBit \/ StoreByte BY <1>2, <1>4, OperationIs, OperationStep
<1>5. CASE UNCHANGED i2cVars
  <2>1. UNCHANGED <<call, piece, op, pins, data, pdata, slave, seen, bus>> BY <1>5 DEF i2cVars
  <2>2. Idle' <=> Idle BY <2>1 DEF Idle
  <2>3. \A n : Logged(n) => Logged(n)' BY <2>1, LoggedStays
  <2>4. /\ Closed' <=> Closed
        /\ Resting' <=> Resting
        /\ Stored' <=> Stored
        /\ Standard' <=> Standard
        /\ Fresh' <=> Fresh
        /\ \A d : Ahead(d)' <=> Ahead(d)
    BY <2>1 DEF Closed, Resting, Out, Stored, Standard, Fresh, Ahead
  <2>5. AtRest => AtRest'
    BY <2>1, <2>2, <2>3, <2>4 DEF AtRest, Returned
  <2>6. /\ \A k : ChoiceAt(k)' <=> ChoiceAt(k)
        /\ \A k : StartAt(k)' <=> StartAt(k)
        /\ \A b, r, k : SendAt(b, r, k)' <=> SendAt(b, r, k)
        /\ \A k : RecvAt(k)' <=> RecvAt(k)
        /\ \A a, k : AckAt(a, k)' <=> AckAt(a, k)
        /\ \A k : StopAt(k)' <=> StopAt(k)
    <3>1. \A k : ChoiceAt(k)' <=> ChoiceAt(k) BY <2>1, <2>4 DEF ChoiceAt, Out
    <3>2. \A k : StartAt(k)' <=> StartAt(k) BY <2>1, <2>4 DEF StartAt, Out, Counts
    <3>3. Cur' = Cur BY <2>1 DEF Cur
    <3>4. \A m : SdaAfter(m)' = SdaAfter(m) BY <3>3 DEF SdaAfter
    <3>5. \A b, r, k : SendAt(b, r, k)' <=> SendAt(b, r, k)
      BY <2>1, <2>4, <3>4 DEF SendAt, Counts
    <3>6. \A k : RecvAt(k)' <=> RecvAt(k)
      BY <2>1, <2>4, <3>3, <3>4 DEF RecvAt, Counts, Out, Listening
    <3>7. \A a, k : AckAt(a, k)' <=> AckAt(a, k)
      BY <2>1, <2>4, <3>3 DEF AckAt, Counts, Out
    <3>8. \A k : StopAt(k)' <=> StopAt(k)
      BY <2>1, <2>4 DEF StopAt, Counts, Out
    <3>. QED BY <3>1, <3>2, <3>5, <3>6, <3>7, <3>8
  <2>7. /\ \A f, j, k : StandardAt(f, j, k) => StandardAt(f, j, k)'
        /\ \A f, j, k : LcdAt(f, j, k) => LcdAt(f, j, k)'
    <3>1. ASSUME NEW f, NEW j, NEW k, StandardAt(f, j, k) PROVE StandardAt(f, j, k)'
      <4>1. \A n : Logged(n) => Logged(n)' BY <2>3
      <4>2. Logged(EventsBefore(call, j) + IF k > EventAt(f) THEN 1 ELSE 0)
        BY <3>1 DEF StandardAt
      <4>3. Logged(EventsBefore(call, j) + IF k > EventAt(f) THEN 1 ELSE 0)'
        BY <2>1, <4>1, <4>2
      <4>. QED BY <2>1, <2>6, <3>1, <4>3 DEF StandardAt
    <3>2. \A i : LcdSendAt(i)' <=> LcdSendAt(i) BY <2>1 DEF LcdSendAt
    <3>3. \A i : LcdRecvAt(i)' <=> LcdRecvAt(i) BY <2>1 DEF LcdRecvAt
    <3>4. \A i : LcdAckAt(i)' <=> LcdAckAt(i) BY <2>1 DEF LcdAckAt, Out
    <3>5. \A i : LcdStopAt(i)' <=> LcdStopAt(i) BY <2>1, <2>4 DEF LcdStopAt, Out
    <3>6. \A f, j, k : LcdAt(f, j, k) => LcdAt(f, j, k)'
      BY <2>6, <3>2, <3>3, <3>4, <3>5 DEF LcdAt
    <3>. QED BY <3>1, <3>6
  <2>8. InCall => InCall'
    BY <2>1, <2>4, <2>6, <2>7 DEF InCall
  <2>. QED BY <2>2, <2>5, <2>8 DEF I2cInv
<1>. QED BY <1>3, <1>4, <1>5 DEF I2cNext

\* The inductive invariant, for any constants.
THEOREM I2cInvariance == I2cSpec => []I2cInv
BY InvariantInit, InvariantStep, PTL DEF I2cSpec

-----------------------------------------------------------------------------
(* The properties *)

\* The events of a transfer, one of them with what the observer may see.
Expected == [ev : {"S", "P", "byte"}, byte : Byte, ack : SUBSET {0, 1}]

LEMMA ExpectedFacts ==
  /\ Mark("S") \in Expected /\ Mark("P") \in Expected
  /\ \A b \in Byte : Clocked(b) \in Expected
  /\ \A i, len : pdata[i] \in Byte => Got(i, len) \in Expected
<1>1. 0 \in Byte BY DEF Byte
<1>2. {0} \in SUBSET {0, 1} /\ {0, 1} \in SUBSET {0, 1} OBVIOUS
<1>3. \A i, len : {IF i < len THEN 0 ELSE 1} \in SUBSET {0, 1} OBVIOUS
<1>4. /\ Mark("S") \in Expected /\ Mark("P") \in Expected
      /\ \A b \in Byte : Clocked(b) \in Expected
  BY <1>1, <1>2 DEF Mark, Clocked, Expected
<1>5. \A i, len : pdata[i] \in Byte => Got(i, len) \in Expected
  BY <1>3 DEF Got, Expected
<1>. QED BY <1>4, <1>5

\* Transfer, event by event.
LEMMA WriteTransfer ==
  ASSUME IsCall(call), call.len = 0
  PROVE  LET n == Len(call.bytes) + 4 IN
         /\ n \in Nat /\ Len(Transfer(call)) = n /\ DOMAIN Transfer(call) = 1 .. n
         /\ \A i \in 1 .. n : Transfer(call)[i] = EventOf(call, i)
<1> DEFINE m == Len(call.bytes)
           p == <<Mark("S"), Clocked(call.addr), Clocked(call.reg)>>
           q == [i \in DOMAIN call.bytes |-> Clocked(call.bytes[i])]
           r == <<Mark("P")>>
           t == p \o q \o r
<1>1. m \in Nat /\ DOMAIN call.bytes = 1 .. m /\ \A i \in 1 .. m : call.bytes[i] \in Byte
  BY CallFacts, LenProperties, ElementOfSeq
<1>2. /\ p \in Seq(Expected)
      /\ Len(p) = 3 /\ p[1] = Mark("S") /\ p[2] = Clocked(call.addr) /\ p[3] = Clocked(call.reg)
  <2>1. Mark("S") \in Expected /\ Clocked(call.addr) \in Expected /\ Clocked(call.reg) \in Expected
    BY CallFacts, ExpectedFacts
  <2>. QED BY <2>1
<1>3. q \in Seq(Expected) /\ Len(q) = m /\ \A i \in 1 .. m : q[i] = Clocked(call.bytes[i])
  <2>1. q = [i \in 1 .. m |-> Clocked(call.bytes[i])] BY <1>1
  <2>2. \A i \in 1 .. m : Clocked(call.bytes[i]) \in Expected BY <1>1, ExpectedFacts
  <2> HIDE DEF q, m
  <2>. QED BY <1>1, <2>1, <2>2
<1>4. r \in Seq(Expected) /\ Len(r) = 1 /\ r[1] = Mark("P")
  <2>1. Mark("P") \in Expected BY ExpectedFacts
  <2>. QED BY <2>1
<1>5. Transfer(call) = t
  <2>1. Transfer(call) = p \o (IF call.len = 0 THEN q
           ELSE <<Mark("S"), Clocked(call.addr + 1)>> \o [i \in 1 .. call.len |-> Got(i, call.len)]) \o r
    BY DEF Transfer
  <2>. QED BY <2>1
<1> HIDE DEF p, q, r
<1>6. /\ t \in Seq(Expected)
      /\ Len(t) = Len(p) + Len(q) + Len(r)
      /\ \A k \in 1 .. Len(p) + Len(q) + Len(r) :
           t[k] = IF k <= Len(p) THEN p[k]
                  ELSE IF k <= Len(p) + Len(q) THEN q[k - Len(p)]
                  ELSE r[k - (Len(p) + Len(q))]
  <2>1. p \in Seq(Expected) /\ q \in Seq(Expected) /\ r \in Seq(Expected) BY <1>2, <1>3, <1>4
  <2>. QED BY <2>1, InARow
<1> HIDE DEF t, m
<1>7. /\ Len(t) = m + 4
      /\ \A k \in 1 .. m + 4 :
           t[k] = IF k <= 3 THEN p[k] ELSE IF k <= m + 3 THEN q[k - 3] ELSE r[k - (m + 3)]
  BY <1>1, <1>2, <1>3, <1>4, <1>6
<1>8. m + 4 \in Nat /\ DOMAIN t = 1 .. m + 4
  <2>1. DOMAIN t = 1 .. Len(t) BY <1>6, LenProperties
  <2>. QED BY <1>1, <1>7, <2>1
<1>9. ASSUME NEW i \in 1 .. m + 4 PROVE t[i] = EventOf(call, i)
  <2>1. CASE i \in 1 .. 3
    <3>1. i \in 1 .. m + 4 /\ i <= 3 BY <1>1, <2>1
    <3>2. t[i] = p[i] BY <1>7, <3>1
    <3>. QED BY <1>2, <2>1, <3>2 DEF EventOf
  <2>2. CASE i > 3 /\ i <= m + 3
    <3>1. ~(i <= 3) /\ i - 3 \in 1 .. m BY <1>1, <2>2
    <3>2. t[i] = q[i - 3] BY <1>7, <2>2, <3>1
    <3>3. t[i] = Clocked(call.bytes[i - 3]) BY <1>3, <3>1, <3>2
    <3>4. i # 1 /\ i # 2 /\ i # 3 /\ i > 3 BY <2>2
    <3>. QED BY <2>2, <3>3, <3>4 DEF EventOf, m
  <2>3. CASE i = m + 4
    <3>1. ~(i <= 3) /\ ~(i <= m + 3) /\ i - (m + 3) = 1 BY <1>1, <2>3
    <3>2. t[i] = Mark("P") BY <1>4, <1>7, <3>1
    <3>3. i # 1 /\ i # 2 /\ i # 3 /\ i > 3 BY <1>1, <2>3
    <3>. QED BY <3>1, <3>2, <3>3 DEF EventOf, m
  <2>. QED BY <1>1, <2>1, <2>2, <2>3
<1>. QED BY <1>5, <1>7, <1>8, <1>9 DEF m

LEMMA ReadTransfer ==
  ASSUME I2cTypeOK, IsCall(call), call.len # 0, Len(pdata) = call.len
  PROVE  LET n == call.len + 6 IN
         /\ n \in Nat /\ Len(Transfer(call)) = n /\ DOMAIN Transfer(call) = 1 .. n
         /\ \A i \in 1 .. n : Transfer(call)[i] = EventOf(call, i)
<1> DEFINE m == call.len
           p == <<Mark("S"), Clocked(call.addr), Clocked(call.reg)>>
           a == <<Mark("S"), Clocked(call.addr + 1)>>
           b == [i \in 1 .. m |-> Got(i, m)]
           q == a \o b
           r == <<Mark("P")>>
           t == p \o q \o r
<1>1. m \in Nat \ {0} /\ \A i \in 1 .. m : pdata[i] \in Byte
  <2>1. m \in Nat \ {0} BY CallFacts
  <2>2. pdata \in Seq(Byte) BY TypeParts
  <2>. QED BY <2>1, <2>2, ElementOfSeq
<1>2. /\ p \in Seq(Expected)
      /\ Len(p) = 3 /\ p[1] = Mark("S") /\ p[2] = Clocked(call.addr) /\ p[3] = Clocked(call.reg)
  <2>1. Mark("S") \in Expected /\ Clocked(call.addr) \in Expected /\ Clocked(call.reg) \in Expected
    BY CallFacts, ExpectedFacts
  <2>. QED BY <2>1
<1>3. a \in Seq(Expected) /\ Len(a) = 2 /\ a[1] = Mark("S") /\ a[2] = Clocked(call.addr + 1)
  <2>1. Mark("S") \in Expected /\ Clocked(call.addr + 1) \in Expected
    BY CallFacts, ExpectedFacts
  <2>. QED BY <2>1
<1>4. b \in Seq(Expected) /\ Len(b) = m /\ \A i \in 1 .. m : b[i] = Got(i, m)
  <2>1. \A i \in 1 .. m : Got(i, m) \in Expected BY <1>1, ExpectedFacts
  <2> HIDE DEF m
  <2>. QED BY <1>1, <2>1
<1>5. r \in Seq(Expected) /\ Len(r) = 1 /\ r[1] = Mark("P")
  <2>1. Mark("P") \in Expected BY ExpectedFacts
  <2>. QED BY <2>1
<1>6. Transfer(call) = t
  <2>1. Transfer(call) = p \o (IF m = 0 THEN [i \in DOMAIN call.bytes |-> Clocked(call.bytes[i])]
                               ELSE q) \o r
    BY DEF Transfer
  <2>. QED BY <2>1
<1> HIDE DEF p, a, b, r
<1>7. /\ q \in Seq(Expected) /\ Len(q) = Len(a) + Len(b)
      /\ \A k \in 1 .. Len(a) + Len(b) : q[k] = IF k <= Len(a) THEN a[k] ELSE b[k - Len(a)]
  BY <1>3, <1>4, ConcatProperties
<1> HIDE DEF q
<1>8. /\ t \in Seq(Expected)
      /\ Len(t) = Len(p) + Len(q) + Len(r)
      /\ \A k \in 1 .. Len(p) + Len(q) + Len(r) :
           t[k] = IF k <= Len(p) THEN p[k]
                  ELSE IF k <= Len(p) + Len(q) THEN q[k - Len(p)]
                  ELSE r[k - (Len(p) + Len(q))]
  <2>1. p \in Seq(Expected) /\ q \in Seq(Expected) /\ r \in Seq(Expected) BY <1>2, <1>5, <1>7
  <2>. QED BY <2>1, InARow
<1> HIDE DEF t, m
<1>9. Len(q) = m + 2 /\ \A k \in 1 .. m + 2 : q[k] = IF k <= 2 THEN a[k] ELSE b[k - 2]
  BY <1>1, <1>3, <1>4, <1>7
<1>10. /\ Len(t) = m + 6
       /\ \A k \in 1 .. m + 6 :
            t[k] = IF k <= 3 THEN p[k] ELSE IF k <= m + 5 THEN q[k - 3] ELSE r[k - (m + 5)]
  BY <1>1, <1>2, <1>5, <1>8, <1>9
<1>11. m + 6 \in Nat /\ DOMAIN t = 1 .. m + 6
  <2>1. DOMAIN t = 1 .. Len(t) BY <1>8, LenProperties
  <2>. QED BY <1>1, <1>10, <2>1
<1>12. ASSUME NEW i \in 1 .. m + 6 PROVE t[i] = EventOf(call, i)
  <2>0. call.len = m /\ m > 0 BY <1>1 DEF m
  <2>1. CASE i \in 1 .. 3
    <3>1. i \in 1 .. m + 6 /\ i <= 3 BY <1>1, <2>1
    <3>2. t[i] = p[i] BY <1>10, <3>1
    <3>. QED BY <1>2, <2>1, <3>2 DEF EventOf
  <2>2. CASE i \in 4 .. 5
    <3>1. ~(i <= 3) /\ i <= m + 5 /\ i - 3 \in 1 .. m + 2 /\ i - 3 <= 2 BY <1>1, <2>2
    <3>2. t[i] = q[i - 3] BY <1>10, <3>1
    <3>3. t[i] = a[i - 3] BY <1>9, <3>1, <3>2
    <3>4. CASE i = 4
      <4>1. t[i] = Mark("S") BY <1>3, <3>3, <3>4
      <4>. QED BY <2>0, <3>4, <4>1 DEF EventOf
    <3>5. CASE i = 5
      <4>1. t[i] = Clocked(call.addr + 1) BY <1>3, <3>3, <3>5
      <4>. QED BY <2>0, <3>5, <4>1 DEF EventOf
    <3>. QED BY <2>2, <3>4, <3>5
  <2>3. CASE i > 5 /\ i <= m + 5
    <3>1. /\ ~(i <= 3) /\ i - 3 \in 1 .. m + 2 /\ ~(i - 3 <= 2)
          /\ (i - 3) - 2 = i - 5 /\ i - 5 \in 1 .. m
      BY <1>1, <2>3
    <3>2. t[i] = q[i - 3] BY <1>10, <2>3, <3>1
    <3>3. t[i] = Got(i - 5, m) BY <1>4, <1>9, <3>1, <3>2
    <3>4. i # 1 /\ i # 2 /\ i # 3 /\ i # 4 /\ i # 5 /\ m # 0 BY <1>1, <2>3
    <3>. QED BY <2>0, <2>3, <3>3, <3>4 DEF EventOf
  <2>4. CASE i = m + 6
    <3>1. ~(i <= 3) /\ ~(i <= m + 5) /\ i - (m + 5) = 1 BY <1>1, <2>4
    <3>2. t[i] = Mark("P") BY <1>5, <1>10, <3>1
    <3>3. i # 1 /\ i # 2 /\ i # 3 /\ i # 4 /\ i # 5 /\ i > 5 /\ m # 0 BY <1>1, <2>4
    <3>. QED BY <2>0, <3>1, <3>2, <3>3 DEF EventOf
  <2>. QED BY <1>1, <2>1, <2>2, <2>3, <2>4
<1>. QED BY <1>6, <1>10, <1>11, <1>12 DEF m

\* What the invariant says when a function has returned.
LEMMA ReturnedCall ==
  ASSUME I2cInv, Returned
  PROVE  I2cTypeOK /\ IsCall(call) /\ AtRest
BY DEF I2cInv, Typed, Returned

\* For any addresses, registers, bytes and lengths, and whatever the slave
\* answers: when gpio_i2c_write_byte, _write_data, _read_byte or _read_data
\* has returned, the two lines have shown exactly the transfer it stands for.
THEOREM BusShowsTheTransfer == I2cSpec => []BusShowsTransfer
<1>1. I2cInv => BusShowsTransfer
  <2> SUFFICES ASSUME I2cInv, Returned, Standard PROVE BusShowsTransfer BY DEF BusShowsTransfer
  <2>1. I2cTypeOK /\ IsCall(call) /\ AtRest BY ReturnedCall
  <2> DEFINE n == IF call.len = 0 THEN Len(call.bytes) + 4 ELSE call.len + 6
             t == Transfer(call)
  <2>2. Logged(n) /\ Len(pdata) = call.len BY <2>1 DEF AtRest
  <2>3. Len(t) = n /\ DOMAIN t = 1 .. n /\ \A i \in 1 .. n : t[i] = EventOf(call, i)
    <3>1. CASE call.len = 0 BY <2>1, <3>1, WriteTransfer
    <3>2. CASE call.len # 0 BY <2>1, <2>2, <3>2, ReadTransfer
    <3>. QED BY <3>1, <3>2
  <2> HIDE DEF n, t
  <2>4. Len(bus) = Len(t) BY <2>2, <2>3 DEF Logged
  <2>5. \A i \in DOMAIN t : bus[i].ev = t[i].ev /\ bus[i].byte = t[i].byte /\ bus[i].ack \in t[i].ack
    BY <2>2, <2>3 DEF Logged, Shows
  <2>. QED BY <2>4, <2>5 DEF BusShowsTransfer, t
<1>. QED BY <1>1, I2cInvariance, PTL

\* The bytes stored by gpio_i2c_read_byte and _read_data are those the slave
\* sent, bit for bit and in order, or 0xFF throughout when none sent any.
THEOREM ReadsStoreWhatIsSent == I2cSpec => []ReadStoresSlaveBytes
<1>1. I2cInv => ReadStoresSlaveBytes
  <2> SUFFICES ASSUME I2cInv, Returned, Standard PROVE ReadStoresSlaveBytes
    BY DEF ReadStoresSlaveBytes
  <2>1. I2cTypeOK /\ IsCall(call) /\ AtRest BY ReturnedCall
  <2>2. /\ Stored /\ Len(pdata) = call.len
        /\ slave.sent = <<>> \/ Len(slave.sent) = Len(pdata)
    BY <2>1 DEF AtRest
  <2>3. pdata \in Seq(Byte) /\ slave.sent \in Seq(Byte) BY <2>1, TypeParts DEF SlaveState
  <2>4. /\ call.len \in Nat
        /\ pdata = [i \in 1 .. call.len |-> pdata[i]]
        /\ slave.sent = [i \in 1 .. Len(slave.sent) |-> slave.sent[i]]
    <3>1. \A s \in Seq(Byte) : s = [i \in 1 .. Len(s) |-> s[i]] OBVIOUS
    <3>. QED BY <2>1, <2>2, <2>3, <3>1, CallFacts
  <2>5. CASE slave.sent = <<>>
    <3>1. \A i \in 1 .. call.len : pdata[i] = 255 BY <2>2, <2>5 DEF Stored
    <3>2. pdata = [i \in 1 .. call.len |-> 255] BY <2>4, <3>1
    <3>. QED BY <2>5, <3>2 DEF ReadStoresSlaveBytes
  <2>6. CASE slave.sent # <<>>
    <3>1. \A i \in 1 .. call.len : pdata[i] = slave.sent[i] BY <2>2, <2>6 DEF Stored
    <3>2. Len(slave.sent) = call.len BY <2>2, <2>6
    <3>3. pdata = slave.sent BY <2>4, <3>1, <3>2
    <3>. QED BY <2>6, <3>3 DEF ReadStoresSlaveBytes
  <2>. QED BY <2>5, <2>6
<1>. QED BY <1>1, I2cInvariance, PTL

\* Master and slave never drive SDA against each other while SCL is high.
THEOREM NeverContention == I2cSpec => []NoContention
<1>1. I2cInv => NoContention
  <2> SUFFICES ASSUME I2cInv, Standard, Scl(pins) = 1, "SDA" \in pins.out, pins.sda = 1
               PROVE  slave.sda = 1
    BY DEF NoContention
  <2>1. CASE Idle BY <2>1 DEF I2cInv, AtRest, Closed
  <2>2. CASE ~Idle
    <3>1. PICK f, j, k : f = Calls(call)[piece] /\ j = piece /\ k = op OBVIOUS
    <3>2. IsCall(call) /\ j \in 1 .. Len(Calls(call)) /\ k \in 1 .. Len(Body(f))
          /\ StandardAt(f, j, k)
      BY <2>2, <3>1 DEF I2cInv, InCall
    <3>3. "SCL" \in pins.out => pins.scl = 1 BY DEF Scl
    <3>4. \/ f \in {Do("i2c_choice"), Do("start"), Do("recv_byte"), Do("stop")}
          \/ \E b : f = Send(b) \/ f = Ack(b)
      <4>1. Place(call, j) BY <3>2, Places DEF Standard
      <4>2. \A g, n, s : At(call, j, g, n, s) => g = f BY <3>1 DEF At
      <4>. QED BY <4>1, <4>2 DEF Place
    <3>5. CASE f = Do("i2c_choice")
      <4>1. ChoiceAt(k) BY <3>2, <3>5, Reads
      <4>. QED BY <4>1 DEF ChoiceAt, Closed
    <3>6. CASE f = Do("start")
      <4>1. StartAt(k) BY <3>2, <3>6, Reads
      <4>. QED BY <4>1 DEF StartAt
    <3>7. CASE f = Do("stop")
      <4>1. StopAt(k) BY <3>2, <3>7, Reads
      <4>. QED BY <4>1 DEF StopAt
    <3>8. ASSUME NEW a, f = Ack(a) PROVE slave.sda = 1
      <4>1. AckAt(a, k) BY <3>2, <3>8, ReadsAck
      <4>. QED BY <4>1 DEF AckAt
    <3>9. ASSUME NEW b, f = Send(b) PROVE slave.sda = 1
      <4>1. SendAt(b, RoleOf(call, j), k) BY <3>2, <3>9, ReadsSend
      <4>2. k \in 1 .. 29
        <5>1. Len(Body(f)) = Len(Body(Send(b))) BY <3>9
        <5>2. Len(Body(f)) = 29 BY <5>1, Lengths
        <5>. QED BY <3>2, <5>2
      <4>3. /\ "SCL" \in pins.out
            /\ k \notin 27 .. 29
            /\ k < 26 => slave.sda = 1
            /\ k = 26 => pins.scl = 0
        BY <4>1 DEF SendAt
      <4>. QED BY <3>3, <4>2, <4>3
    <3>10. CASE f = Do("recv_byte")
      <4>1. RecvAt(k) BY <3>2, <3>10, Reads
      <4>2. k \in 1 .. 29
        <5>1. Len(Body(f)) = Len(Body(Do("recv_byte"))) BY <3>10
        <5>2. Len(Body(f)) = 29 BY <5>1, Lengths
        <5>. QED BY <3>2, <5>2
      <4>3. /\ k \in 1 .. 3 => "SCL" \in pins.out
            /\ k = 1 => pins.scl = 0 \/ slave.sda = 1
            /\ k \in 2 .. 3 => pins.scl = 0
            /\ k \notin 4 .. 28
            /\ k = 29 => slave.sda = 1
        BY <4>1 DEF RecvAt, Out, Listening
      <4>. QED BY <3>3, <4>2, <4>3
    <3>. QED BY <3>4, <3>5, <3>6, <3>7, <3>8, <3>9, <3>10
  <2>. QED BY <2>1, <2>2
<1>. QED BY <1>1, I2cInvariance, PTL

\* Every function, the one for the LCD included, leaves both lines high, no
\* transfer open and the slave released, so that the next one can start.
THEOREM BusIdle == I2cSpec => []BusIdleOnReturn
<1>1. I2cInv => BusIdleOnReturn
  <2> SUFFICES ASSUME I2cInv, Returned PROVE BusIdleOnReturn BY DEF BusIdleOnReturn
  <2>1. I2cTypeOK /\ Resting /\ Closed BY ReturnedCall DEF AtRest
  <2>2. Scl(pins) = 1 BY <2>1 DEF Resting, Scl
  <2>3. Sda(pins, slave) = 1 BY <2>1 DEF Resting, Closed, Sda
  <2>. QED BY <2>1, <2>2, <2>3 DEF BusIdleOnReturn, Closed
<1>. QED BY <1>1, I2cInvariance, PTL
=============================================================================
