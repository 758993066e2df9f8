--------------------------- MODULE IpzLayoutProofs ---------------------------
(***************************************************************************)
(* What the operators of IpzRecord find in an EEPROM that was programmed   *)
(* as IpzUpdate says, whatever was written since to the data of its        *)
(* keywords and to its ECCs.  The recursive functions of the model are     *)
(* defined by their equations, which is shown by induction; the induction  *)
(* itself is taken from the least element of a set of numbers.             *)
(***************************************************************************)
EXTENDS IpzUpdate, WellFoundedInduction, SequenceTheorems, TLAPS

-----------------------------------------------------------------------------
(* Induction, and functions that are defined by recursion.                 *)

LEMMA Induction ==
  ASSUME NEW G, 0 \in G, \A n \in Nat : n \in G => n + 1 \in G
  PROVE  Nat \subseteq G
<1> DEFINE Less == OpToRel(<, Nat)
<1>1. IsWellFoundedOn(Less, Nat)
  BY NatLessThanWellFounded
<1> SUFFICES ASSUME Nat \ G # {}
             PROVE  FALSE
  OBVIOUS
<1>2. Nat \ G \subseteq Nat
  OBVIOUS
<1> HIDE DEF Less
<1>3. PICK m \in Nat \ G : \A k \in Nat \ G : ~ (<<k, m>> \in Less)
  BY <1>1, <1>2, WFMin
<1>4. m # 0 /\ m - 1 \in Nat /\ m \in Nat
  BY <1>3
<1>5. m - 1 \in G => m \in G
  BY <1>4
<1>6. <<m - 1, m>> \in Less
  BY <1>4 DEF Less, OpToRel
<1> QED
  BY <1>3, <1>4, <1>5, <1>6

LEMMA WalkDef ==
  ASSUME NEW mem, Len(mem) \in Nat, NEW p
  PROVE  Walk(mem, p) =
           [i \in 0 .. Len(mem) |->
              IF i = 0 THEN p ELSE NextKeyword(mem, Walk(mem, p)[i - 1])]
<1> DEFINE Body(f, n) ==
      [i \in 0 .. n |-> IF i = 0 THEN p ELSE NextKeyword(mem, f[i - 1])]
    G == {n \in Nat : \E f : f = Body(f, n)}
<1>1. 0 \in G
  <2> DEFINE f == [i \in 0 .. 0 |-> p]
  <2>1. f = Body(f, 0)
    OBVIOUS
  <2> QED
    BY <2>1
<1>2. ASSUME NEW n \in Nat, n \in G
      PROVE  n + 1 \in G
  <2>1. PICK f : f = Body(f, n)
    BY <1>2
  <2> DEFINE g == [i \in 0 .. n + 1 |->
                     IF i <= n THEN f[i] ELSE NextKeyword(mem, f[n])]
  <2>2. g = Body(g, n + 1)
    BY <2>1
  <2> HIDE DEF g
  <2> QED
    BY <2>2
<1> HIDE DEF G
<1>3. Len(mem) \in G
  BY <1>1, <1>2, Induction
<1>4. \E f : f = Body(f, Len(mem))
  BY <1>3 DEF G
<1> QED
  BY <1>4 DEF Walk

(* Concatenation, for the provers an operator they know nothing of.        *)
Join(s, t) == s \o t

LEMMA PrefixesDef ==
  ASSUME NEW ss, Len(ss) \in Nat
  PROVE  /\ Prefixes(ss)[0] = <<>>
         /\ \A i \in 1 .. Len(ss) :
              Prefixes(ss)[i] = Join(Prefixes(ss)[i - 1], ss[i])
<1> DEFINE Body(f, n) ==
      [i \in 0 .. n |-> IF i = 0 THEN <<>> ELSE Join(f[i - 1], ss[i])]
    G == {n \in Nat : \E f : f = Body(f, n)}
<1>1. 0 \in G
  <2> DEFINE f == [i \in 0 .. 0 |-> <<>>]
  <2>1. f = Body(f, 0)
    OBVIOUS
  <2> QED
    BY <2>1
<1>2. ASSUME NEW n \in Nat, n \in G
      PROVE  n + 1 \in G
  <2>1. PICK f : f = Body(f, n)
    BY <1>2
  <2> DEFINE g == [i \in 0 .. n + 1 |->
                     IF i <= n THEN f[i] ELSE Join(f[n], ss[n + 1])]
  <2>2. g = Body(g, n + 1)
    BY <2>1
  <2> HIDE DEF g
  <2> QED
    BY <2>2
<1> HIDE DEF G
<1>3. Len(ss) \in G
  BY <1>1, <1>2, Induction
<1>4. \E f : f = Body(f, Len(ss))
  BY <1>3 DEF G
<1>5. Prefixes(ss) = CHOOSE f : f = Body(f, Len(ss))
  BY DEF Prefixes, Join
<1>6. Prefixes(ss) = Body(Prefixes(ss), Len(ss))
  BY <1>4, <1>5
<1> QED
  BY <1>6

-----------------------------------------------------------------------------
(* The prefixes of a sequence of sequences.                                *)

(* u consists of s and t.                                                  *)
Joined(s, t, u) ==
  /\ Len(s) \in Nat
  /\ Len(t) \in Nat
  /\ Len(u) = Len(s) + Len(t)
  /\ \A q \in 1 .. Len(s) : u[q] = s[q]
  /\ \A q \in 1 .. Len(t) : u[Len(s) + q] = t[q]

LEMMA JoinType ==
  ASSUME NEW S, NEW s \in Seq(S), NEW t \in Seq(S)
  PROVE  Join(s, t) \in Seq(S) /\ Joined(s, t, Join(s, t))
BY DEF Join, Joined

LEMMA PrefixesType ==
  ASSUME NEW S, NEW ss \in Seq(Seq(S))
  PROVE  /\ Len(ss) \in Nat
         /\ \A i \in 0 .. Len(ss) : Prefixes(ss)[i] \in Seq(S)
         /\ \A i \in 1 .. Len(ss) :
              /\ ss[i] \in Seq(S)
              /\ Prefixes(ss)[i] = Join(Prefixes(ss)[i - 1], ss[i])
<1> DEFINE P == Prefixes(ss)
    n == Len(ss)
<1>1. n \in Nat /\ \A i \in 1 .. n : ss[i] \in Seq(S)
  OBVIOUS
<1>2. P[0] = <<>> /\ \A i \in 1 .. n : P[i] = Join(P[i - 1], ss[i])
  BY <1>1, PrefixesDef
<1>3. P[0] \in Seq(S)
  BY <1>2
<1> HIDE DEF P, n
<1> DEFINE G == {i \in Nat : i <= n => P[i] \in Seq(S)}
<1>5. 0 \in G
  BY <1>3
<1>6. ASSUME NEW i \in Nat, i \in G
      PROVE  i + 1 \in G
  <2> SUFFICES ASSUME i + 1 <= n
               PROVE  P[i + 1] \in Seq(S)
    OBVIOUS
  <2>1. P[i] \in Seq(S) /\ i + 1 \in 1 .. n
    BY <1>1, <1>6
  <2>2. P[i + 1] = Join(P[i], ss[i + 1]) /\ ss[i + 1] \in Seq(S)
    BY <1>1, <1>2, <2>1
  <2> QED
    BY <2>1, <2>2, JoinType
<1> HIDE DEF G
<1>7. Nat \subseteq G
  BY <1>5, <1>6, Induction
<1>8. \A i \in 0 .. n : P[i] \in Seq(S)
  BY <1>1, <1>7 DEF G
<1> QED
  BY <1>1, <1>2, <1>8 DEF P, n

LEMMA PrefixesCells ==
  ASSUME NEW S, NEW ss \in Seq(Seq(S)), NEW i \in 1 .. Len(ss),
         NEW j \in i .. Len(ss)
  PROVE  /\ Len(Prefixes(ss)[i - 1]) \in Nat
         /\ Len(ss[i]) \in Nat
         /\ Len(Prefixes(ss)[j]) \in Nat
         /\ Len(Prefixes(ss)[i]) = Len(Prefixes(ss)[i - 1]) + Len(ss[i])
         /\ Len(Prefixes(ss)[i]) <= Len(Prefixes(ss)[j])
         /\ \A q \in 1 .. Len(ss[i]) :
              Prefixes(ss)[j][Len(Prefixes(ss)[i - 1]) + q] = ss[i][q]
<1> DEFINE P == Prefixes(ss)
    n == Len(ss)
<1>1. /\ n \in Nat
      /\ \A k \in 0 .. n : P[k] \in Seq(S)
      /\ \A k \in 1 .. n : ss[k] \in Seq(S) /\ P[k] = Join(P[k - 1], ss[k])
  BY PrefixesType
<1>2. i \in 1 .. n /\ j \in i .. n
  OBVIOUS
<1> HIDE DEF P, n
<1>3. P[i - 1] \in Seq(S) /\ ss[i] \in Seq(S) /\ P[i] = Join(P[i - 1], ss[i])
  BY <1>1, <1>2
<1> DEFINE L(k) == Len(P[k])
    M(k) == Len(ss[k])
    Same(k) == \A q \in 1 .. L(i) : P[k][q] = P[i][q]
<1>4. \A k \in 1 .. n :
        /\ L(k - 1) \in Nat /\ L(k) \in Nat /\ M(k) \in Nat
        /\ L(k) = L(k - 1) + M(k)
        /\ \A q \in 1 .. L(k - 1) : P[k][q] = P[k - 1][q]
        /\ \A q \in 1 .. M(k) : P[k][L(k - 1) + q] = ss[k][q]
  <2> TAKE k \in 1 .. n
  <2>1. P[k - 1] \in Seq(S) /\ ss[k] \in Seq(S) /\ P[k] = Join(P[k - 1], ss[k])
    BY <1>1
  <2>2. Joined(P[k - 1], ss[k], P[k])
    BY <2>1, JoinType
  <2>3. /\ Len(P[k - 1]) \in Nat
        /\ Len(ss[k]) \in Nat
        /\ Len(P[k]) = Len(P[k - 1]) + Len(ss[k])
        /\ \A q \in 1 .. Len(P[k - 1]) : P[k][q] = P[k - 1][q]
        /\ \A q \in 1 .. Len(ss[k]) : P[k][Len(P[k - 1]) + q] = ss[k][q]
    BY <2>2 DEF Joined
  <2> HIDE DEF L, M
  <2>4. /\ L(k - 1) \in Nat /\ M(k) \in Nat
        /\ L(k) = L(k - 1) + M(k)
        /\ \A q \in 1 .. L(k - 1) : P[k][q] = P[k - 1][q]
        /\ \A q \in 1 .. M(k) : P[k][L(k - 1) + q] = ss[k][q]
    BY <2>3 DEF L, M
  <2> QED
    BY <2>4
<1> HIDE DEF L, M
<1> DEFINE G == {m \in Nat : i + m <= n => L(i) <= L(i + m) /\ Same(i + m)}
<1>5. 0 \in G
  <2>1. i + 0 = i /\ L(i) \in Nat
    BY <1>1, <1>2, <1>4
  <2> QED
    BY <2>1
<1>6. ASSUME NEW m \in Nat, m \in G
      PROVE  m + 1 \in G
  <2>0. m + 1 \in Nat /\ i + (m + 1) = i + m + 1
    BY <1>2
  <2> HIDE DEF Same
  <2> SUFFICES ASSUME i + m + 1 <= n
               PROVE  L(i) <= L(i + m + 1) /\ Same(i + m + 1)
    BY <2>0
  <2> USE DEF Same
  <2>1. i + m \in 0 .. n /\ i + m + 1 \in 1 .. n /\ i + m + 1 - 1 = i + m
    BY <1>1, <1>2
  <2>2. L(i) <= L(i + m) /\ Same(i + m)
    BY <1>1, <1>2, <1>6
  <2>3. L(i) \in Nat
    BY <1>2, <1>4
  <2> HIDE DEF G
  <2>4. /\ L(i + m) \in Nat /\ M(i + m + 1) \in Nat
        /\ L(i + m + 1) = L(i + m) + M(i + m + 1)
        /\ \A q \in 1 .. L(i + m) : P[i + m + 1][q] = P[i + m][q]
    BY <1>4, <2>1
  <2> QED
    BY <2>2, <2>3, <2>4
<1> HIDE DEF G
<1>7. j - i \in Nat /\ j - i \in G
  <2>1. j - i \in Nat
    BY <1>1, <1>2
  <2>2. Nat \subseteq G
    BY <1>5, <1>6, Induction
  <2> QED
    BY <2>1, <2>2
<1>8. L(i) <= L(j) /\ Same(j)
  BY <1>1, <1>2, <1>7 DEF G
<1>9. L(j) \in Nat
  BY <1>1, <1>2, <1>4
<1>10. /\ L(i - 1) \in Nat /\ L(i) \in Nat /\ M(i) \in Nat
       /\ L(i) = L(i - 1) + M(i)
       /\ \A q \in 1 .. M(i) : P[i][L(i - 1) + q] = ss[i][q]
  BY <1>2, <1>4
<1>11. \A q \in 1 .. M(i) : P[j][L(i - 1) + q] = ss[i][q]
  <2> TAKE q \in 1 .. M(i)
  <2>1. L(i - 1) + q \in 1 .. L(i)
    BY <1>10
  <2> QED
    BY <2>1, <1>8, <1>10
<1> QED
  BY <1>8, <1>9, <1>10, <1>11 DEF P, L, M

-----------------------------------------------------------------------------
(* One record.                                                             *)

(* The cells of its keywords.                                              *)
Parts(ks) == [k \in DOMAIN ks |-> KeywordCells(ks[k])]

(* Where in the record the name of a keyword is; PF is behind the last one. *)
NamePlace(ks, k) == 5 + Len(Prefixes(Parts(ks))[k - 1])

(* Cells of a keyword before its data.                                     *)
Header(n) == IF n \in Pound THEN 3 ELSE 2

(* Keywords whose names and data are of some set of cells.                 *)
IsKeywords(S, ks) ==
  /\ Nat \cup {Id, RT, PF} \subseteq S
  /\ Len(ks) \in Nat
  /\ DOMAIN ks = 1 .. Len(ks)
  /\ \A k \in 1 .. Len(ks) : ks[k].name \in S /\ ks[k].data \in Seq(S)

(* A record at p, all but its data.                                        *)
KeywordAt(mem, p, k) ==
  /\ mem[p] = k.name
  /\ mem[p + 1] = Len(k.data) % ByteSize
  /\ k.name \in Pound => mem[p + 2] = Len(k.data) \div ByteSize

LEMMA KeywordCellsFacts ==
  ASSUME NEW S, Nat \subseteq S, NEW k, k.name \in S, k.data \in Seq(S)
  PROVE  /\ KeywordCells(k) \in Seq(S)
         /\ Len(k.data) \in Nat
         /\ Len(KeywordCells(k)) = Header(k.name) + Len(k.data)
         /\ KeywordAt(KeywordCells(k), 1, k)
         /\ \A q \in 1 .. Len(k.data) :
              KeywordCells(k)[Header(k.name) + q] = k.data[q]
<1> DEFINE d == k.data
    n == k.name
    low == Len(d) % ByteSize
    high == Len(d) \div ByteSize
    h == IF n \in Pound THEN <<n, low, high>> ELSE <<n, low>>
<1>1. d \in Seq(S) /\ n \in S /\ Len(d) \in Nat
  OBVIOUS
<1>2. KeywordCells(k) = Join(h, d)
  BY DEF KeywordCells, Join
<1>3. ByteSize \in Nat \ {0}
  BY IpzAssumption DEF IpzAssumption
<1> HIDE DEF d, n
<1>4. low \in Nat /\ high \in Nat
  BY <1>1, <1>3
<1> HIDE DEF low, high
<1>5. CASE n \in Pound
  <2>1. h = <<n, low, high>>
    BY <1>5
  <2>2. /\ h \in Seq(S) /\ Len(h) = 3
        /\ h[1] = n /\ h[2] = low /\ h[3] = high
    BY <1>1, <1>4, <2>1
  <2> HIDE DEF h
  <2>3. Join(h, d) \in Seq(S) /\ Joined(h, d, Join(h, d))
    BY <1>1, <2>2, JoinType
  <2>4. /\ Len(KeywordCells(k)) = 3 + Len(d)
        /\ KeywordCells(k)[1] = n
        /\ KeywordCells(k)[1 + 1] = low
        /\ KeywordCells(k)[1 + 2] = high
        /\ \A q \in 1 .. Len(d) : KeywordCells(k)[3 + q] = d[q]
    BY <1>2, <2>2, <2>3 DEF Joined
  <2> QED
    BY <1>1, <1>2, <1>5, <2>3, <2>4 DEF Header, KeywordAt, d, n, low, high
<1>6. CASE n \notin Pound
  <2>1. h = <<n, low>>
    BY <1>6
  <2>2. /\ h \in Seq(S) /\ Len(h) = 2
        /\ h[1] = n /\ h[2] = low
    BY <1>1, <1>4, <2>1
  <2> HIDE DEF h
  <2>3. Join(h, d) \in Seq(S) /\ Joined(h, d, Join(h, d))
    BY <1>1, <2>2, JoinType
  <2>4. /\ Len(KeywordCells(k)) = 2 + Len(d)
        /\ KeywordCells(k)[1] = n
        /\ KeywordCells(k)[1 + 1] = low
        /\ \A q \in 1 .. Len(d) : KeywordCells(k)[2 + q] = d[q]
    BY <1>2, <2>2, <2>3 DEF Joined
  <2> QED
    BY <1>1, <1>2, <1>6, <2>3, <2>4 DEF Header, KeywordAt, d, n, low, high
<1> QED
  BY <1>5, <1>6

LEMMA PartsType ==
  ASSUME NEW S, NEW ks, IsKeywords(S, ks)
  PROVE  /\ Parts(ks) \in Seq(Seq(S))
         /\ Len(Parts(ks)) = Len(ks)
         /\ \A k \in 1 .. Len(ks) : Parts(ks)[k] = KeywordCells(ks[k])
<1> DEFINE n == Len(ks)
<1>1. n \in Nat /\ Parts(ks) = [k \in 1 .. n |-> KeywordCells(ks[k])]
  BY DEF IsKeywords, Parts
<1>2. ASSUME NEW k \in 1 .. n
      PROVE  KeywordCells(ks[k]) \in Seq(S)
  <2>1. ks[k].name \in S /\ ks[k].data \in Seq(S) /\ Nat \subseteq S
    BY DEF IsKeywords
  <2> QED
    BY <2>1, KeywordCellsFacts
<1> HIDE DEF n
<1>3. Parts(ks) \in [1 .. n -> Seq(S)]
  BY <1>1, <1>2
<1>4. Parts(ks) \in Seq(Seq(S)) /\ Len(Parts(ks)) = n
  BY <1>1, <1>3
<1> QED
  BY <1>1, <1>4 DEF n

(* The names of the keywords of a record stand in their order, each behind *)
(* the data of the one before it.                                          *)
LEMMA PlaceFacts ==
  ASSUME NEW S, NEW ks, IsKeywords(S, ks)
  PROVE  /\ Len(ks) \in Nat
         /\ NamePlace(ks, 1) = 5
         /\ \A k \in 1 .. Len(ks) + 1 :
              NamePlace(ks, k) \in Nat /\ NamePlace(ks, k) >= 4 + k
         /\ \A k \in 1 .. Len(ks) :
              /\ ks[k].name \in S /\ ks[k].data \in Seq(S)
              /\ Len(ks[k].data) \in Nat
              /\ Header(ks[k].name) \in {2, 3}
              /\ NamePlace(ks, k + 1) =
                   NamePlace(ks, k) + Header(ks[k].name) + Len(ks[k].data)
              /\ \A l \in k + 1 .. Len(ks) + 1 :
                   NamePlace(ks, k + 1) <= NamePlace(ks, l)
<1> DEFINE n == Len(ks)
    P(k) == Len(Prefixes(Parts(ks))[k])
<1>1. n \in Nat /\ Nat \subseteq S
  BY DEF IsKeywords
<1>2. P(0) = 0
  <2>1. Prefixes(Parts(ks))[0] = <<>>
    BY PartsType, PrefixesDef, <1>1
  <2> QED
    BY <2>1
<1>3. ASSUME NEW k \in 1 .. n
      PROVE  /\ ks[k].name \in S /\ ks[k].data \in Seq(S)
             /\ Len(ks[k].data) \in Nat
             /\ Header(ks[k].name) \in {2, 3}
             /\ P(k - 1) \in Nat
             /\ P(k) = P(k - 1) + Header(ks[k].name) + Len(ks[k].data)
             /\ \A l \in k .. n : P(l) \in Nat /\ P(k) <= P(l)
  <2>1. ks[k].name \in S /\ ks[k].data \in Seq(S)
    BY DEF IsKeywords
  <2>2. /\ Len(ks[k].data) \in Nat
        /\ Len(KeywordCells(ks[k])) = Header(ks[k].name) + Len(ks[k].data)
    BY <1>1, <2>1, KeywordCellsFacts
  <2>3. Header(ks[k].name) \in {2, 3}
    BY DEF Header
  <2>4. /\ Parts(ks) \in Seq(Seq(S))
        /\ Len(Parts(ks)) = n
        /\ Parts(ks)[k] = KeywordCells(ks[k])
    BY PartsType
  <2>5. ASSUME NEW l \in k .. n
        PROVE  /\ P(k - 1) \in Nat
               /\ P(l) \in Nat
               /\ P(k) = P(k - 1) + Len(KeywordCells(ks[k]))
               /\ P(k) <= P(l)
    <3>1. k \in 1 .. Len(Parts(ks)) /\ l \in k .. Len(Parts(ks))
      BY <2>4
    <3>2. /\ P(k - 1) \in Nat
          /\ P(l) \in Nat
          /\ P(k) = P(k - 1) + Len(Parts(ks)[k])
          /\ P(k) <= P(l)
      BY <2>4, <3>1, PrefixesCells
    <3> QED
      BY <2>4, <3>2
  <2> HIDE DEF P, n
  <2>6. k \in k .. n
    BY <1>1
  <2>7. P(k - 1) \in Nat /\ P(k) = P(k - 1) + Len(KeywordCells(ks[k]))
    BY <2>5, <2>6
  <2> DEFINE x == P(k - 1)
    h == Header(ks[k].name)
    d == Len(ks[k].data)
  <2>8. x \in Nat /\ h \in Nat /\ d \in Nat /\ P(k) = x + (h + d)
    BY <2>2, <2>3, <2>7
  <2> HIDE DEF x, h, d
  <2>9. P(k) = x + h + d
    BY <2>8
  <2>10. \A l \in k .. n : P(l) \in Nat /\ P(k) <= P(l)
    BY <2>5
  <2> QED
    BY <2>1, <2>2, <2>3, <2>7, <2>9, <2>10 DEF x, h, d
<1> HIDE DEF P
<1> DEFINE G == {k \in Nat : k <= n => P(k) \in Nat /\ P(k) >= k}
<1>4. Nat \subseteq G
  <2>1. 0 \in G
    BY <1>2
  <2>2. ASSUME NEW k \in Nat, k \in G
        PROVE  k + 1 \in G
    <3> SUFFICES ASSUME k + 1 <= n
                 PROVE  P(k + 1) \in Nat /\ P(k + 1) >= k + 1
      OBVIOUS
    <3>1. P(k) \in Nat /\ P(k) >= k /\ k + 1 \in 1 .. n /\ k + 1 - 1 = k
      BY <1>1, <2>2
    <3> HIDE DEF n, G
    <3>2. /\ Len(ks[k + 1].data) \in Nat
          /\ Header(ks[k + 1].name) \in {2, 3}
          /\ P(k + 1) = P(k) + Header(ks[k + 1].name) + Len(ks[k + 1].data)
      BY <1>3, <3>1
    <3> QED
      BY <3>1, <3>2
  <2> HIDE DEF G
  <2> QED
    BY <2>1, <2>2, Induction
<1>5. \A k \in 0 .. n : P(k) \in Nat /\ P(k) >= k
  BY <1>1, <1>4 DEF G
<1>6. \A k \in 1 .. n + 1 : NamePlace(ks, k) = 5 + P(k - 1)
  BY DEF NamePlace, P
<1> HIDE DEF n, G
<1>7. NamePlace(ks, 1) = 5
  BY <1>1, <1>2, <1>6
<1>8. \A k \in 1 .. n + 1 : NamePlace(ks, k) \in Nat /\ NamePlace(ks, k) >= 4 + k
  <2> TAKE k \in 1 .. n + 1
  <2>1. k - 1 \in 0 .. n /\ k \in Nat
    BY <1>1
  <2> QED
    BY <1>5, <1>6, <2>1
<1>9. ASSUME NEW k \in 1 .. n
      PROVE  /\ NamePlace(ks, k + 1) =
                  NamePlace(ks, k) + Header(ks[k].name) + Len(ks[k].data)
             /\ \A l \in k + 1 .. n + 1 : NamePlace(ks, k + 1) <= NamePlace(ks, l)
  <2>1. k \in 1 .. n + 1 /\ k + 1 \in 1 .. n + 1 /\ k + 1 - 1 = k
    BY <1>1
  <2>2. NamePlace(ks, k + 1) = 5 + P(k) /\ NamePlace(ks, k) = 5 + P(k - 1)
    BY <1>6, <2>1
  <2>3. \A l \in k + 1 .. n + 1 :
          /\ NamePlace(ks, l) = 5 + P(l - 1)
          /\ l - 1 \in k .. n
    BY <1>1, <1>6
  <2>4. P(k) = P(k - 1) + Header(ks[k].name) + Len(ks[k].data)
    BY <1>3
  <2>5. \A l \in k + 1 .. n + 1 : P(k) <= P(l - 1)
    BY <1>3, <2>3
  <2>6. P(k) \in Nat /\ P(k - 1) \in Nat /\ Len(ks[k].data) \in Nat
        /\ Header(ks[k].name) \in Nat
    <3>1. k \in 0 .. n /\ k - 1 \in 0 .. n
      BY <1>1
    <3>2. Header(ks[k].name) \in Nat
      BY DEF Header
    <3> QED
      BY <1>3, <1>5, <3>1, <3>2
  <2>7. \A l \in k + 1 .. n + 1 : P(l - 1) \in Nat
    BY <1>1, <1>5
  <2>8. NamePlace(ks, k + 1) =
          NamePlace(ks, k) + Header(ks[k].name) + Len(ks[k].data)
    <3> DEFINE x == P(k - 1)
      h == Header(ks[k].name)
      d == Len(ks[k].data)
    <3>1. /\ x \in Nat /\ h \in Nat /\ d \in Nat
          /\ NamePlace(ks, k + 1) = 5 + (x + h + d)
          /\ NamePlace(ks, k) = 5 + x
      BY <2>2, <2>4, <2>6
    <3> HIDE DEF x, h, d
    <3>2. NamePlace(ks, k + 1) = NamePlace(ks, k) + h + d
      BY <3>1
    <3> QED
      BY <3>2 DEF h, d
  <2>9. ASSUME NEW l \in k + 1 .. n + 1
        PROVE  NamePlace(ks, k + 1) <= NamePlace(ks, l)
    <3>1. P(k) <= P(l - 1) /\ NamePlace(ks, l) = 5 + P(l - 1)
          /\ P(l - 1) \in Nat
      BY <2>3, <2>5, <2>7
    <3> QED
      BY <2>2, <2>6, <3>1
  <2> QED
    BY <2>8, <2>9
<1> QED
  BY <1>1, <1>3, <1>7, <1>8, <1>9 DEF n

(* The record at p of mem, but for the data of its keywords.               *)
RecordAt(mem, p, name, ks) ==
  /\ mem[p + 1] = RT
  /\ mem[p + 2] = 1
  /\ mem[p + 3] = name
  /\ \A k \in 1 .. Len(ks) : KeywordAt(mem, p - 1 + NamePlace(ks, k), ks[k])
  /\ mem[p - 1 + NamePlace(ks, Len(ks) + 1)] = PF

(* Where the data of a keyword is in its record.                           *)
DataPlace(ks, k) == NamePlace(ks, k) + Header(ks[k].name)

LEMMA RecordFacts ==
  ASSUME NEW S, NEW name \in S, NEW ks, IsKeywords(S, ks)
  PROVE  /\ RecordCells(name, ks) \in Seq(S)
         /\ Len(RecordCells(name, ks)) = NamePlace(ks, Len(ks) + 1)
         /\ RecordAt(RecordCells(name, ks), 1, name, ks)
         /\ \A k \in 1 .. Len(ks) : \A q \in 1 .. Len(ks[k].data) :
              RecordCells(name, ks)[DataPlace(ks, k) + q - 1] = ks[k].data[q]
<1> DEFINE n == Len(ks)
    P == Prefixes(Parts(ks))
    R == RecordCells(name, ks)
    h == <<Id, RT, 1, name>>
    a == Join(h, P[n])
    f == <<PF>>
<1>1. n \in Nat /\ Nat \subseteq S /\ {Id, RT, PF} \subseteq S /\ DOMAIN ks = 1 .. n
  BY DEF IsKeywords
<1>2. R = Join(a, f)
  BY <1>1 DEF RecordCells, Parts, Join
<1>3. /\ Parts(ks) \in Seq(Seq(S)) /\ Len(Parts(ks)) = n
      /\ \A k \in 1 .. n : Parts(ks)[k] = KeywordCells(ks[k])
  BY PartsType
<1>4. \A k \in 0 .. n : P[k] \in Seq(S)
  BY <1>3, PrefixesType
<1>5. /\ h \in Seq(S) /\ Len(h) = 4
      /\ h[2] = RT /\ h[3] = 1 /\ h[4] = name
  BY <1>1
<1>6. f \in Seq(S) /\ Len(f) = 1 /\ f[1] = PF
  BY <1>1
<1>7. P[n] \in Seq(S)
  BY <1>1, <1>4
<1> HIDE DEF P, R, h, f, n
<1>8. a \in Seq(S) /\ Joined(h, P[n], a)
  BY <1>5, <1>7, JoinType
<1> HIDE DEF a
<1>9. R \in Seq(S) /\ Joined(a, f, R)
  BY <1>2, <1>6, <1>8, JoinType
<1> DEFINE L(k) == Len(P[k])
<1>10. /\ Len(a) = 4 + L(n) /\ Len(R) = Len(a) + 1
       /\ L(n) \in Nat
       /\ a[2] = RT /\ a[3] = 1 /\ a[4] = name
       /\ \A q \in 1 .. L(n) : a[4 + q] = P[n][q]
       /\ \A q \in 1 .. Len(a) : R[q] = a[q]
       /\ R[Len(a) + 1] = PF
  <2>1. /\ Len(a) = 4 + L(n) /\ L(n) \in Nat
        /\ \A q \in 1 .. 4 : a[q] = h[q]
        /\ \A q \in 1 .. L(n) : a[4 + q] = P[n][q]
    BY <1>5, <1>8 DEF Joined
  <2>2. /\ Len(R) = Len(a) + 1
        /\ \A q \in 1 .. Len(a) : R[q] = a[q]
        /\ \A q \in 1 .. 1 : R[Len(a) + q] = f[q]
    BY <1>6, <1>9 DEF Joined
  <2> HIDE DEF L
  <2> QED
    BY <1>5, <1>6, <2>1, <2>2
<1>11. ASSUME NEW k \in 1 .. n
       PROVE  /\ L(k - 1) \in Nat
              /\ Len(KeywordCells(ks[k])) \in Nat
              /\ L(k) = L(k - 1) + Len(KeywordCells(ks[k]))
              /\ L(k) <= L(n) /\ L(k) \in Nat
              /\ \A q \in 1 .. Len(KeywordCells(ks[k])) :
                   P[n][L(k - 1) + q] = KeywordCells(ks[k])[q]
  <2>1. /\ k \in 1 .. Len(Parts(ks)) /\ n \in k .. Len(Parts(ks))
        /\ k \in k .. Len(Parts(ks))
    BY <1>1, <1>3
  <2>2. /\ L(k - 1) \in Nat
        /\ Len(Parts(ks)[k]) \in Nat
        /\ L(k) = L(k - 1) + Len(Parts(ks)[k])
        /\ L(k) <= L(n)
        /\ \A q \in 1 .. Len(Parts(ks)[k]) :
             P[n][L(k - 1) + q] = Parts(ks)[k][q]
    BY <1>3, <2>1, PrefixesCells DEF P
  <2>3. L(k) \in Nat
    BY <1>3, <2>1, PrefixesCells DEF P
  <2> HIDE DEF L
  <2> QED
    BY <1>3, <2>2, <2>3
<1> HIDE DEF L
<1>12. ASSUME NEW k \in 1 .. n
       PROVE  /\ NamePlace(ks, k) = 5 + L(k - 1)
              /\ \A q \in 1 .. Len(KeywordCells(ks[k])) :
                   R[NamePlace(ks, k) - 1 + q] = KeywordCells(ks[k])[q]
  <2>1. NamePlace(ks, k) = 5 + L(k - 1)
    BY DEF NamePlace, L, P
  <2>2. ASSUME NEW q \in 1 .. Len(KeywordCells(ks[k]))
        PROVE  R[NamePlace(ks, k) - 1 + q] = KeywordCells(ks[k])[q]
    <3> DEFINE x == L(k - 1)
               y == Len(KeywordCells(ks[k]))
               z == L(n)
    <3>0. x \in Nat /\ y \in Nat /\ z \in Nat /\ x + y <= z /\ q \in 1 .. y
      BY <1>10, <1>11
    <3> HIDE DEF x, y, z
    <3>1. /\ x + q \in 1 .. z
          /\ 4 + (x + q) \in 1 .. 4 + z
          /\ 5 + x - 1 + q = 4 + (x + q)
      BY <3>0
    <3>2. /\ x + q \in 1 .. z
          /\ 4 + (x + q) \in 1 .. Len(a)
          /\ NamePlace(ks, k) - 1 + q = 4 + (x + q)
      <4>1. Len(a) = 4 + z /\ NamePlace(ks, k) = 5 + x
        BY <1>10, <2>1 DEF x, z
      <4> QED
        BY <3>0, <3>1, <4>1
    <3>3. P[n][x + q] = KeywordCells(ks[k])[q]
      BY <1>11 DEF x
    <3>4. a[4 + (x + q)] = P[n][x + q]
      BY <1>10, <3>2 DEF z
    <3>5. R[4 + (x + q)] = a[4 + (x + q)]
      BY <1>10, <3>2
    <3> QED
      BY <3>2, <3>3, <3>4, <3>5
  <2> QED
    BY <2>1, <2>2
<1>13. ASSUME NEW k \in 1 .. n
       PROVE  /\ KeywordAt(R, NamePlace(ks, k), ks[k])
              /\ \A q \in 1 .. Len(ks[k].data) :
                   R[DataPlace(ks, k) + q - 1] = ks[k].data[q]
  <2> DEFINE c == KeywordCells(ks[k])
             p == NamePlace(ks, k)
             d == ks[k].data
             hd == Header(ks[k].name)
  <2>1. /\ Len(d) \in Nat
        /\ Len(c) = hd + Len(d)
        /\ KeywordAt(c, 1, ks[k])
        /\ \A q \in 1 .. Len(d) : c[hd + q] = d[q]
    <3>1. ks[k].name \in S /\ ks[k].data \in Seq(S)
      BY DEF IsKeywords, n
    <3> QED
      BY <1>1, <3>1, KeywordCellsFacts
  <2>2. hd = IF ks[k].name \in Pound THEN 3 ELSE 2
    BY DEF Header
  <2>3. p \in Nat /\ \A q \in 1 .. Len(c) : R[p - 1 + q] = c[q]
    BY <1>11, <1>12
  <2> HIDE DEF c, p, d, hd
  <2>4. /\ R[p] = c[1] /\ R[p + 1] = c[2]
        /\ ks[k].name \in Pound => R[p + 2] = c[3]
    <3>1. p - 1 + 1 = p /\ p - 1 + 2 = p + 1 /\ p - 1 + 3 = p + 2
      BY <2>3
    <3>2. 1 \in 1 .. Len(c) /\ 2 \in 1 .. Len(c)
          /\ (ks[k].name \in Pound => 3 \in 1 .. Len(c))
      BY <2>1, <2>2
    <3> QED
      BY <2>3, <3>1, <3>2
  <2>5. KeywordAt(R, p, ks[k])
    BY <2>1, <2>4 DEF KeywordAt
  <2>6. ASSUME NEW q \in 1 .. Len(d)
        PROVE  R[p + hd + q - 1] = d[q]
    <3>1. hd + q \in 1 .. Len(c) /\ p - 1 + (hd + q) = p + hd + q - 1
      BY <2>1, <2>2, <2>3
    <3> QED
      BY <2>1, <2>3, <3>1
  <2> QED
    BY <2>5, <2>6 DEF DataPlace, p, d, hd
<1>14. NamePlace(ks, n + 1) = 5 + L(n) /\ Len(R) = 5 + L(n)
  BY <1>1, <1>10 DEF NamePlace, L, P
<1>15. /\ R[2] = RT /\ R[3] = 1 /\ R[4] = name
       /\ R[5 + L(n)] = PF
  BY <1>10
<1>16. RecordAt(R, 1, name, ks)
  <2>1. NamePlace(ks, n + 1) \in Nat
        /\ \A k \in 1 .. n : 1 - 1 + NamePlace(ks, k) = NamePlace(ks, k)
    <3>1. L(n) \in Nat
      BY <1>10
    <3>2. NamePlace(ks, n + 1) \in Nat
      BY <1>14, <3>1
    <3>3. ASSUME NEW k \in 1 .. n
          PROVE  1 - 1 + NamePlace(ks, k) = NamePlace(ks, k)
      <4>1. L(k - 1) \in Nat /\ NamePlace(ks, k) = 5 + L(k - 1)
        BY <1>11, <1>12
      <4> QED
        BY <4>1
    <3> QED
      BY <3>2, <3>3
  <2> QED
    BY <1>13, <1>14, <1>15, <2>1 DEF RecordAt, n
<1> QED
  BY <1>9, <1>13, <1>14, <1>16 DEF n, R

-----------------------------------------------------------------------------
(* The walk along the keywords of a record.                                *)

(* A walk whose places are known: K[0], K[1], ... K[m].                    *)
LEMMA WalkTo ==
  ASSUME NEW mem, Len(mem) \in Nat, NEW K, NEW m \in 0 .. Len(mem),
         \A j \in 0 .. m - 1 : NextKeyword(mem, K[j]) = K[j + 1]
  PROVE  \A j \in 0 .. m : Walk(mem, K[0])[j] = K[j]
<1> DEFINE W == Walk(mem, K[0])
    n == Len(mem)
<1>1. n \in Nat /\ m \in 0 .. n
  OBVIOUS
<1>2. W = [i \in 0 .. n |-> IF i = 0 THEN K[0] ELSE NextKeyword(mem, W[i - 1])]
  BY WalkDef
<1> HIDE DEF W, n
<1> DEFINE G == {j \in Nat : j <= m => W[j] = K[j]}
<1>3. 0 \in G
  BY <1>1, <1>2
<1>4. ASSUME NEW j \in Nat, j \in G
      PROVE  j + 1 \in G
  <2> SUFFICES ASSUME j + 1 <= m
               PROVE  W[j + 1] = K[j + 1]
    OBVIOUS
  <2>1. j \in 0 .. m - 1 /\ j + 1 \in 0 .. n /\ j + 1 # 0 /\ j + 1 - 1 = j
    BY <1>1
  <2>2. W[j] = K[j]
    BY <1>1, <1>4, <2>1
  <2>3. W[j + 1] = IF j + 1 = 0 THEN K[0] ELSE NextKeyword(mem, W[j + 1 - 1])
    <3>1. \A i \in 0 .. n :
            W[i] = IF i = 0 THEN K[0] ELSE NextKeyword(mem, W[i - 1])
      BY <1>2
    <3> QED
      BY <2>1, <3>1
  <2>4. W[j + 1 - 1] = W[j]
    BY <2>1
  <2>5. W[j + 1] = NextKeyword(mem, W[j])
    BY <2>1, <2>3, <2>4
  <2>6. NextKeyword(mem, K[j]) = K[j + 1]
    BY <2>1
  <2> QED
    BY <2>2, <2>5, <2>6
<1> HIDE DEF G
<1>5. Nat \subseteq G
  BY <1>3, <1>4, Induction
<1> QED
  BY <1>1, <1>5 DEF G, W

LEMMA StepsTo ==
  ASSUME NEW mem, Len(mem) \in Nat, NEW p, NEW m \in 0 .. Len(mem), NEW names,
         \A j \in 0 .. m - 1 : mem[Walk(mem, p)[j]] \notin names,
         mem[Walk(mem, p)[m]] \in names
  PROVE  Steps(mem, p, names) = m
<1> DEFINE W == Walk(mem, p)
    n == Len(mem)
    Ends(i) == /\ mem[W[i]] \in names
               /\ \A j \in 0 .. i - 1 : mem[W[j]] \notin names
<1>1. n \in Nat /\ m \in 0 .. n /\ Ends(m)
  OBVIOUS
<1>2. Steps(mem, p, names) = CHOOSE i \in 0 .. n : Ends(i)
  BY DEF Steps
<1> HIDE DEF W, n
<1>3. ASSUME NEW i \in 0 .. n, Ends(i)
      PROVE  i = m
  <2>1. CASE i < m
    <3>1. i \in 0 .. m - 1
      BY <1>1, <2>1
    <3> QED
      BY <1>1, <1>3, <3>1
  <2>2. CASE m < i
    <3>1. m \in 0 .. i - 1
      BY <1>1, <2>2
    <3> QED
      BY <1>1, <1>3, <3>1
  <2> QED
    BY <1>1, <2>1, <2>2
<1> QED
  BY <1>1, <1>2, <1>3

(* No keyword is too long for its length.                                  *)
Fit(ks) ==
  \A k \in 1 .. Len(ks) :
    /\ ks[k].name # PF
    /\ Len(ks[k].data) < IF ks[k].name \in Pound
                           THEN ByteSize * ByteSize ELSE ByteSize

LEMMA KeywordSize ==
  ASSUME NEW mem, NEW p \in Nat, NEW k, Len(k.data) \in Nat, KeywordAt(mem, p, k),
         Len(k.data) < IF k.name \in Pound
                         THEN ByteSize * ByteSize ELSE ByteSize
  PROVE  /\ SizeAt(mem, p) = Len(k.data)
         /\ DataAt(mem, p) = p + Header(k.name)
         /\ NextKeyword(mem, p) = p + Header(k.name) + Len(k.data)
<1> DEFINE x == Len(k.data)
    B == ByteSize
<1>1. x \in Nat /\ B \in Nat \ {0}
  BY IpzAssumption DEF IpzAssumption
<1>2. /\ mem[p] = k.name
      /\ mem[p + 1] = x % B
      /\ k.name \in Pound => mem[p + 2] = x \div B
  BY DEF KeywordAt
<1>3. x < IF k.name \in Pound THEN B * B ELSE B
  OBVIOUS
<1> HIDE DEF x, B
<1>4. (x % B) + B * (x \div B) = x
  BY <1>1, SMTT(30)
<1>5. x < B => x % B = x
  BY <1>1
<1>6. SizeAt(mem, p) = x
  BY <1>2, <1>3, <1>4, <1>5 DEF SizeAt, B
<1>7. DataAt(mem, p) = p + Header(k.name)
  BY <1>2 DEF DataAt, Header
<1> QED
  BY <1>6, <1>7 DEF NextKeyword, x

(* The record is in the EEPROM as a whole.                                 *)
Within(mem, p, ks) ==
  Len(mem) \in Nat /\ p - 1 + NamePlace(ks, Len(ks) + 1) <= Len(mem)

(* Keyword k of the record at p is found at this place of mem.             *)
FoundAt(mem, at, ks, k, p) ==
  /\ at \in Nat
  /\ mem[at] = ks[k].name
  /\ SizeAt(mem, at) = Len(ks[k].data)
  /\ DataAt(mem, at) = p - 1 + DataPlace(ks, k)
  /\ NextKeyword(mem, at) = p - 1 + NamePlace(ks, k + 1)

LEMMA RecordSizes ==
  ASSUME NEW S, NEW ks, IsKeywords(S, ks), Fit(ks), NEW mem,
         NEW p \in Nat \ {0}, NEW name, RecordAt(mem, p, name, ks),
         NEW k \in 1 .. Len(ks), NEW at, at = p - 1 + NamePlace(ks, k)
  PROVE  FoundAt(mem, at, ks, k, p)
<1> DEFINE x == NamePlace(ks, k)
    y == NamePlace(ks, k + 1)
    h == Header(ks[k].name)
    d == Len(ks[k].data)
<1>1. /\ x \in Nat /\ d \in Nat /\ h \in {2, 3}
      /\ y = x + h + d
  <2>1. k \in 1 .. Len(ks) + 1 /\ Len(ks) \in Nat
    BY PlaceFacts
  <2> QED
    BY <2>1, PlaceFacts
<1>2. KeywordAt(mem, at, ks[k]) /\ mem[at] = ks[k].name
  BY DEF RecordAt, KeywordAt
<1>3. Len(ks[k].data) < IF ks[k].name \in Pound
                          THEN ByteSize * ByteSize ELSE ByteSize
  BY DEF Fit
<1>4. DataPlace(ks, k) = x + h
  BY DEF DataPlace
<1> HIDE DEF x, y, h
<1>5. at = p - 1 + x
  BY DEF x
<1>6. at \in Nat /\ d \in Nat
  BY <1>1, <1>5
<1>7. /\ SizeAt(mem, at) = d
      /\ DataAt(mem, at) = at + h
      /\ NextKeyword(mem, at) = at + h + d
  BY <1>2, <1>3, <1>6, KeywordSize DEF h
<1> HIDE DEF d
<1>8. DataAt(mem, at) = p - 1 + DataPlace(ks, k)
  BY <1>1, <1>4, <1>5, <1>7
<1>9. NextKeyword(mem, at) = p - 1 + y
  BY <1>1, <1>5, <1>7
<1> QED
  BY <1>2, <1>6, <1>7, <1>8, <1>9 DEF y, d, FoundAt

LEMMA FindInRecord ==
  ASSUME NEW S, NEW ks, IsKeywords(S, ks), Fit(ks), NEW mem,
         NEW p \in Nat \ {0}, NEW name, RecordAt(mem, p, name, ks),
         Within(mem, p, ks), NEW n,
         NEW m \in 0 .. Len(ks), \A k \in 1 .. m : ks[k].name # n,
         m < Len(ks) => ks[m + 1].name = n
  PROVE  FindKeyword(mem, p, n) =
           IF m = Len(ks) THEN 0 ELSE p - 1 + NamePlace(ks, m + 1)
<1> DEFINE K == [j \in 0 .. m |-> p - 1 + NamePlace(ks, j + 1)]
    names == {PF, n}
    s == Len(ks)
<1>1. /\ s \in Nat /\ m \in 0 .. s /\ Len(mem) \in Nat
      /\ NamePlace(ks, 1) = 5
      /\ \A k \in 1 .. s + 1 : NamePlace(ks, k) \in Nat /\ NamePlace(ks, k) >= 4 + k
  BY PlaceFacts DEF Within
<1>2. m \in 0 .. Len(mem)
  <2>1. s + 1 \in 1 .. s + 1
    BY <1>1
  <2> DEFINE y == NamePlace(ks, s + 1)
  <2>2. y \in Nat /\ y >= 4 + (s + 1) /\ p - 1 + y <= Len(mem)
    BY <1>1, <2>1 DEF Within
  <2> HIDE DEF y, s
  <2> QED
    BY <1>1, <2>2
<1>3. ASSUME NEW j \in 0 .. m - 1
      PROVE  NextKeyword(mem, K[j]) = K[j + 1] /\ mem[K[j]] \notin names
  <2>1. j + 1 \in 1 .. m /\ j + 1 \in 1 .. s /\ j \in 0 .. m /\ j + 1 \in 0 .. m
    BY <1>1
  <2>2. /\ K[j] = p - 1 + NamePlace(ks, j + 1)
        /\ K[j + 1] = p - 1 + NamePlace(ks, j + 1 + 1)
    BY <2>1
  <2> HIDE DEF K
  <2>3. /\ mem[K[j]] = ks[j + 1].name
        /\ NextKeyword(mem, K[j]) = K[j + 1]
    <3>1. PICK k \in 1 .. s : k = j + 1
      BY <2>1
    <3>2. FoundAt(mem, p - 1 + NamePlace(ks, k), ks, k, p)
      BY <3>1, RecordSizes
    <3> QED
      BY <2>2, <3>1, <3>2 DEF FoundAt
  <2>4. ks[j + 1].name # n /\ ks[j + 1].name # PF
    BY <2>1 DEF Fit
  <2> QED
    BY <2>3, <2>4
<1>4. K[0] = p + 4 /\ K[m] = p - 1 + NamePlace(ks, m + 1)
  <2>1. 0 \in 0 .. m /\ m \in 0 .. m
    BY <1>1
  <2>2. K[0] = p - 1 + NamePlace(ks, 0 + 1) /\ K[m] = p - 1 + NamePlace(ks, m + 1)
    BY <2>1
  <2>3. p - 1 + 5 = p + 4 /\ 0 + 1 = 1
    OBVIOUS
  <2> QED
    BY <1>1, <2>2, <2>3
<1> HIDE DEF K, s
<1>5. mem[K[m]] = IF m = s THEN PF ELSE n
  <2>1. CASE m = s
    BY <1>4, <2>1 DEF RecordAt, s
  <2>2. CASE m # s
    <3>1. m + 1 \in 1 .. s /\ m < s
      BY <1>1, <2>2
    <3>2. FoundAt(mem, K[m], ks, m + 1, p)
      BY <1>4, <3>1, RecordSizes DEF s
    <3> QED
      BY <2>2, <3>1, <3>2 DEF s, FoundAt
  <2> QED
    BY <2>1, <2>2
<1>6. Steps(mem, p + 4, names) = m /\ Walk(mem, p + 4)[m] = K[m]
  <2>1. mem[K[m]] \in names
    BY <1>5
  <2> HIDE DEF names
  <2>2. Len(mem) \in Nat /\ m \in 0 .. Len(mem)
    BY <1>1, <1>2
  <2>3. /\ \A j \in 0 .. m - 1 : NextKeyword(mem, K[j]) = K[j + 1]
        /\ \A j \in 0 .. m - 1 : mem[K[j]] \notin names
    BY <1>3
  <2>4. \A j \in 0 .. m : Walk(mem, K[0])[j] = K[j]
    BY <2>2, <2>3, WalkTo
  <2>5. m \in 0 .. m /\ \A j \in 0 .. m - 1 : j \in 0 .. m
    BY <1>1
  <2>6. /\ \A j \in 0 .. m - 1 : mem[Walk(mem, K[0])[j]] \notin names
        /\ mem[Walk(mem, K[0])[m]] \in names
    BY <2>1, <2>3, <2>4, <2>5
  <2>7. Steps(mem, K[0], names) = m
    BY <2>2, <2>6, StepsTo
  <2> QED
    BY <1>4, <2>4, <2>5, <2>7
<1>7. FindKeyword(mem, p, n) = IF mem[K[m]] = PF THEN 0 ELSE K[m]
  BY <1>6 DEF FindKeyword
<1>8. m # s => n # PF
  <2> SUFFICES ASSUME m # s
               PROVE  n # PF
    OBVIOUS
  <2>1. m + 1 \in 1 .. s /\ m < s
    BY <1>1
  <2> QED
    BY <2>1 DEF Fit, s
<1> QED
  BY <1>4, <1>5, <1>7, <1>8 DEF s

(* The keywords of a record have different names, RT is none of them.      *)
Distinct(ks) ==
  \A k \in 1 .. Len(ks) :
    /\ ks[k].name # RT
    /\ \A l \in 1 .. Len(ks) : ks[l].name = ks[k].name => l = k

NamesIn(ks) == {ks[k].name : k \in 1 .. Len(ks)}

LEMMA ReadInRecord ==
  ASSUME NEW S, NEW ks, IsKeywords(S, ks), Fit(ks), Distinct(ks), NEW mem,
         NEW p \in Nat \ {0}, NEW name, RecordAt(mem, p, name, ks),
         Within(mem, p, ks)
  PROVE  /\ DOMAIN ReadKeywords(mem, p) = {RT} \cup NamesIn(ks)
         /\ \A k \in 1 .. Len(ks) : ReadKeywords(mem, p)[ks[k].name] =
                                      ValueAt(mem, p - 1 + NamePlace(ks, k))
<1> DEFINE s == Len(ks)
    m == s + 1
    Place(k) == p - 1 + NamePlace(ks, k)
    K == [j \in 0 .. m |-> IF j = 0 THEN p + 1 ELSE Place(j)]
<1>1. /\ s \in Nat /\ m \in Nat /\ m # 0 /\ Len(mem) \in Nat
      /\ NamePlace(ks, 1) = 5
      /\ \A k \in 1 .. m : NamePlace(ks, k) \in Nat /\ NamePlace(ks, k) >= 4 + k
  BY PlaceFacts DEF Within
<1>2. m \in 0 .. Len(mem)
  <2>1. m \in 1 .. m
    BY <1>1
  <2> DEFINE y == NamePlace(ks, m)
  <2>2. y \in Nat /\ y >= 4 + m /\ p - 1 + y <= Len(mem)
    BY <1>1, <2>1 DEF Within
  <2> HIDE DEF y, s, m
  <2> QED
    BY <1>1, <2>2
<1>3. ASSUME NEW k \in 1 .. s
      PROVE  /\ Place(k) \in Nat
             /\ mem[Place(k)] = ks[k].name
             /\ NextKeyword(mem, Place(k)) = Place(k + 1)
             /\ ks[k].name \notin {RT, PF}
  <2>1. ks[k].name \notin {RT, PF}
    BY DEF Fit, Distinct
  <2> DEFINE at == Place(k)
  <2>2. at = p - 1 + NamePlace(ks, k) /\ k \in 1 .. Len(ks)
    OBVIOUS
  <2> HIDE DEF K, m, s, at
  <2>3. FoundAt(mem, at, ks, k, p)
    BY <2>2, RecordSizes
  <2> QED
    BY <2>1, <2>3 DEF at, FoundAt
<1>4. /\ mem[p + 1] = RT
      /\ NextKeyword(mem, p + 1) = Place(1)
      /\ mem[Place(m)] = PF
      /\ RT # PF
  <2>1. mem[p + 1] = RT /\ mem[p + 1 + 1] = 1 /\ mem[Place(m)] = PF
    BY DEF RecordAt
  <2>2. RT \notin Pound /\ RT # PF
    BY IpzAssumption DEF IpzAssumption
  <2>3. SizeAt(mem, p + 1) = 1 /\ DataAt(mem, p + 1) = p + 3
    BY <2>1, <2>2 DEF SizeAt, DataAt
  <2>4. NextKeyword(mem, p + 1) = p + 4
    BY <2>3 DEF NextKeyword
  <2>5. Place(1) = p + 4
    BY <1>1
  <2> QED
    BY <2>1, <2>2, <2>4, <2>5
<1> HIDE DEF Place
<1>5. /\ K[0] = p + 1 /\ mem[K[0]] = RT
      /\ \A j \in 1 .. s : K[j] = Place(j) /\ mem[K[j]] = ks[j].name
      /\ K[m] = Place(m) /\ mem[K[m]] = PF
  <2> HIDE DEF s
  <2>1. 0 \in 0 .. m /\ m \in 0 .. m /\ \A j \in 1 .. s : j \in 0 .. m /\ j # 0
    BY <1>1
  <2>2. K[0] = p + 1 /\ K[m] = Place(m) /\ \A j \in 1 .. s : K[j] = Place(j)
    BY <1>1, <2>1
  <2> QED
    BY <1>3, <1>4, <2>2
<1>6. \A j \in 0 .. m - 1 : NextKeyword(mem, K[j]) = K[j + 1]
  <2> TAKE j \in 0 .. m - 1
  <2>1. CASE j = 0
    <3>1. K[j + 1] = Place(1)
      <4>1. j + 1 = 1 /\ 1 \in 0 .. m
        BY <1>1, <2>1
      <4> QED
        BY <4>1
    <3> QED
      BY <1>4, <1>5, <2>1, <3>1
  <2>2. CASE j # 0
    <3>1. j \in 1 .. s /\ j + 1 \in 0 .. m /\ j + 1 # 0
      BY <1>1, <2>2
    <3>2. K[j] = Place(j) /\ K[j + 1] = Place(j + 1)
      BY <1>5, <3>1
    <3> QED
      BY <1>3, <3>1, <3>2
  <2> QED
    BY <2>1, <2>2
<1> HIDE DEF K
<1>7. ASSUME NEW j \in 0 .. s
      PROVE  mem[K[j]] # PF
  <2>1. CASE j = 0
    BY <1>4, <1>5, <2>1
  <2>2. CASE j # 0
    <3>1. j \in 1 .. s
      BY <1>1, <2>2
    <3> QED
      BY <1>3, <1>5, <3>1
  <2> QED
    BY <2>1, <2>2
<1>8. \A j \in 0 .. m : Walk(mem, K[0])[j] = K[j]
  <2> HIDE DEF m
  <2> QED
    BY <1>1, <1>2, <1>6, WalkTo
<1>9. \A j \in 0 .. m : Walk(mem, p + 1)[j] = K[j]
  BY <1>5, <1>8
<1>10. Steps(mem, p + 1, {PF}) = m
  <2>1. \A j \in 0 .. m - 1 : j \in 0 .. m /\ j \in 0 .. s
    BY <1>1
  <2>2. m \in 0 .. m
    BY <1>1
  <2>3. \A j \in 0 .. m - 1 : mem[Walk(mem, p + 1)[j]] \notin {PF}
    BY <1>7, <1>9, <2>1
  <2>4. mem[Walk(mem, p + 1)[m]] \in {PF}
    BY <1>5, <1>9, <2>2
  <2> HIDE DEF m
  <2> QED
    BY <1>1, <1>2, <2>3, <2>4, StepsTo
<1> DEFINE at == {Walk(mem, p + 1)[i] : i \in 0 .. Steps(mem, p + 1, {PF}) - 1}
    First(n) == CHOOSE q \in at :
                  mem[q] = n /\ \A r \in at : mem[r] = n => q <= r
<1>11. at = {K[j] : j \in 0 .. s}
  <2>1. Steps(mem, p + 1, {PF}) - 1 = s
    BY <1>1, <1>10
  <2>2. \A j \in 0 .. s : Walk(mem, p + 1)[j] = K[j]
    BY <1>1, <1>9
  <2> QED
    BY <2>1, <2>2
<1>12. ReadKeywords(mem, p) =
         [n \in {mem[q] : q \in at} |-> ValueAt(mem, First(n))]
  BY DEF ReadKeywords
<1> HIDE DEF at, s
<1>13. 0 .. s = {0} \cup 1 .. s
  BY <1>1
<1>14. {mem[q] : q \in at} = {RT} \cup {ks[k].name : k \in 1 .. s}
  <2>1. {mem[q] : q \in at} = {mem[K[j]] : j \in 0 .. s}
    BY <1>11
  <2>2. \A j \in 0 .. s : mem[K[j]] \in {RT} \cup {ks[k].name : k \in 1 .. s}
    BY <1>5, <1>13
  <2>3. RT \in {mem[K[j]] : j \in 0 .. s}
    BY <1>5, <1>13
  <2>4. \A k \in 1 .. s : ks[k].name \in {mem[K[j]] : j \in 0 .. s}
    BY <1>5, <1>13
  <2> QED
    BY <2>1, <2>2, <2>3, <2>4
<1>15. ASSUME NEW k \in 1 .. s
       PROVE  First(ks[k].name) = Place(k)
  <2>1. k \in 0 .. s /\ K[k] = Place(k) /\ mem[K[k]] = ks[k].name
    BY <1>5, <1>13
  <2>2. \A j \in 0 .. s : mem[K[j]] = ks[k].name => j = k
    <3> SUFFICES ASSUME NEW j \in 0 .. s, mem[K[j]] = ks[k].name
                 PROVE  j = k
      OBVIOUS
    <3>1. j # 0
      BY <1>3, <1>5
    <3>2. j \in 1 .. s
      BY <1>13, <3>1
    <3>3. ks[j].name = ks[k].name
      BY <1>5, <3>2
    <3> QED
      BY <3>2, <3>3 DEF Distinct, s
  <2>3. /\ Place(k) \in at /\ mem[Place(k)] = ks[k].name
        /\ \A r \in at : mem[r] = ks[k].name => r = Place(k)
    BY <1>11, <2>1, <2>2
  <2>4. Place(k) <= Place(k)
    BY <1>3
  <2> QED
    BY <2>3, <2>4
<1> HIDE DEF First
<1>16. DOMAIN ReadKeywords(mem, p) = {RT} \cup {ks[k].name : k \in 1 .. s}
  BY <1>12, <1>14
<1>17. ASSUME NEW k \in 1 .. s
       PROVE  ReadKeywords(mem, p)[ks[k].name] = ValueAt(mem, Place(k))
  <2>1. ks[k].name \in {mem[q] : q \in at}
    BY <1>14
  <2> QED
    BY <1>12, <1>15, <2>1
<1> QED
  BY <1>16, <1>17 DEF s, Place, NamesIn

-----------------------------------------------------------------------------
(* The EEPROM as it was programmed.                                        *)

Count == Len(Programmed)

RecordName(i) == Programmed[i].name

Kws(i) == Programmed[i].keywords

TocKws == << [name |-> PT, data |-> [i \in DOMAIN Programmed |-> Entry(i)]] >>

(* Cells of a record other than VTOC, and all cells.                       *)
Plain == Name \cup Byte \cup Nat \cup {Id}

Cell == Plain \cup {Entry(i) : i \in DOMAIN Programmed} \cup Seq(Plain)

Offset(i) == 9 + Count + Len(Prefixes(Records)[i - 1])

EccPlace(i) == Offset(i) + Len(RecordOf(i))

LEMMA ProgrammedFacts ==
  /\ Count \in Nat /\ DOMAIN Programmed = 1 .. Count /\ Count < ByteSize
  /\ \A i \in 1 .. Count :
       /\ RecordName(i) \in Name /\ RecordName(i) # Vtoc
       /\ RecordName(i) \in Plain
       /\ \A j \in 1 .. Count : RecordName(j) = RecordName(i) => j = i
       /\ IsKeywords(Plain, Kws(i)) /\ Fit(Kws(i)) /\ Distinct(Kws(i))
       /\ \A k \in 1 .. Len(Kws(i)) :
            /\ Kws(i)[k].name \in Name
            /\ Kws(i)[k].data \in Seq(Byte)
            /\ Len(Kws(i)[k].data) \in Nat \ {0}
<1>1. Programmed \in Seq([name : Name,
                          keywords : Seq([name : Name, data : Seq(Byte)])])
  BY ProgrammedAssumption DEF ProgrammedAssumption
<1>2. Count \in Nat /\ DOMAIN Programmed = 1 .. Count /\ Count < ByteSize
  BY <1>1, ProgrammedAssumption DEF ProgrammedAssumption, Count
<1>3. ASSUME NEW i \in 1 .. Count
      PROVE  /\ RecordName(i) \in Name
             /\ Kws(i) \in Seq([name : Name, data : Seq(Byte)])
  <2> DEFINE KS == Seq([name : Name, data : Seq(Byte)])
             T == [name : Name, keywords : KS]
  <2>1. i \in 1 .. Len(Programmed) /\ Programmed \in Seq(T)
    BY <1>1 DEF Count
  <2> HIDE DEF KS, T
  <2>2. Programmed[i] \in T
    BY <2>1
  <2>3. Programmed[i] \in [name : Name, keywords : KS]
    BY <2>2 DEF T
  <2> QED
    BY <2>3 DEF RecordName, Kws, KS
<1>4. ASSUME NEW i \in 1 .. Count
      PROVE  /\ RecordName(i) # Vtoc
             /\ \A j \in 1 .. Count : RecordName(j) = RecordName(i) => j = i
             /\ \A k \in DOMAIN Kws(i) :
                  /\ Kws(i)[k].name \notin {RT, PF}
                  /\ \A l \in DOMAIN Kws(i) :
                       Kws(i)[l].name = Kws(i)[k].name => l = k
                  /\ Kws(i)[k].data # <<>>
                  /\ Len(Kws(i)[k].data) < IF Kws(i)[k].name \in Pound
                       THEN ByteSize * ByteSize ELSE ByteSize
  BY <1>2, ProgrammedAssumption DEF ProgrammedAssumption, RecordName, Kws
<1>5. Nat \cup {Id, RT, PF} \subseteq Plain /\ Name \subseteq Plain /\ Byte \subseteq Plain
  BY UpdateAssumption DEF UpdateAssumption, Plain
<1>6. ASSUME NEW i \in 1 .. Count
      PROVE  /\ Len(Kws(i)) \in Nat /\ DOMAIN Kws(i) = 1 .. Len(Kws(i))
             /\ \A k \in 1 .. Len(Kws(i)) :
                  Kws(i)[k].name \in Name /\ Kws(i)[k].data \in Seq(Byte)
  <2> DEFINE KS == [name : Name, data : Seq(Byte)]
             ks == Kws(i)
  <2>1. ks \in Seq(KS)
    BY <1>3
  <2>2. \A x \in KS : x.name \in Name /\ x.data \in Seq(Byte)
    OBVIOUS
  <2> HIDE DEF KS, ks
  <2>3. /\ Len(ks) \in Nat /\ DOMAIN ks = 1 .. Len(ks)
        /\ \A k \in 1 .. Len(ks) : ks[k] \in KS
    BY <2>1
  <2> QED
    BY <2>2, <2>3 DEF ks
<1>7. ASSUME NEW d \in Seq(Byte)
      PROVE  d \in Seq(Plain) /\ Len(d) \in Nat /\ (d # <<>> => Len(d) # 0)
  BY <1>5
<1>8. ASSUME NEW i \in 1 .. Count
      PROVE  IsKeywords(Plain, Kws(i))
  BY <1>5, <1>6, <1>7 DEF IsKeywords
<1>9. ASSUME NEW i \in 1 .. Count
      PROVE  Fit(Kws(i)) /\ Distinct(Kws(i))
  BY <1>4, <1>6 DEF Fit, Distinct
<1>10. ASSUME NEW i \in 1 .. Count, NEW k \in 1 .. Len(Kws(i))
       PROVE  Len(Kws(i)[k].data) \in Nat \ {0}
  BY <1>4, <1>6, <1>7
<1> QED
  BY <1>2, <1>3, <1>4, <1>5, <1>6, <1>8, <1>9, <1>10

LEMMA RecordOfFacts ==
  ASSUME NEW i \in 1 .. Count
  PROVE  /\ RecordOf(i) \in Seq(Plain)
         /\ Len(RecordOf(i)) = NamePlace(Kws(i), Len(Kws(i)) + 1)
         /\ Len(RecordOf(i)) \in Nat \ {0}
         /\ RecordAt(RecordOf(i), 1, RecordName(i), Kws(i))
         /\ \A k \in 1 .. Len(Kws(i)) : \A q \in 1 .. Len(Kws(i)[k].data) :
              RecordOf(i)[DataPlace(Kws(i), k) + q - 1] = Kws(i)[k].data[q]
<1>1. RecordOf(i) = RecordCells(RecordName(i), Kws(i))
  BY DEF RecordOf, RecordName, Kws
<1>2. RecordName(i) \in Plain /\ IsKeywords(Plain, Kws(i))
  BY ProgrammedFacts
<1>3. /\ NamePlace(Kws(i), Len(Kws(i)) + 1) \in Nat
      /\ NamePlace(Kws(i), Len(Kws(i)) + 1) # 0
  <2>1. Len(Kws(i)) \in Nat
    BY <1>2, PlaceFacts
  <2>2. Len(Kws(i)) + 1 \in 1 .. Len(Kws(i)) + 1
    BY <2>1
  <2>3. /\ NamePlace(Kws(i), Len(Kws(i)) + 1) \in Nat
        /\ NamePlace(Kws(i), Len(Kws(i)) + 1) >= 4 + (Len(Kws(i)) + 1)
    BY <1>2, <2>2, PlaceFacts
  <2> QED
    BY <2>1, <2>3
<1> QED
  BY <1>1, <1>2, <1>3, RecordFacts

LEMMA RecordsFacts ==
  /\ Records \in Seq(Seq(Cell)) /\ Len(Records) = Count
  /\ \A i \in 1 .. Count :
       /\ RecordOf(i) \in Cell
       /\ Len(Records[i]) = Len(RecordOf(i)) + 1
       /\ \A q \in 1 .. Len(RecordOf(i)) : Records[i][q] = RecordOf(i)[q]
       /\ Records[i][Len(RecordOf(i)) + 1] = RecordOf(i)
<1>1. Plain \subseteq Cell /\ Seq(Plain) \subseteq Cell
  BY DEF Cell
<1>2. Count \in Nat /\ DOMAIN Programmed = 1 .. Count
  BY ProgrammedFacts
<1>3. ASSUME NEW i \in 1 .. Count
      PROVE  /\ Records[i] \in Seq(Cell)
             /\ RecordOf(i) \in Cell
             /\ Len(Records[i]) = Len(RecordOf(i)) + 1
             /\ \A q \in 1 .. Len(RecordOf(i)) : Records[i][q] = RecordOf(i)[q]
             /\ Records[i][Len(RecordOf(i)) + 1] = RecordOf(i)
  <2> DEFINE r == RecordOf(i)
             e == <<r>>
  <2>1. r \in Seq(Plain) /\ Len(r) \in Nat
    BY RecordOfFacts
  <2>2. r \in Cell
    BY <1>1, <2>1
  <2>3. r \in Seq(Cell)
    BY <1>1, <2>1, SeqMonotonic
  <2>4. Records[i] = Join(r, e)
    BY <1>2 DEF Records, Join
  <2> HIDE DEF r
  <2>5. e \in Seq(Cell) /\ Len(e) = 1 /\ e[1] = r
    BY <2>2
  <2> HIDE DEF e
  <2>6. Records[i] \in Seq(Cell) /\ Joined(r, e, Records[i])
    BY <2>3, <2>4, <2>5, JoinType
  <2>7. /\ Len(Records[i]) = Len(r) + 1
        /\ \A q \in 1 .. Len(r) : Records[i][q] = r[q]
        /\ Records[i][Len(r) + 1] = r
    BY <2>1, <2>5, <2>6 DEF Joined
  <2> QED
    BY <2>2, <2>6, <2>7 DEF r
<1>4. Records = [i \in 1 .. Count |-> Records[i]]
  BY <1>2 DEF Records
<1>5. Records \in [1 .. Count -> Seq(Cell)]
  BY <1>3, <1>4
<1>6. Records \in Seq(Seq(Cell)) /\ Len(Records) = Count
  BY <1>2, <1>5
<1> QED
  BY <1>3, <1>6

(* The records stand in their order, each with its ECC behind it, all of   *)
(* them behind the table of contents.                                      *)
LEMMA OffsetFacts ==
  ASSUME NEW i \in 1 .. Count
  PROVE  /\ Offset(i) \in Nat /\ Offset(i) >= 9 + Count
         /\ EccPlace(i) \in Nat /\ EccPlace(i) = Offset(i) + Len(RecordOf(i))
         /\ EccPlace(i) <= 8 + Count + Len(Prefixes(Records)[Count])
         /\ Len(Prefixes(Records)[Count]) \in Nat
         /\ \A j \in i + 1 .. Count : EccPlace(i) < Offset(j)
         /\ Entry(i) = [name |-> RecordName(i), offset |-> Offset(i),
                        length |-> Len(RecordOf(i)), ecc |-> EccPlace(i)]
         /\ Entry(i) \in Cell
         /\ \A q \in 1 .. Len(RecordOf(i)) :
              Prefixes(Records)[Count][Offset(i) - 9 - Count + q] = RecordOf(i)[q]
         /\ Prefixes(Records)[Count][EccPlace(i) - 8 - Count] = RecordOf(i)
<1> DEFINE P(k) == Len(Prefixes(Records)[k])
    n == Count
    r == RecordOf(i)
    l == Len(r)
<1>1. /\ n \in Nat /\ DOMAIN Programmed = 1 .. n /\ i \in 1 .. n
      /\ l \in Nat
  BY ProgrammedFacts, RecordOfFacts
<1>2. /\ Records \in Seq(Seq(Cell)) /\ Len(Records) = n
      /\ Len(Records[i]) = l + 1
      /\ \A q \in 1 .. l : Records[i][q] = r[q]
      /\ Records[i][l + 1] = r
  BY RecordsFacts
<1>3. ASSUME NEW j \in i .. n
      PROVE  /\ P(i - 1) \in Nat
             /\ P(j) \in Nat
             /\ P(i) = P(i - 1) + Len(Records[i])
             /\ P(i) <= P(j)
             /\ \A q \in 1 .. Len(Records[i]) :
                  Prefixes(Records)[j][P(i - 1) + q] = Records[i][q]
  <2>1. i \in 1 .. Len(Records) /\ j \in i .. Len(Records)
    BY <1>2
  <2>2. Records \in Seq(Seq(Cell))
    BY <1>2
  <2>3. /\ P(i - 1) \in Nat
        /\ P(j) \in Nat
        /\ P(i) = P(i - 1) + Len(Records[i])
        /\ P(i) <= P(j)
    BY <2>1, <2>2, PrefixesCells
  <2>4. \A q \in 1 .. Len(Records[i]) :
          Prefixes(Records)[j][P(i - 1) + q] = Records[i][q]
    BY <2>1, <2>2, PrefixesCells
  <2> QED
    BY <2>3, <2>4
<1> DEFINE x == P(i - 1)
    all == Prefixes(Records)[n]
<1>4. n \in i .. n /\ i \in i .. n
  BY <1>1
<1> HIDE DEF P, l, r, n
<1>5. /\ x \in Nat /\ P(i) = x + l + 1 /\ P(i) \in Nat
      /\ P(n) \in Nat /\ P(i) <= P(n)
      /\ \A q \in 1 .. l + 1 : all[x + q] = Records[i][q]
  BY <1>1, <1>2, <1>3, <1>4
<1>6. Offset(i) = 9 + n + x /\ EccPlace(i) = Offset(i) + l
  BY DEF Offset, EccPlace, P, n, l, r
<1>7. Entry(i) = [name |-> RecordName(i), offset |-> Offset(i),
                  length |-> l, ecc |-> EccPlace(i)]
  BY DEF Entry, RecordName, EccPlace, Offset, Count, l, r
<1>8. Entry(i) \in Cell
  BY <1>1 DEF Cell
<1> HIDE DEF x, all
<1>9. ASSUME NEW j \in i + 1 .. n
      PROVE  EccPlace(i) < Offset(j)
  <2>1. j - 1 \in i .. n
    BY <1>1
  <2>2. P(i) <= P(j - 1) /\ P(j - 1) \in Nat
    BY <1>3, <2>1
  <2>3. Offset(j) = 9 + n + P(j - 1)
    BY DEF Offset, P, n
  <2> QED
    BY <1>1, <1>5, <1>6, <2>2, <2>3
<1>10. /\ Offset(i) \in Nat /\ Offset(i) >= 9 + n
       /\ EccPlace(i) \in Nat
       /\ EccPlace(i) <= 8 + n + P(n)
       /\ Offset(i) - 9 - n = x
       /\ EccPlace(i) - 8 - n = x + (l + 1)
  BY <1>1, <1>5, <1>6
<1>11. ASSUME NEW q \in 1 .. l
       PROVE  all[Offset(i) - 9 - n + q] = r[q]
  <2>1. q \in 1 .. l + 1
    BY <1>1
  <2> QED
    BY <1>2, <1>5, <1>10, <2>1
<1>12. all[EccPlace(i) - 8 - n] = r
  <2>1. l + 1 \in 1 .. l + 1
    BY <1>1
  <2> QED
    BY <1>2, <1>5, <1>10, <2>1
<1> QED
  BY <1>5, <1>6, <1>7, <1>8, <1>9, <1>10, <1>11, <1>12 DEF P, n, r, l, all

LEMMA TocFacts ==
  /\ IsKeywords(Cell, TocKws) /\ Fit(TocKws) /\ Len(TocKws) = 1
  /\ TocKws[1].name = PT
  /\ Len(TocKws[1].data) = Count
  /\ \A i \in 1 .. Count : TocKws[1].data[i] = Entry(i)
  /\ NamePlace(TocKws, 1) = 5 /\ DataPlace(TocKws, 1) = 7
  /\ NamePlace(TocKws, 2) = 7 + Count
  /\ TableOfContents \in Seq(Cell)
  /\ Len(TableOfContents) = 7 + Count
  /\ RecordAt(TableOfContents, 1, Vtoc, TocKws)
  /\ \A i \in 1 .. Count : TableOfContents[6 + i] = Entry(i)
<1> DEFINE d == [i \in 1 .. Count |-> Entry(i)]
<1>1. Count \in Nat /\ DOMAIN Programmed = 1 .. Count /\ Count < ByteSize
  BY ProgrammedFacts
<1>2. d \in Seq(Cell) /\ Len(d) = Count
  <2>1. \A i \in 1 .. Count : Entry(i) \in Cell
    BY OffsetFacts
  <2>2. d \in [1 .. Count -> Cell]
    BY <2>1
  <2> QED
    BY <1>1, <2>2
<1>3. TocKws = << [name |-> PT, data |-> d] >>
  BY <1>1 DEF TocKws
<1> HIDE DEF d
<1>4. /\ Len(TocKws) = 1 /\ DOMAIN TocKws = 1 .. 1
      /\ TocKws[1].name = PT /\ TocKws[1].data = d
  BY <1>3
<1>5. Nat \cup {Id, RT, PF} \subseteq Cell /\ PT \in Cell /\ Vtoc \in Cell
  BY UpdateAssumption DEF UpdateAssumption, Cell, Plain
<1>6. IsKeywords(Cell, TocKws)
  BY <1>2, <1>4, <1>5 DEF IsKeywords
<1>7. PT \notin Pound /\ PT # PF
  BY IpzAssumption DEF IpzAssumption
<1>8. Fit(TocKws)
  BY <1>1, <1>2, <1>4, <1>7 DEF Fit
<1>9. Header(PT) = 2
  BY <1>7 DEF Header
<1>10. /\ NamePlace(TocKws, 1) = 5
       /\ NamePlace(TocKws, 2) = 5 + 2 + Count
  <2>1. 1 \in 1 .. Len(TocKws) /\ 1 + 1 = 2
    BY <1>4
  <2>2. /\ NamePlace(TocKws, 1) = 5
        /\ NamePlace(TocKws, 1 + 1) = NamePlace(TocKws, 1)
              + Header(TocKws[1].name) + Len(TocKws[1].data)
    BY <1>6, <2>1, PlaceFacts
  <2> QED
    BY <1>2, <1>4, <1>9, <2>1, <2>2
<1>11. DataPlace(TocKws, 1) = 7
  BY <1>4, <1>9, <1>10 DEF DataPlace
<1>12. TableOfContents = RecordCells(Vtoc, TocKws)
  BY DEF TableOfContents, TocKws
<1>13. /\ TableOfContents \in Seq(Cell)
       /\ Len(TableOfContents) = NamePlace(TocKws, 2)
       /\ RecordAt(TableOfContents, 1, Vtoc, TocKws)
       /\ \A q \in 1 .. Len(d) : TableOfContents[7 + q - 1] = d[q]
  <2>1. 1 \in 1 .. Len(TocKws) /\ Len(TocKws) + 1 = 2
    BY <1>4
  <2>2. /\ RecordCells(Vtoc, TocKws) \in Seq(Cell)
        /\ Len(RecordCells(Vtoc, TocKws)) = NamePlace(TocKws, Len(TocKws) + 1)
        /\ RecordAt(RecordCells(Vtoc, TocKws), 1, Vtoc, TocKws)
    BY <1>5, <1>6, RecordFacts
  <2>3. \A q \in 1 .. Len(TocKws[1].data) :
          RecordCells(Vtoc, TocKws)[DataPlace(TocKws, 1) + q - 1]
            = TocKws[1].data[q]
    BY <1>5, <1>6, <2>1, RecordFacts
  <2> QED
    BY <1>4, <1>11, <1>12, <2>1, <2>2, <2>3
<1>14. \A i \in 1 .. Count : d[i] = Entry(i)
  BY DEF d
<1>15. \A i \in 1 .. Count : TableOfContents[6 + i] = Entry(i)
  <2> TAKE i \in 1 .. Count
  <2>1. 7 + i - 1 = 6 + i /\ i \in 1 .. Len(d)
    BY <1>2
  <2> QED
    BY <1>13, <1>14, <2>1
<1> QED
  BY <1>1, <1>2, <1>4, <1>6, <1>8, <1>10, <1>11, <1>13, <1>14, <1>15

-----------------------------------------------------------------------------
(* What stays in the EEPROM.                                               *)

(* Places in a record of all that is not data.                             *)
Fixed(ks) ==
  {q \in Nat : \/ q \in 2 .. 4
               \/ q = NamePlace(ks, Len(ks) + 1)
               \/ \E k \in 1 .. Len(ks) :
                    NamePlace(ks, k) <= q /\ q < DataPlace(ks, k)}

LEMMA FixedPlaces ==
  ASSUME NEW S, NEW ks, IsKeywords(S, ks)
  PROVE  /\ Fixed(ks) \subseteq 2 .. NamePlace(ks, Len(ks) + 1)
         /\ \A k \in 1 .. Len(ks) :
              /\ DataPlace(ks, k) \in Nat /\ DataPlace(ks, k) >= 7
              /\ \A q \in 1 .. Len(ks[k].data) :
                   /\ DataPlace(ks, k) + q - 1 \notin Fixed(ks)
                   /\ DataPlace(ks, k) + q - 1 \in
                        7 .. NamePlace(ks, Len(ks) + 1) - 1
              /\ \A l \in k + 1 .. Len(ks) :
                   DataPlace(ks, k) + Len(ks[k].data) < DataPlace(ks, l)
<1> DEFINE s == Len(ks)
    N(k) == NamePlace(ks, k)
    H(k) == Header(ks[k].name)
    L(k) == Len(ks[k].data)
    D(k) == DataPlace(ks, k)
<1>1. /\ s \in Nat /\ N(1) = 5
      /\ \A k \in 1 .. s + 1 : N(k) \in Nat /\ N(k) >= 4 + k
      /\ \A k \in 1 .. s :
           /\ L(k) \in Nat
           /\ H(k) \in {2, 3}
           /\ N(k + 1) = N(k) + H(k) + L(k)
           /\ \A l \in k + 1 .. s + 1 : N(k + 1) <= N(l)
  BY PlaceFacts
<1>2. \A k \in 1 .. s : D(k) = N(k) + H(k)
  BY DEF DataPlace
<1>3. Fixed(ks) = {q \in Nat : \/ q \in 2 .. 4
                               \/ q = N(s + 1)
                               \/ \E k \in 1 .. s : N(k) <= q /\ q < D(k)}
  BY DEF Fixed
<1> HIDE DEF s, N, H, L, D
<1>4. s + 1 \in 1 .. s + 1 /\ 1 \in 1 .. s + 1
  BY <1>1
<1>5. N(s + 1) \in Nat /\ N(s + 1) >= 5
  BY <1>1, <1>4
<1>6. ASSUME NEW k \in 1 .. s
      PROVE  /\ N(k) \in Nat /\ N(k) >= 5
             /\ L(k) \in Nat /\ H(k) \in {2, 3}
             /\ D(k) = N(k) + H(k) /\ D(k) \in Nat
             /\ D(k) + L(k) = N(k + 1)
             /\ \A l \in k + 1 .. s + 1 : N(l) \in Nat /\ N(k + 1) <= N(l)
             /\ N(k + 1) \in Nat
             /\ N(k + 1) <= N(s + 1)
  <2>1. /\ k \in 1 .. s + 1 /\ k + 1 \in 1 .. s + 1
        /\ s + 1 \in k + 1 .. s + 1
        /\ \A l \in k + 1 .. s + 1 : l \in 1 .. s + 1
    BY <1>1
  <2>2. /\ N(k) \in Nat /\ N(k) >= 4 + k
        /\ N(k + 1) \in Nat
        /\ L(k) \in Nat /\ H(k) \in {2, 3}
        /\ N(k + 1) = N(k) + H(k) + L(k)
        /\ \A l \in k + 1 .. s + 1 : N(l) \in Nat /\ N(k + 1) <= N(l)
        /\ D(k) = N(k) + H(k)
    BY <1>1, <1>2, <2>1
  <2>3. N(k + 1) <= N(s + 1)
    BY <2>1, <2>2
  <2>4. H(k) \in Nat /\ k >= 1 /\ k \in Nat
    BY <2>2
  <2>5. N(k) >= 5 /\ D(k) \in Nat /\ D(k) + L(k) = N(k + 1)
    BY <2>2, <2>4
  <2> QED
    BY <2>2, <2>3, <2>5
<1>7. Fixed(ks) \subseteq 2 .. N(s + 1)
  <2> SUFFICES ASSUME NEW q \in Fixed(ks)
               PROVE  q \in 2 .. N(s + 1)
    OBVIOUS
  <2>1. q \in Nat
    BY <1>3
  <2>2. CASE q \in 2 .. 4 \/ q = N(s + 1)
    BY <1>5, <2>1, <2>2
  <2>3. CASE \E k \in 1 .. s : N(k) <= q /\ q < D(k)
    <3>1. PICK k \in 1 .. s : N(k) <= q /\ q < D(k)
      BY <2>3
    <3> QED
      BY <1>5, <1>6, <2>1, <3>1
  <2> QED
    BY <1>3, <2>2, <2>3
<1>8. ASSUME NEW k \in 1 .. s, NEW q \in 1 .. L(k)
      PROVE  /\ D(k) + q - 1 \notin Fixed(ks)
             /\ D(k) + q - 1 \in 7 .. N(s + 1) - 1
  <2> DEFINE x == D(k) + q - 1
  <2>1. x \in Nat /\ x >= D(k) /\ x < N(k + 1) /\ x < N(s + 1) /\ D(k) >= 7
    BY <1>5, <1>6
  <2> HIDE DEF x
  <2>2. x \in 7 .. N(s + 1) - 1
    BY <1>5, <1>6, <2>1
  <2>3. ASSUME NEW l \in 1 .. s, N(l) <= x, x < D(l)
        PROVE  FALSE
    <3>1. CASE l <= k
      <4>1. CASE l = k
        BY <1>6, <2>1, <2>3, <4>1
      <4>2. CASE l < k
        <5>1. k \in l + 1 .. s + 1
          BY <1>1, <4>2
        <5>2. N(l + 1) <= N(k) /\ D(l) + L(l) = N(l + 1) /\ L(l) \in Nat
          BY <1>6, <5>1
        <5> QED
          BY <1>6, <2>1, <2>3, <5>2
      <4> QED
        BY <3>1, <4>1, <4>2
    <3>2. CASE k < l
      <4>1. l \in k + 1 .. s + 1
        BY <1>1, <3>2
      <4>2. N(k + 1) <= N(l)
        BY <1>6, <4>1
      <4> QED
        BY <1>6, <2>1, <2>3, <4>2
    <3> QED
      BY <3>1, <3>2
  <2>4. x \notin Fixed(ks)
    BY <1>3, <2>1, <2>2, <2>3
  <2> QED
    BY <2>2, <2>4 DEF x
<1>9. ASSUME NEW k \in 1 .. s, NEW l \in k + 1 .. s
      PROVE  D(k) + L(k) < D(l)
  <2>1. l \in k + 1 .. s + 1 /\ l \in 1 .. s
    BY <1>1
  <2>2. N(k + 1) <= N(l) /\ D(k) + L(k) = N(k + 1)
    BY <1>6, <2>1
  <2>3. D(l) = N(l) + H(l) /\ H(l) \in {2, 3} /\ N(l) \in Nat
    BY <1>6, <2>1
  <2> QED
    BY <1>6, <2>2, <2>3
<1>10. \A k \in 1 .. s : D(k) \in Nat /\ D(k) >= 7
  BY <1>6
<1> QED
  BY <1>7, <1>8, <1>9, <1>10 DEF s, N, L, D

LEMMA SameRecord ==
  ASSUME NEW S, NEW ks, IsKeywords(S, ks), NEW name, NEW mem, NEW p \in Nat \ {0},
         RecordAt(mem, p, name, ks), NEW other, NEW at \in Nat \ {0},
         \A q \in Fixed(ks) : other[at - 1 + q] = mem[p - 1 + q]
  PROVE  RecordAt(other, at, name, ks)
<1> DEFINE s == Len(ks)
    N(k) == NamePlace(ks, k)
<1>1. /\ s \in Nat
      /\ \A k \in 1 .. s + 1 : N(k) \in Nat
      /\ \A k \in 1 .. s : Header(ks[k].name) \in {2, 3}
  BY PlaceFacts
<1>2. /\ mem[p + 1] = RT /\ mem[p + 2] = 1 /\ mem[p + 3] = name
      /\ \A k \in 1 .. s : KeywordAt(mem, p - 1 + N(k), ks[k])
      /\ mem[p - 1 + N(s + 1)] = PF
  BY DEF RecordAt
<1>3. Fixed(ks) = {q \in Nat : \/ q \in 2 .. 4
                               \/ q = N(s + 1)
                               \/ \E k \in 1 .. s :
                                    N(k) <= q /\ q < N(k) + Header(ks[k].name)}
  BY DEF Fixed, DataPlace
<1>4. \A k \in 1 .. s :
        Header(ks[k].name) = IF ks[k].name \in Pound THEN 3 ELSE 2
  BY DEF Header
<1> HIDE DEF s, N
<1>5. 2 \in Fixed(ks) /\ 3 \in Fixed(ks) /\ 4 \in Fixed(ks) /\ N(s + 1) \in Fixed(ks)
  <2>1. s + 1 \in 1 .. s + 1
    BY <1>1
  <2> QED
    BY <1>1, <1>3, <2>1
<1>6. /\ other[at + 1] = RT /\ other[at + 2] = 1 /\ other[at + 3] = name
      /\ other[at - 1 + N(s + 1)] = PF
  <2>1. /\ at - 1 + 2 = at + 1 /\ at - 1 + 3 = at + 2 /\ at - 1 + 4 = at + 3
        /\ p - 1 + 2 = p + 1 /\ p - 1 + 3 = p + 2 /\ p - 1 + 4 = p + 3
    OBVIOUS
  <2>2. /\ other[at - 1 + 2] = mem[p - 1 + 2]
        /\ other[at - 1 + 3] = mem[p - 1 + 3]
        /\ other[at - 1 + 4] = mem[p - 1 + 4]
        /\ other[at - 1 + N(s + 1)] = mem[p - 1 + N(s + 1)]
    BY <1>5
  <2> QED
    BY <1>2, <2>1, <2>2
<1>7. ASSUME NEW k \in 1 .. s
      PROVE  KeywordAt(other, at - 1 + N(k), ks[k])
  <2> DEFINE x == N(k)
  <2>1. x \in Nat
    <3>1. k \in 1 .. s + 1
      BY <1>1
    <3> QED
      BY <1>1, <3>1
  <2>2. /\ x \in Fixed(ks) /\ x + 1 \in Fixed(ks)
        /\ ks[k].name \in Pound => x + 2 \in Fixed(ks)
    BY <1>3, <1>4, <2>1
  <2>3. /\ mem[p - 1 + x] = ks[k].name
        /\ mem[p - 1 + x + 1] = Len(ks[k].data) % ByteSize
        /\ ks[k].name \in Pound =>
             mem[p - 1 + x + 2] = Len(ks[k].data) \div ByteSize
    BY <1>2 DEF KeywordAt
  <2> HIDE DEF x
  <2>4. /\ p - 1 + x + 1 = p - 1 + (x + 1) /\ p - 1 + x + 2 = p - 1 + (x + 2)
        /\ at - 1 + x + 1 = at - 1 + (x + 1) /\ at - 1 + x + 2 = at - 1 + (x + 2)
    BY <2>1
  <2>5. /\ other[at - 1 + x] = mem[p - 1 + x]
        /\ other[at - 1 + (x + 1)] = mem[p - 1 + (x + 1)]
        /\ ks[k].name \in Pound => other[at - 1 + (x + 2)] = mem[p - 1 + (x + 2)]
    BY <2>2
  <2>6. KeywordAt(other, at - 1 + x, ks[k])
    BY <2>3, <2>4, <2>5 DEF KeywordAt
  <2> QED
    BY <2>6 DEF x
<1> QED
  BY <1>6, <1>7 DEF RecordAt, s, N

-----------------------------------------------------------------------------
(* Sequences of some length, whatever they consist of.                     *)

HasCells(mem, n) == mem = [q \in 1 .. n |-> mem[q]]

LEMMA SeqOf ==
  ASSUME NEW n \in Nat, NEW mem, HasCells(mem, n)
  PROVE  /\ mem \in Seq({mem[q] : q \in 1 .. n})
         /\ Len(mem) = n /\ DOMAIN mem = 1 .. n
<1> DEFINE S == {mem[q] : q \in 1 .. n}
<1>1. \A q \in 1 .. n : mem[q] \in S
  OBVIOUS
<1> HIDE DEF S
<1>2. mem \in [1 .. n -> S]
  BY <1>1 DEF HasCells
<1>3. mem \in Seq(S) /\ Len(mem) = n
  BY <1>2
<1>4. DOMAIN mem = 1 .. n
  BY <1>2
<1> QED
  BY <1>3, <1>4 DEF S

LEMMA SubSeqOf ==
  ASSUME NEW n \in Nat, NEW mem, HasCells(mem, n),
         NEW a \in Nat \ {0}, NEW b \in Nat, a <= b + 1, b <= n
  PROVE  /\ HasCells(SubSeq(mem, a, b), b - a + 1)
         /\ Len(SubSeq(mem, a, b)) = b - a + 1
         /\ \A q \in 1 .. b - a + 1 : SubSeq(mem, a, b)[q] = mem[a - 1 + q]
<1>1. PICK S : mem \in Seq(S) /\ Len(mem) = n
  BY SeqOf
<1> DEFINE k == b - a + 1
           t == SubSeq(mem, a, b)
<1>2. t = [q \in 1 .. k |-> mem[q + a - 1]] /\ k \in Nat
  BY <1>1
<1> HIDE DEF k, t
<1>3. HasCells(t, k)
  BY <1>2 DEF HasCells
<1>4. Len(t) = k
  BY <1>2, <1>3, SeqOf
<1>5. ASSUME NEW q \in 1 .. k
      PROVE  t[q] = mem[a - 1 + q]
  <2>1. q + a - 1 = a - 1 + q
    BY <1>2
  <2> QED
    BY <1>2, <2>1
<1> QED
  BY <1>3, <1>4, <1>5 DEF k, t

(* t is made of the k cells of mem from place a on.                        *)
IsPart(t, mem, a, k) == \A q \in 1 .. k : t[q] = mem[a - 1 + q]

LEMMA PartOf ==
  ASSUME NEW n \in Nat, NEW mem, HasCells(mem, n),
         NEW a \in Nat \ {0}, NEW b \in Nat, a <= b + 1, b <= n,
         NEW k, k = b - a + 1, NEW t, t = SubSeq(mem, a, b)
  PROVE  HasCells(t, k) /\ IsPart(t, mem, a, k)
BY SubSeqOf DEF IsPart

(* Sequences of a length are equal when their cells are.                   *)
LEMMA SameCells ==
  ASSUME NEW n \in Nat, NEW s, HasCells(s, n), NEW t, HasCells(t, n),
         \A q \in 1 .. n : s[q] = t[q]
  PROVE  s = t
BY DEF HasCells

(* The same cells at the same places make the same parts.                  *)
LEMMA SameParts ==
  ASSUME NEW n \in Nat, NEW mem, HasCells(mem, n),
         NEW m \in Nat, NEW other, HasCells(other, m),
         NEW a \in Nat \ {0}, NEW b \in Nat, a <= b + 1, b <= n, b <= m,
         \A q \in a .. b : other[q] = mem[q]
  PROVE  SubSeq(other, a, b) = SubSeq(mem, a, b)
<1> DEFINE k == b - a + 1
           s == SubSeq(mem, a, b)
           t == SubSeq(other, a, b)
<1>0. \A q \in a .. b : other[q] = mem[q]
  OBVIOUS
<1>1. k \in Nat /\ k = b - a + 1
      /\ s = SubSeq(mem, a, b) /\ t = SubSeq(other, a, b)
  OBVIOUS
<1> HIDE DEF k, s, t
<1>2. HasCells(s, k) /\ IsPart(s, mem, a, k)
  BY <1>1, PartOf
<1>3. HasCells(t, k) /\ IsPart(t, other, a, k)
  BY <1>1, PartOf
<1>4. ASSUME NEW q \in 1 .. k
      PROVE  t[q] = s[q]
  <2>1. a - 1 + q \in a .. b
    BY <1>1
  <2> QED
    BY <1>0, <1>2, <1>3, <2>1 DEF IsPart
<1>5. t = s
  BY <1>1, <1>2, <1>3, <1>4, SameCells
<1> QED
  BY <1>5 DEF s, t

LEMMA OverwriteFacts ==
  ASSUME NEW n \in Nat, NEW mem, HasCells(mem, n),
         NEW p \in Nat \ {0}, NEW cells, NEW m \in Nat, Len(cells) = m
  PROVE  /\ HasCells(Overwrite(mem, p, cells), n)
         /\ \A q \in 1 .. n : ~(p <= q /\ q < p + m) =>
              Overwrite(mem, p, cells)[q] = mem[q]
         /\ \A q \in 1 .. m : p - 1 + q <= n =>
              Overwrite(mem, p, cells)[p - 1 + q] = cells[q]
<1>1. DOMAIN mem = 1 .. n
  BY DEF HasCells
<1>2. Overwrite(mem, p, cells) =
        [q \in 1 .. n |-> IF p <= q /\ q < p + m THEN cells[q - p + 1] ELSE mem[q]]
  BY <1>1 DEF Overwrite
<1>3. ASSUME NEW q \in 1 .. m, p - 1 + q <= n
      PROVE  Overwrite(mem, p, cells)[p - 1 + q] = cells[q]
  <2>1. /\ p - 1 + q \in 1 .. n
        /\ p <= p - 1 + q /\ p - 1 + q < p + m
        /\ p - 1 + q - p + 1 = q
    BY <1>3
  <2> QED
    BY <1>2, <2>1
<1> QED
  BY <1>2, <1>3 DEF HasCells

-----------------------------------------------------------------------------
(* The EEPROM.                                                             *)

Size == Len(Image)

(* What no write changes.                                                  *)
Shape(mem) ==
  /\ HasCells(mem, Size)
  /\ mem[1] = 2
  /\ RecordAt(mem, 2, Vtoc, TocKws)
  /\ \A i \in 1 .. Count : mem[7 + i] = Entry(i)
  /\ \A i \in 1 .. Count : RecordAt(mem, Offset(i), RecordName(i), Kws(i))

LEMMA ImageFacts ==
  /\ Size \in Nat /\ Size = 8 + Count + Len(Prefixes(Records)[Count])
  /\ Shape(Image)
  /\ \A i \in 1 .. Count :
       /\ Image[EccPlace(i)] = RecordOf(i)
       /\ \A q \in 1 .. Len(RecordOf(i)) :
            Image[Offset(i) - 1 + q] = RecordOf(i)[q]
<1> DEFINE toc == TableOfContents
           all == Prefixes(Records)[Count]
           one == <<2>>
           front == Join(one, toc)
           n == Count
           s == Len(all)
<1>1. n \in Nat
  BY ProgrammedFacts
<1>2. /\ toc \in Seq(Cell) /\ Len(toc) = 7 + n
      /\ RecordAt(toc, 1, Vtoc, TocKws)
      /\ \A i \in 1 .. n : toc[6 + i] = Entry(i)
  BY TocFacts
<1>3. all \in Seq(Cell) /\ s \in Nat
  <2>1. Records \in Seq(Seq(Cell)) /\ Len(Records) = n
    BY RecordsFacts
  <2>2. n \in 0 .. Len(Records)
    BY <1>1, <2>1
  <2> QED
    BY <2>1, <2>2, PrefixesType
<1>4. one \in Seq(Cell) /\ Len(one) = 1 /\ one[1] = 2
  BY DEF Cell, Plain
<1>5. Image = Join(front, all)
  BY DEF Image, Join, Count
<1> HIDE DEF one, toc, all
<1>6. front \in Seq(Cell) /\ Joined(one, toc, front)
  BY <1>2, <1>4, JoinType
<1> HIDE DEF front, n
<1>7. Image \in Seq(Cell) /\ Joined(front, all, Image)
  BY <1>3, <1>5, <1>6, JoinType
<1>8. /\ Len(front) = 8 + n
      /\ front[1] = 2
      /\ \A q \in 1 .. 7 + n : front[1 + q] = toc[q]
  <2>1. 1 \in 1 .. Len(one)
    BY <1>4
  <2> QED
    BY <1>1, <1>2, <1>4, <1>6, <2>1 DEF Joined
<1>9. /\ Size = 8 + n + s
      /\ \A q \in 1 .. 8 + n : Image[q] = front[q]
      /\ \A q \in 1 .. s : Image[8 + n + q] = all[q]
  BY <1>7, <1>8 DEF Joined, Size
<1> HIDE DEF s
<1>10. Size \in Nat
  BY <1>1, <1>3, <1>9
<1>11. Image[1] = 2 /\ \A q \in 1 .. 7 + n : Image[1 + q] = toc[q]
  <2>1. 1 \in 1 .. 8 + n /\ \A q \in 1 .. 7 + n : 1 + q \in 1 .. 8 + n
    BY <1>1
  <2> QED
    BY <1>8, <1>9, <2>1
<1>12. HasCells(Image, Size)
  BY <1>7 DEF HasCells, Size
<1>13. RecordAt(Image, 2, Vtoc, TocKws)
  <2>1. IsKeywords(Cell, TocKws) /\ Len(TocKws) = 1 /\ NamePlace(TocKws, 2) = 7 + n
    BY TocFacts DEF n
  <2>2. Fixed(TocKws) \subseteq 2 .. 7 + n
    <3>1. Len(TocKws) + 1 = 2
      BY <2>1
    <3>2. Fixed(TocKws) \subseteq 2 .. NamePlace(TocKws, Len(TocKws) + 1)
      BY <2>1, FixedPlaces
    <3> QED
      BY <2>1, <3>1, <3>2
  <2>3. \A q \in Fixed(TocKws) : Image[2 - 1 + q] = toc[1 - 1 + q]
    <3> TAKE q \in Fixed(TocKws)
    <3>1. q \in 1 .. 7 + n /\ 2 - 1 + q = 1 + q /\ 1 - 1 + q = q
      BY <1>1, <2>2
    <3> QED
      BY <1>11, <3>1
  <2>4. 1 \in Nat \ {0} /\ 2 \in Nat \ {0}
    OBVIOUS
  <2> QED
    BY <1>2, <2>1, <2>3, <2>4, SameRecord
<1>14. ASSUME NEW i \in 1 .. n
       PROVE  Image[7 + i] = Entry(i)
  <2>1. 6 + i \in 1 .. 7 + n /\ 1 + (6 + i) = 7 + i
    BY <1>1
  <2> QED
    BY <1>2, <1>11, <2>1
<1>15. ASSUME NEW i \in 1 .. n
       PROVE  /\ RecordAt(Image, Offset(i), RecordName(i), Kws(i))
              /\ Image[EccPlace(i)] = RecordOf(i)
              /\ \A q \in 1 .. Len(RecordOf(i)) :
                   Image[Offset(i) - 1 + q] = RecordOf(i)[q]
  <2> DEFINE o == Offset(i)
             e == EccPlace(i)
             r == RecordOf(i)
             l == Len(r)
  <2>1. i \in 1 .. Count
    BY DEF n
  <2>2. /\ o \in Nat /\ o >= 9 + n
        /\ e \in Nat /\ e = o + l
        /\ e <= 8 + n + s
        /\ \A q \in 1 .. l : all[o - 9 - n + q] = r[q]
        /\ all[e - 8 - n] = r
    BY <2>1, OffsetFacts DEF n, s, all
  <2>3. /\ l \in Nat /\ l = NamePlace(Kws(i), Len(Kws(i)) + 1)
        /\ RecordAt(r, 1, RecordName(i), Kws(i))
    BY <2>1, RecordOfFacts
  <2> HIDE DEF o, e, r, l
  <2>4. Image[e] = r
    <3>0. e >= 9 + n
      BY <1>1, <2>2, <2>3
    <3>1. e - 8 - n \in 1 .. s /\ 8 + n + (e - 8 - n) = e
      <4>1. e \in Nat /\ n \in Nat /\ s \in Nat /\ e <= 8 + n + s
        BY <1>1, <1>3, <2>2
      <4> QED
        BY <3>0, <4>1
    <3> QED
      BY <1>9, <2>2, <3>1
  <2>5. \A q \in 1 .. l : Image[o - 1 + q] = r[q]
    <3> TAKE q \in 1 .. l
    <3>1. o - 9 - n + q \in 1 .. s /\ 8 + n + (o - 9 - n + q) = o - 1 + q
      BY <1>1, <1>3, <2>2, <2>3
    <3> QED
      BY <1>9, <2>2, <3>1
  <2>6. RecordAt(Image, o, RecordName(i), Kws(i))
    <3>1. IsKeywords(Plain, Kws(i))
      BY <2>1, ProgrammedFacts
    <3>2. Fixed(Kws(i)) \subseteq 2 .. l
      BY <2>3, <3>1, FixedPlaces
    <3>3. \A q \in Fixed(Kws(i)) : Image[o - 1 + q] = r[1 - 1 + q]
      <4> TAKE q \in Fixed(Kws(i))
      <4>1. q \in 1 .. l /\ 1 - 1 + q = q
        BY <2>3, <3>2
      <4> QED
        BY <2>5, <4>1
    <3>4. 1 \in Nat \ {0} /\ o \in Nat \ {0}
      BY <1>1, <2>2
    <3> QED
      BY <2>3, <3>1, <3>3, <3>4, SameRecord
  <2> QED
    BY <2>4, <2>5, <2>6 DEF o, e, r, l
<1>16. Shape(Image)
  BY <1>11, <1>12, <1>13, <1>14, <1>15 DEF Shape, n
<1> QED
  BY <1>9, <1>10, <1>15, <1>16 DEF n, s, all

LEMMA SizeBound ==
  Count \in Nat /\ Size \in Nat /\ Size >= 8 + Count
<1> DEFINE n == Count
           x == Len(Prefixes(Records)[Count])
<1>1. Records \in Seq(Seq(Cell)) /\ Count \in 0 .. Len(Records)
  BY RecordsFacts, ProgrammedFacts
<1>2. Prefixes(Records)[Count] \in Seq(Cell)
  BY <1>1, PrefixesType
<1>3. x \in Nat
  BY <1>2
<1>4. n \in Nat /\ Size \in Nat /\ Size = 8 + n + x
  BY ProgrammedFacts, ImageFacts
<1> HIDE DEF x, n
<1>5. Size >= 8 + n
  BY <1>3, <1>4
<1> QED
  BY <1>4, <1>5 DEF n

(* What is found in an EEPROM that has that shape: the entries of the      *)
(* table of contents, and the keywords of every record.                    *)
LEMMA TableFacts ==
  ASSUME NEW mem, Shape(mem)
  PROVE  /\ Entries(mem) = {Entry(i) : i \in 1 .. Count}
         /\ \A r : InTable(mem, r) <=> \E i \in 1 .. Count : RecordName(i) = r
         /\ \A i \in 1 .. Count : Details(mem, RecordName(i)) = Entry(i)
<1> DEFINE n == Count
           p == FindKeyword(mem, mem[1], PT)
           pt == ValueAt(mem, p)
<1>1. /\ n \in Nat /\ Size \in Nat /\ Size >= 8 + n
      /\ HasCells(mem, Size) /\ mem[1] = 2
      /\ RecordAt(mem, 2, Vtoc, TocKws)
      /\ \A i \in 1 .. n : mem[7 + i] = Entry(i)
  BY SizeBound DEF Shape
<1>2. Len(mem) = Size
  BY <1>1, SeqOf
<1>3. /\ IsKeywords(Cell, TocKws) /\ Fit(TocKws) /\ Len(TocKws) = 1
      /\ TocKws[1].name = PT
      /\ Len(TocKws[1].data) = n
      /\ NamePlace(TocKws, 1) = 5 /\ DataPlace(TocKws, 1) = 7
      /\ NamePlace(TocKws, 2) = 7 + n
  BY TocFacts
<1>4. p = 6
  <2> DEFINE at == 2
             none == 0
             ks == TocKws
  <2>1. Len(ks) + 1 = 2 /\ at \in Nat \ {0}
    BY <1>3
  <2>2. Within(mem, at, ks)
    BY <1>1, <1>2, <1>3, <2>1 DEF Within
  <2>3. /\ none \in 0 .. Len(ks)
        /\ \A k \in 1 .. none : ks[k].name # PT
        /\ none < Len(ks) => ks[none + 1].name = PT
        /\ none # Len(ks) /\ NamePlace(ks, none + 1) = 5
    BY <1>3
  <2>4. RecordAt(mem, at, Vtoc, ks) /\ IsKeywords(Cell, ks) /\ Fit(ks)
    BY <1>1, <1>3
  <2>5. at = 2 /\ at - 1 + 5 = 6 /\ mem[1] = at
    BY <1>1
  <2> HIDE DEF at, none, ks
  <2>6. FindKeyword(mem, at, PT) =
          IF none = Len(ks) THEN 0 ELSE at - 1 + NamePlace(ks, none + 1)
    BY <2>1, <2>2, <2>3, <2>4, FindInRecord
  <2> QED
    BY <2>3, <2>5, <2>6 DEF p
<1>5. SizeAt(mem, 6) = n /\ DataAt(mem, 6) = 8
  <2> DEFINE at == 2
             k == 1
             ks == TocKws
  <2>1. /\ k \in 1 .. Len(ks) /\ at \in Nat \ {0}
        /\ Len(ks[k].data) = n
        /\ at - 1 + NamePlace(ks, k) = 6 /\ at - 1 + DataPlace(ks, k) = 8
    BY <1>3
  <2>2. RecordAt(mem, at, Vtoc, ks) /\ IsKeywords(Cell, ks) /\ Fit(ks)
    BY <1>1, <1>3
  <2> HIDE DEF at, k, ks
  <2>3. FoundAt(mem, at - 1 + NamePlace(ks, k), ks, k, at)
    BY <2>1, <2>2, RecordSizes
  <2> QED
    BY <2>1, <2>3 DEF FoundAt
<1>6. pt = SubSeq(mem, 8, 7 + n)
  <2>1. 8 + n - 1 = 7 + n
    BY <1>1
  <2> QED
    BY <1>4, <1>5, <2>1 DEF ValueAt
<1> HIDE DEF p, pt, n
<1>7. HasCells(pt, n) /\ \A q \in 1 .. n : pt[q] = mem[7 + q]
  <2> DEFINE a == 8
             b == 7 + n
  <2>1. /\ a \in Nat \ {0} /\ b \in Nat /\ a <= b + 1 /\ b <= Size
        /\ b - a + 1 = n /\ \A q \in 1 .. n : a - 1 + q = 7 + q
        /\ pt = SubSeq(mem, a, b)
    BY <1>1, <1>6
  <2> HIDE DEF a, b
  <2>2. /\ HasCells(SubSeq(mem, a, b), b - a + 1)
        /\ \A q \in 1 .. b - a + 1 : SubSeq(mem, a, b)[q] = mem[a - 1 + q]
    BY <1>1, <2>1, SubSeqOf
  <2> QED
    BY <2>1, <2>2
<1>8. DOMAIN pt = 1 .. n /\ \A i \in 1 .. n : pt[i] = Entry(i)
  BY <1>1, <1>7 DEF HasCells
<1>9. Entries(mem) = {pt[i] : i \in DOMAIN pt}
  BY DEF Entries, p, pt
<1>10. Entries(mem) = {Entry(i) : i \in 1 .. n}
  BY <1>8, <1>9
<1>11. \A i \in 1 .. n : Entry(i).name = RecordName(i)
  BY DEF Entry, RecordName
<1>12. ASSUME NEW r
       PROVE  InTable(mem, r) <=> \E i \in 1 .. n : RecordName(i) = r
  BY <1>10, <1>11 DEF InTable
<1>13. ASSUME NEW i \in 1 .. n
       PROVE  Details(mem, RecordName(i)) = Entry(i)
  <2>1. \A j \in 1 .. n : RecordName(j) = RecordName(i) => j = i
    BY ProgrammedFacts DEF n
  <2>2. \A e \in Entries(mem) : e.name = RecordName(i) <=> e = Entry(i)
    BY <1>10, <1>11, <2>1
  <2>3. Entry(i) \in Entries(mem)
    BY <1>10
  <2> QED
    BY <2>2, <2>3 DEF Details
<1> QED
  BY <1>10, <1>12, <1>13 DEF n

(* The data of keyword k of record i are here, in a memory of that shape.  *)
DataAddress(i, k) == Offset(i) - 1 + DataPlace(Kws(i), k)

LEMMA RecordBounds ==
  ASSUME NEW i \in 1 .. Count
  PROVE  /\ Offset(i) \in Nat /\ Offset(i) >= 9 + Count
         /\ EccPlace(i) \in Nat /\ Offset(i) < EccPlace(i) /\ EccPlace(i) <= Size
         /\ EccPlace(i) = Offset(i) + NamePlace(Kws(i), Len(Kws(i)) + 1)
         /\ \A j \in i + 1 .. Count : EccPlace(i) < Offset(j)
         /\ \A k \in 1 .. Len(Kws(i)) :
              /\ DataAddress(i, k) \in Nat
              /\ DataAddress(i, k) > Offset(i)
              /\ Len(Kws(i)[k].data) \in Nat \ {0}
              /\ DataAddress(i, k) + Len(Kws(i)[k].data) <= EccPlace(i)
<1> DEFINE m == NamePlace(Kws(i), Len(Kws(i)) + 1)
<1>1. /\ Len(RecordOf(i)) = m /\ m \in Nat \ {0}
  BY RecordOfFacts
<1>2. /\ Offset(i) \in Nat /\ Offset(i) >= 9 + Count
      /\ EccPlace(i) \in Nat /\ EccPlace(i) = Offset(i) + Len(RecordOf(i))
      /\ EccPlace(i) <= 8 + Count + Len(Prefixes(Records)[Count])
      /\ \A j \in i + 1 .. Count : EccPlace(i) < Offset(j)
  BY OffsetFacts
<1>3. Size = 8 + Count + Len(Prefixes(Records)[Count])
  BY ImageFacts
<1> HIDE DEF m
<1>4. ASSUME NEW k \in 1 .. Len(Kws(i))
      PROVE  /\ DataAddress(i, k) \in Nat
             /\ DataAddress(i, k) > Offset(i)
             /\ Len(Kws(i)[k].data) \in Nat \ {0}
             /\ DataAddress(i, k) + Len(Kws(i)[k].data) <= EccPlace(i)
  <2> DEFINE l == Len(Kws(i)[k].data)
             d == DataPlace(Kws(i), k)
  <2>1. IsKeywords(Plain, Kws(i)) /\ l \in Nat \ {0}
    BY ProgrammedFacts
  <2>2. /\ d \in Nat /\ d >= 7
        /\ \A q \in 1 .. l : d + q - 1 \in 7 .. m - 1
    BY <2>1, FixedPlaces DEF m
  <2> HIDE DEF l, d
  <2>3. d + l - 1 \in 7 .. m - 1
    BY <2>1, <2>2
  <2>4. DataAddress(i, k) = Offset(i) - 1 + d
    BY DEF DataAddress, d
  <2>5. d + l <= m
    BY <1>1, <2>1, <2>2, <2>3
  <2>6. /\ DataAddress(i, k) \in Nat
        /\ DataAddress(i, k) > Offset(i)
        /\ DataAddress(i, k) + l <= EccPlace(i)
    BY <1>1, <1>2, <2>1, <2>2, <2>4, <2>5
  <2> QED
    BY <2>1, <2>6 DEF l
<1>5. Offset(i) < EccPlace(i) /\ EccPlace(i) <= Size
  BY <1>1, <1>2, <1>3
<1> QED
  BY <1>1, <1>2, <1>4, <1>5 DEF m

(* The data there.                                                         *)
DataOf(mem, i, k) ==
  SubSeq(mem, DataAddress(i, k),
         DataAddress(i, k) + Len(Kws(i)[k].data) - 1)

LEMMA RecordWithin ==
  ASSUME NEW mem, Shape(mem), NEW i \in 1 .. Count
  PROVE  /\ IsKeywords(Plain, Kws(i)) /\ Fit(Kws(i)) /\ Distinct(Kws(i))
         /\ RecordAt(mem, Offset(i), RecordName(i), Kws(i))
         /\ Offset(i) \in Nat \ {0}
         /\ Within(mem, Offset(i), Kws(i))
<1> DEFINE ks == Kws(i)
           o == Offset(i)
<1>1. /\ Size \in Nat /\ HasCells(mem, Size)
      /\ RecordAt(mem, o, RecordName(i), ks)
  BY ImageFacts DEF Shape
<1>2. IsKeywords(Plain, ks) /\ Fit(ks) /\ Distinct(ks)
  BY ProgrammedFacts
<1>3. /\ o \in Nat \ {0}
      /\ EccPlace(i) = o + NamePlace(ks, Len(ks) + 1)
      /\ EccPlace(i) \in Nat /\ EccPlace(i) <= Size
  <2>1. o \in Nat /\ o >= 9 + Count /\ Count \in Nat
    BY RecordBounds, ProgrammedFacts
  <2>2. o \in Nat \ {0}
    BY <2>1
  <2> QED
    BY <2>2, RecordBounds
<1>4. /\ Len(ks) \in Nat
      /\ \A l \in 1 .. Len(ks) + 1 : NamePlace(ks, l) \in Nat
  BY <1>2, PlaceFacts
<1> HIDE DEF ks, o
<1>5. Within(mem, o, ks)
  <2> DEFINE x == NamePlace(ks, Len(ks) + 1)
  <2>1. x \in Nat
    BY <1>4
  <2>2. Len(mem) = Size
    BY <1>1, SeqOf
  <2>3. o - 1 + x <= Size
    <3> HIDE DEF x
    <3>1. EccPlace(i) = o + x
      BY <1>3 DEF x
    <3> QED
      BY <1>1, <1>3, <2>1, <3>1
  <2> QED
    BY <1>1, <2>2, <2>3 DEF Within
<1> QED
  BY <1>1, <1>2, <1>3, <1>5 DEF ks, o

LEMMA KeywordFacts ==
  ASSUME NEW mem, Shape(mem), NEW i \in 1 .. Count, NEW k \in 1 .. Len(Kws(i)),
         NEW p, p = FindKeyword(mem, Offset(i), Kws(i)[k].name)
  PROVE  /\ p # 0
         /\ SizeAt(mem, p) = Len(Kws(i)[k].data)
         /\ DataAt(mem, p) = DataAddress(i, k)
         /\ ReadKeywordFromHardware(mem, RecordName(i), Kws(i)[k].name) =
              DataOf(mem, i, k)
         /\ ReadKeywords(mem, Offset(i))[Kws(i)[k].name] = DataOf(mem, i, k)
<1> DEFINE ks == Kws(i)
           o == Offset(i)
           name == ks[k].name
           m == k - 1
           at == o - 1 + NamePlace(ks, k)
<1>1. /\ RecordAt(mem, o, RecordName(i), ks)
      /\ o \in Nat \ {0}
      /\ Within(mem, o, ks)
  BY RecordWithin
<1>2. IsKeywords(Plain, ks) /\ Fit(ks) /\ Distinct(ks)
  BY RecordWithin
<1>4. /\ Len(ks) \in Nat /\ k \in 1 .. Len(ks)
      /\ \A l \in 1 .. Len(ks) + 1 :
           NamePlace(ks, l) \in Nat /\ NamePlace(ks, l) >= 4 + l
  BY <1>2, PlaceFacts
<1> HIDE DEF ks, o
<1>6. /\ m \in 0 .. Len(ks)
      /\ m + 1 = k /\ m # Len(ks)
      /\ \A l \in 1 .. m : ks[l].name # name
      /\ m < Len(ks) => ks[m + 1].name = name
  <2>1. m \in 0 .. Len(ks) /\ m + 1 = k /\ m # Len(ks)
    BY <1>4
  <2>2. ASSUME NEW l \in 1 .. m
        PROVE  ks[l].name # name
    <3>1. l \in 1 .. Len(ks) /\ l # k
      BY <1>4
    <3> QED
      BY <1>2, <1>4, <3>1 DEF Distinct
  <2> QED
    BY <2>1, <2>2
<1>7. p = at
  <2>1. p = FindKeyword(mem, o, name)
    BY DEF ks, o
  <2> HIDE DEF m, name
  <2>2. FindKeyword(mem, o, name) =
          IF m = Len(ks) THEN 0 ELSE o - 1 + NamePlace(ks, m + 1)
    BY <1>1, <1>2, <1>6, FindInRecord
  <2> QED
    BY <1>6, <2>1, <2>2
<1>8. /\ at \in Nat
      /\ SizeAt(mem, at) = Len(ks[k].data)
      /\ DataAt(mem, at) = o - 1 + DataPlace(ks, k)
  <2> HIDE DEF m, name
  <2>1. at = o - 1 + NamePlace(ks, k)
    OBVIOUS
  <2> HIDE DEF at
  <2>2. FoundAt(mem, at, ks, k, o)
    BY <1>1, <1>2, <1>4, <2>1, RecordSizes
  <2> QED
    BY <2>2 DEF FoundAt
<1>9. p # 0
  <2> DEFINE x == NamePlace(ks, k)
  <2>1. x \in Nat /\ x >= 1
    <3>1. k \in 1 .. Len(ks) + 1 /\ k \in Nat
      BY <1>4
    <3>2. x \in Nat /\ x >= 4 + k
      BY <1>4, <3>1
    <3> HIDE DEF x
    <3> QED
      BY <3>1, <3>2
  <2> HIDE DEF x
  <2>2. o - 1 + x # 0
    BY <1>1, <2>1
  <2> QED
    BY <1>7, <2>2 DEF x
<1>10. DataAddress(i, k) = o - 1 + DataPlace(ks, k)
  BY DEF DataAddress, o, ks
<1> HIDE DEF at
<1>11. ValueAt(mem, p) = DataOf(mem, i, k)
  BY <1>7, <1>8, <1>10 DEF ValueAt, DataOf, ks
<1>12. ReadKeywordFromHardware(mem, RecordName(i), name) = DataOf(mem, i, k)
  <2>1. Details(mem, RecordName(i)) = Entry(i)
    BY TableFacts
  <2>2. Entry(i).offset = o
    BY DEF Entry, Offset, Count, o
  <2>3. p = FindKeyword(mem, o, name)
    BY DEF ks, o
  <2> HIDE DEF name
  <2> QED
    BY <1>9, <1>11, <2>1, <2>2, <2>3 DEF ReadKeywordFromHardware
<1>13. ReadKeywords(mem, o)[name] = DataOf(mem, i, k)
  <2>1. ReadKeywords(mem, o)[ks[k].name] = ValueAt(mem, o - 1 + NamePlace(ks, k))
    BY <1>1, <1>2, <1>4, ReadInRecord
  <2> QED
    BY <1>7, <1>11, <2>1 DEF at
<1> QED
  BY <1>7, <1>8, <1>9, <1>10, <1>12, <1>13 DEF ks, o

LEMMA NoKeyword ==
  ASSUME NEW mem, Shape(mem), NEW i \in 1 .. Count
  PROVE  /\ DOMAIN ReadKeywords(mem, Offset(i)) =
              {RT} \cup NamesIn(Kws(i))
         /\ \A n : (\A k \in 1 .. Len(Kws(i)) : Kws(i)[k].name # n) =>
                     FindKeyword(mem, Offset(i), n) = 0
<1> DEFINE ks == Kws(i)
           o == Offset(i)
<1>1. /\ RecordAt(mem, o, RecordName(i), ks)
      /\ o \in Nat \ {0}
      /\ Within(mem, o, ks)
  BY RecordWithin
<1>2. IsKeywords(Plain, ks) /\ Fit(ks) /\ Distinct(ks)
  BY RecordWithin
<1>4. /\ Len(ks) \in Nat
      /\ \A l \in 1 .. Len(ks) + 1 : NamePlace(ks, l) \in Nat
  BY <1>2, PlaceFacts
<1> HIDE DEF ks, o
<1>6. DOMAIN ReadKeywords(mem, o) = {RT} \cup NamesIn(ks)
  BY <1>1, <1>2, ReadInRecord
<1>7. ASSUME NEW n, \A k \in 1 .. Len(ks) : ks[k].name # n
      PROVE  FindKeyword(mem, o, n) = 0
  <2> DEFINE m == Len(ks)
  <2>1. m \in 0 .. Len(ks) /\ m = Len(ks) /\ ~(m < Len(ks))
    BY <1>4
  <2>2. \A k \in 1 .. m : ks[k].name # n
    BY <1>7
  <2>3. m < Len(ks) => ks[m + 1].name = n
    BY <2>1
  <2> HIDE DEF m
  <2>4. FindKeyword(mem, o, n) =
          IF m = Len(ks) THEN 0 ELSE o - 1 + NamePlace(ks, m + 1)
    BY <1>1, <1>2, <2>1, <2>2, <2>3, FindInRecord
  <2> QED
    BY <2>1, <2>4
<1> QED
  BY <1>6, <1>7 DEF ks, o

-----------------------------------------------------------------------------
(* What a write changes, and what it does not.                             *)

(* Records do not overlap.                                                 *)
LEMMA RecordsApart ==
  ASSUME NEW i \in 1 .. Count, NEW j \in 1 .. Count, i # j,
         NEW x \in Offset(i) .. EccPlace(i)
  PROVE  x \notin Offset(j) .. EccPlace(j)
<1>1. Count \in Nat
  BY ProgrammedFacts
<1>2. /\ Offset(i) \in Nat /\ EccPlace(i) \in Nat
      /\ Offset(j) \in Nat /\ EccPlace(j) \in Nat
  BY RecordBounds
<1>3. CASE i < j
  <2>1. j \in i + 1 .. Count
    BY <1>1, <1>3
  <2>2. EccPlace(i) < Offset(j)
    BY <2>1, RecordBounds
  <2> QED
    BY <1>2, <2>2
<1>4. CASE j < i
  <2>1. i \in j + 1 .. Count
    BY <1>1, <1>4
  <2>2. EccPlace(j) < Offset(i)
    BY <2>1, RecordBounds
  <2> QED
    BY <1>2, <2>2
<1> QED
  BY <1>1, <1>3, <1>4

(* The places the shape of an EEPROM depends on.                           *)
Kept == 1 .. 8 + Count \cup
          UNION {{Offset(i) - 1 + q : q \in Fixed(Kws(i))} : i \in 1 .. Count}

LEMMA KeptShape ==
  ASSUME NEW mem, Shape(mem), NEW other, HasCells(other, Size),
         \A q \in Kept : other[q] = mem[q]
  PROVE  Shape(other)
<1> DEFINE n == Count
<1>1. /\ n \in Nat
      /\ mem[1] = 2
      /\ RecordAt(mem, 2, Vtoc, TocKws)
      /\ \A i \in 1 .. n : mem[7 + i] = Entry(i)
      /\ \A i \in 1 .. n : RecordAt(mem, Offset(i), RecordName(i), Kws(i))
  BY ProgrammedFacts DEF Shape
<1>2. \A q \in 1 .. 8 + n : other[q] = mem[q]
  BY DEF Kept
<1>3. IsKeywords(Cell, TocKws) /\ Fixed(TocKws) \subseteq 2 .. 7 + n
  <2>1. /\ IsKeywords(Cell, TocKws) /\ Len(TocKws) = 1
        /\ NamePlace(TocKws, 2) = 7 + n
    BY TocFacts
  <2>2. Len(TocKws) + 1 = 2
    BY <2>1
  <2>3. Fixed(TocKws) \subseteq 2 .. NamePlace(TocKws, Len(TocKws) + 1)
    BY <2>1, FixedPlaces
  <2> QED
    BY <2>1, <2>2, <2>3
<1>4. ASSUME NEW i \in 1 .. n
      PROVE  RecordAt(other, Offset(i), RecordName(i), Kws(i))
  <2>1. IsKeywords(Plain, Kws(i)) /\ Offset(i) \in Nat \ {0}
    BY RecordWithin
  <2> DEFINE Own(j) == {Offset(j) - 1 + q : q \in Fixed(Kws(j))}
  <2>2. Kept = 1 .. 8 + n \cup UNION {Own(j) : j \in 1 .. n}
    BY DEF Kept
  <2>3. \A q \in Fixed(Kws(i)) : Offset(i) - 1 + q \in Own(i)
    OBVIOUS
  <2> HIDE DEF Own
  <2>4. Own(i) \subseteq Kept
    BY <2>2
  <2>5. \A q \in Fixed(Kws(i)) : other[Offset(i) - 1 + q] = mem[Offset(i) - 1 + q]
    BY <2>3, <2>4
  <2> QED
    BY <1>1, <2>1, <2>5, SameRecord
<1> HIDE DEF n
<1>5. other[1] = 2
  <2>1. 1 \in 1 .. 8 + n
    BY <1>1
  <2> QED
    BY <1>1, <1>2, <2>1
<1>6. ASSUME NEW i \in 1 .. n
      PROVE  other[7 + i] = Entry(i)
  <2>1. 7 + i \in 1 .. 8 + n
    BY <1>1
  <2> QED
    BY <1>1, <1>2, <2>1
<1>7. RecordAt(other, 2, Vtoc, TocKws)
  <2> DEFINE at == 2
  <2>1. at \in Nat \ {0} /\ \A q \in Fixed(TocKws) : at - 1 + q \in 1 .. 8 + n
    BY <1>1, <1>3
  <2>2. RecordAt(mem, at, Vtoc, TocKws)
    BY <1>1
  <2> HIDE DEF at
  <2>3. \A q \in Fixed(TocKws) : other[at - 1 + q] = mem[at - 1 + q]
    BY <1>2, <2>1
  <2>4. RecordAt(other, at, Vtoc, TocKws)
    BY <1>3, <2>1, <2>2, <2>3, SameRecord
  <2> QED
    BY <2>4 DEF at
<1> QED
  BY <1>4, <1>5, <1>6, <1>7 DEF Shape, n

(* An EEPROM that has, in these places, still what was programmed.         *)
Laid(mem) ==
  /\ HasCells(mem, Size)
  /\ \A q \in Kept : mem[q] = Image[q]

LEMMA LaidShape ==
  ASSUME NEW mem, Laid(mem)
  PROVE  HasCells(mem, Size) /\ Size \in Nat /\ Shape(mem)
BY ImageFacts, KeptShape DEF Laid

(* Neither data nor an ECC is at such a place.                             *)
LEMMA FreePlaces ==
  ASSUME NEW i \in 1 .. Count
  PROVE  /\ EccPlace(i) \notin Kept
         /\ \A k \in 1 .. Len(Kws(i)) : \A q \in 1 .. Len(Kws(i)[k].data) :
              /\ DataAddress(i, k) - 1 + q \notin Kept
              /\ DataAddress(i, k) - 1 + q \in Offset(i) .. EccPlace(i) - 1
<1> DEFINE n == Count
           Own(j) == {Offset(j) - 1 + q : q \in Fixed(Kws(j))}
<1>1. n \in Nat /\ \A j \in 1 .. n : Offset(j) \in Nat /\ EccPlace(j) \in Nat
  BY ProgrammedFacts, RecordBounds
<1>2. Kept = 1 .. 8 + n \cup UNION {Own(j) : j \in 1 .. n}
  BY DEF Kept
<1>3. ASSUME NEW j \in 1 .. n
      PROVE  Own(j) \subseteq Offset(j) .. EccPlace(j) - 1
  <2> DEFINE o == Offset(j)
             e == EccPlace(j)
             l == NamePlace(Kws(j), Len(Kws(j)) + 1)
  <2>1. o \in Nat /\ e \in Nat /\ e = o + l
    BY RecordBounds
  <2>2. l \in Nat
    BY RecordOfFacts
  <2>3. Fixed(Kws(j)) \subseteq 2 .. l
    BY FixedPlaces, ProgrammedFacts
  <2> HIDE DEF o, e, l
  <2>4. \A q \in Fixed(Kws(j)) : o - 1 + q \in o .. e - 1
    BY <2>1, <2>2, <2>3
  <2> QED
    BY <2>4 DEF o, e
<1> HIDE DEF Own
<1>4. ASSUME NEW x \in Offset(i) .. EccPlace(i), x \notin Own(i)
      PROVE  x \notin Kept
  <2>1. Offset(i) \in Nat /\ Offset(i) >= 9 + n /\ EccPlace(i) \in Nat
    BY RecordBounds
  <2>2. x \notin 1 .. 8 + n
    BY <1>1, <2>1
  <2>3. ASSUME NEW j \in 1 .. n, x \in Own(j)
        PROVE  FALSE
    <3>1. i # j /\ j \in 1 .. Count
      BY <1>4, <2>3
    <3>2. x \in Offset(j) .. EccPlace(j) - 1
      BY <1>3, <2>3
    <3>3. x \in Offset(j) .. EccPlace(j)
      BY <1>1, <3>2
    <3> QED
      BY <3>1, <3>3, RecordsApart
  <2> QED
    BY <1>2, <2>2, <2>3
<1>5. Offset(i) \in Nat /\ EccPlace(i) \in Nat /\ Offset(i) < EccPlace(i)
  BY RecordBounds
<1>6. EccPlace(i) \notin Kept
  <2>1. EccPlace(i) \in Offset(i) .. EccPlace(i)
    BY <1>5
  <2>2. EccPlace(i) \notin Offset(i) .. EccPlace(i) - 1
    BY <1>5
  <2>3. EccPlace(i) \notin Own(i)
    BY <1>3, <2>2
  <2> QED
    BY <1>4, <2>1, <2>3
<1>7. ASSUME NEW k \in 1 .. Len(Kws(i)), NEW q \in 1 .. Len(Kws(i)[k].data)
      PROVE  /\ DataAddress(i, k) - 1 + q \notin Kept
             /\ DataAddress(i, k) - 1 + q \in Offset(i) .. EccPlace(i) - 1
  <2> DEFINE a == DataAddress(i, k)
             l == Len(Kws(i)[k].data)
             d == DataPlace(Kws(i), k)
             x == a - 1 + q
  <2>1. /\ a \in Nat /\ a > Offset(i) /\ l \in Nat \ {0}
        /\ a + l <= EccPlace(i)
        /\ q \in 1 .. l
    BY RecordBounds
  <2>2. IsKeywords(Plain, Kws(i))
    BY ProgrammedFacts
  <2>3. d \in Nat /\ d + q - 1 \notin Fixed(Kws(i))
    BY <2>2, FixedPlaces
  <2>4. a = Offset(i) - 1 + d
    BY DEF DataAddress
  <2>5. \A y \in Fixed(Kws(i)) : y \in Nat
    BY DEF Fixed
  <2> HIDE DEF a, l, d
  <2>6. x \in Offset(i) .. EccPlace(i) - 1 /\ x \in Offset(i) .. EccPlace(i)
    BY <1>5, <2>1
  <2>7. ASSUME NEW y \in Fixed(Kws(i))
        PROVE  x # Offset(i) - 1 + y
    <3>1. y \in Nat /\ y # d + q - 1
      BY <2>3, <2>5
    <3>2. /\ Offset(i) \in Nat /\ d \in Nat /\ q \in Nat
          /\ x = Offset(i) - 1 + d - 1 + q
      <4>1. Offset(i) \in Nat /\ d \in Nat /\ q \in Nat
        BY <1>5, <2>1, <2>3
      <4>2. x = a - 1 + q /\ a = Offset(i) - 1 + d
        BY <2>4
      <4> HIDE DEF x
      <4> QED
        BY <4>1, <4>2
    <3> HIDE DEF x
    <3> QED
      BY <3>1, <3>2
  <2>8. x \notin Own(i)
    BY <2>7 DEF Own
  <2>9. x \notin Kept
    BY <1>4, <2>6, <2>8
  <2> QED
    BY <2>6, <2>9 DEF a
<1> QED
  BY <1>6, <1>7

(* The ECC of record i is the one of its content.                          *)
ContentOf(mem, i) == SubSeq(mem, Offset(i), EccPlace(i) - 1)

Good(mem, i) == mem[EccPlace(i)] = ContentOf(mem, i)

(* Two memories have the same record i.                                    *)
SameIn(mem, other, i) ==
  \A q \in Offset(i) .. EccPlace(i) : other[q] = mem[q]

LEMMA ContentFacts ==
  ASSUME NEW mem, NEW i \in 1 .. Count
  PROVE  Content(mem, Entry(i)) = ContentOf(mem, i)
<1> DEFINE e == Entry(i)
           l == Len(RecordOf(i))
<1>1. e = [name |-> RecordName(i), offset |-> Offset(i),
           length |-> l, ecc |-> EccPlace(i)]
  BY OffsetFacts
<1>2. EccPlace(i) = Offset(i) + l /\ Offset(i) \in Nat /\ l \in Nat
  BY RecordOfFacts, RecordBounds DEF EccPlace
<1> HIDE DEF e, l
<1>3. e.offset = Offset(i) /\ e.length = l
  BY <1>1
<1>4. e.offset + e.length - 1 = EccPlace(i) - 1
  BY <1>2, <1>3
<1> QED
  BY <1>3, <1>4 DEF Content, ContentOf, e

LEMMA InvalidFacts ==
  ASSUME NEW mem, Shape(mem)
  PROVE  InvalidRecords(mem) =
           {RecordName(i) : i \in {j \in 1 .. Count : ~Good(mem, j)}}
<1>1. Entries(mem) = {Entry(i) : i \in 1 .. Count}
  BY TableFacts
<1>2. \A i \in 1 .. Count : Entry(i).name = RecordName(i)
  BY DEF Entry, RecordName
<1>3. \A i \in 1 .. Count : Entry(i).ecc = EccPlace(i)
  <2> TAKE i \in 1 .. Count
  <2>1. Entry(i) = [name |-> RecordName(i), offset |-> Offset(i),
                    length |-> Len(RecordOf(i)), ecc |-> EccPlace(i)]
    BY OffsetFacts
  <2> QED
    BY <2>1
<1>4. \A i \in 1 .. Count : RecordEccCheck(mem, Entry(i)) <=> Good(mem, i)
  BY <1>3, ContentFacts DEF RecordEccCheck, Good
<1> QED
  BY <1>1, <1>2, <1>4 DEF InvalidRecords

(* A record that is the same has the same data, and the same is true of    *)
(* its ECC.                                                                *)
LEMMA SameRecordFacts ==
  ASSUME NEW mem, HasCells(mem, Size), NEW other, HasCells(other, Size),
         NEW i \in 1 .. Count, SameIn(mem, other, i)
  PROVE  /\ \A k \in 1 .. Len(Kws(i)) : DataOf(other, i, k) = DataOf(mem, i, k)
         /\ Good(other, i) <=> Good(mem, i)
<1> DEFINE o == Offset(i)
           e == EccPlace(i)
<1>1. Size \in Nat /\ o \in Nat \ {0} /\ e \in Nat /\ o < e /\ e <= Size
  <2>1. o \in Nat /\ e \in Nat /\ o < e /\ e <= Size /\ o >= 9 + Count
    BY RecordBounds
  <2>2. Count \in Nat /\ Size \in Nat
    BY ProgrammedFacts, ImageFacts
  <2> HIDE DEF o
  <2>3. o # 0
    BY <2>1, <2>2
  <2> QED
    BY <2>1, <2>2, <2>3
<1>2. \A q \in o .. e : other[q] = mem[q]
  BY DEF SameIn
<1>3. ASSUME NEW k \in 1 .. Len(Kws(i))
      PROVE  DataOf(other, i, k) = DataOf(mem, i, k)
  <2> DEFINE a == DataAddress(i, k)
             l == Len(Kws(i)[k].data)
             b == a + l - 1
  <2>1. a \in Nat /\ a > o /\ l \in Nat \ {0} /\ a + l <= e
    BY RecordBounds
  <2> HIDE DEF a, l, o, e
  <2>2. /\ a \in Nat \ {0} /\ b \in Nat /\ a <= b + 1 /\ b <= Size
        /\ \A q \in a .. b : q \in o .. e
    BY <1>1, <2>1
  <2> HIDE DEF b
  <2>3. \A q \in a .. b : other[q] = mem[q]
    BY <1>2, <2>2
  <2>4. SubSeq(other, a, b) = SubSeq(mem, a, b)
    BY <1>1, <2>2, <2>3, SameParts
  <2> QED
    BY <2>4 DEF DataOf, a, b, l
<1>4. SubSeq(other, o, e - 1) = SubSeq(mem, o, e - 1)
  <2> DEFINE b == e - 1
  <2> HIDE DEF o, e
  <2>1. b \in Nat /\ o <= b + 1 /\ b <= Size /\ \A q \in o .. b : q \in o .. e
    BY <1>1
  <2> HIDE DEF b
  <2>2. \A q \in o .. b : other[q] = mem[q]
    BY <1>2, <2>1
  <2>3. SubSeq(other, o, b) = SubSeq(mem, o, b)
    BY <1>1, <2>1, <2>2, SameParts
  <2> QED
    BY <2>3 DEF b
<1>5. other[e] = mem[e]
  <2> HIDE DEF e, o
  <2>1. e \in o .. e
    BY <1>1
  <2> QED
    BY <1>2, <2>1
<1> QED
  BY <1>3, <1>4, <1>5 DEF Good, ContentOf

LEMMA KeptPlaces ==
  Kept \subseteq 1 .. Size
<1>1. Count \in Nat /\ Size \in Nat /\ Size >= 8 + Count
  BY SizeBound
<1>2. ASSUME NEW i \in 1 .. Count, NEW q \in Fixed(Kws(i))
      PROVE  Offset(i) - 1 + q \in 1 .. Size
  <2> DEFINE o == Offset(i)
             l == NamePlace(Kws(i), Len(Kws(i)) + 1)
  <2>1. /\ o \in Nat /\ o >= 9 + Count
        /\ EccPlace(i) \in Nat /\ EccPlace(i) = o + l /\ EccPlace(i) <= Size
    BY RecordBounds
  <2>2. l \in Nat
    BY RecordOfFacts
  <2>3. q \in 2 .. l
    BY FixedPlaces, ProgrammedFacts
  <2> HIDE DEF o, l
  <2>4. o - 1 + q \in 1 .. Size
    BY <1>1, <2>1, <2>2, <2>3
  <2> QED
    BY <2>4 DEF o
<1>3. 1 .. 8 + Count \subseteq 1 .. Size
  BY <1>1
<1> QED
  BY <1>2, <1>3 DEF Kept

(* Nor do the data of the keywords of a record.                            *)
LEMMA DataApart ==
  ASSUME NEW i \in 1 .. Count, NEW k \in 1 .. Len(Kws(i)),
         NEW l \in 1 .. Len(Kws(i)), l # k
  PROVE  \/ DataAddress(i, k) + Len(Kws(i)[k].data) < DataAddress(i, l)
         \/ DataAddress(i, l) + Len(Kws(i)[l].data) < DataAddress(i, k)
<1> DEFINE n == Len(Kws(i))
           d(m) == DataPlace(Kws(i), m)
           s(m) == Len(Kws(i)[m].data)
<1>1. /\ IsKeywords(Plain, Kws(i))
      /\ \A m \in 1 .. n : s(m) \in Nat
  BY ProgrammedFacts
<1>2. /\ n \in Nat
      /\ \A m \in 1 .. n : d(m) \in Nat
      /\ \A m \in 1 .. n : \A j \in m + 1 .. n : d(m) + s(m) < d(j)
  BY <1>1, FixedPlaces, PlaceFacts
<1>3. Offset(i) \in Nat
  BY RecordBounds
<1>4. \A m \in 1 .. n : DataAddress(i, m) = Offset(i) - 1 + d(m)
  BY DEF DataAddress
<1>5. k \in 1 .. n /\ l \in 1 .. n
  OBVIOUS
<1> HIDE DEF n, d, s
<1>6. CASE k < l
  <2>1. l \in k + 1 .. n
    BY <1>2, <1>5, <1>6
  <2>2. d(k) + s(k) < d(l) /\ d(k) \in Nat /\ s(k) \in Nat /\ d(l) \in Nat
    BY <1>1, <1>2, <1>5, <2>1
  <2>3. DataAddress(i, k) + s(k) < DataAddress(i, l)
    BY <1>3, <1>4, <1>5, <2>2
  <2> QED
    BY <2>3 DEF s
<1>7. CASE l < k
  <2>1. k \in l + 1 .. n
    BY <1>2, <1>5, <1>7
  <2>2. d(l) + s(l) < d(k) /\ d(l) \in Nat /\ s(l) \in Nat /\ d(k) \in Nat
    BY <1>1, <1>2, <1>5, <2>1
  <2>3. DataAddress(i, l) + s(l) < DataAddress(i, k)
    BY <1>3, <1>4, <1>5, <2>2
  <2> QED
    BY <2>3 DEF s
<1> QED
  BY <1>2, <1>5, <1>6, <1>7

LEMMA DataCells ==
  ASSUME NEW mem, HasCells(mem, Size),
         NEW i \in 1 .. Count, NEW k \in 1 .. Len(Kws(i))
  PROVE  /\ HasCells(DataOf(mem, i, k), Len(Kws(i)[k].data))
         /\ \A q \in 1 .. Len(Kws(i)[k].data) :
              DataOf(mem, i, k)[q] = mem[DataAddress(i, k) - 1 + q]
<1> DEFINE a == DataAddress(i, k)
           s == Len(Kws(i)[k].data)
           b == a + s - 1
           d == SubSeq(mem, a, b)
<1>1. /\ a \in Nat /\ a > Offset(i) /\ s \in Nat \ {0}
      /\ Offset(i) \in Nat /\ EccPlace(i) \in Nat
      /\ a + s <= EccPlace(i) /\ EccPlace(i) <= Size
  BY RecordBounds
<1>2. Size \in Nat
  BY ImageFacts
<1> HIDE DEF a, s
<1>3. /\ a \in Nat \ {0} /\ b \in Nat /\ a <= b + 1 /\ b <= Size
      /\ b - a + 1 = s
  BY <1>1, <1>2
<1> HIDE DEF b
<1>4. /\ HasCells(d, b - a + 1)
      /\ \A q \in 1 .. b - a + 1 : d[q] = mem[a - 1 + q]
  BY <1>2, <1>3, SubSeqOf
<1>5. DataOf(mem, i, k) = d
  BY DEF DataOf, a, b, s
<1> HIDE DEF d
<1> QED
  BY <1>3, <1>4, <1>5 DEF a, s

LEMMA FirstCells ==
  ASSUME NEW s \in Nat, NEW d, HasCells(d, s), NEW f, HasCells(f, s),
         NEW n \in 0 .. s, NEW cells, Len(cells) = n,
         \A q \in 1 .. s : f[q] = IF q <= n THEN cells[q] ELSE d[q]
  PROVE  f = Overwrite(d, 1, cells)
<1>1. DOMAIN d = 1 .. s
  BY DEF HasCells
<1>2. Overwrite(d, 1, cells) =
        [q \in 1 .. s |-> IF 1 <= q /\ q < 1 + n THEN cells[q - 1 + 1] ELSE d[q]]
  BY <1>1 DEF Overwrite
<1>3. \A q \in 1 .. s : (1 <= q /\ q < 1 + n <=> q <= n) /\ q - 1 + 1 = q
  OBVIOUS
<1>4. Overwrite(d, 1, cells) =
        [q \in 1 .. s |-> IF q <= n THEN cells[q] ELSE d[q]]
  BY <1>2, <1>3
<1> QED
  BY <1>4 DEF HasCells

LEMMA DataWrite ==
  ASSUME NEW mem, Laid(mem), NEW i \in 1 .. Count, NEW k \in 1 .. Len(Kws(i)),
         NEW n \in 0 .. Len(Kws(i)[k].data), NEW cells, Len(cells) = n,
         NEW other, other = Overwrite(mem, DataAddress(i, k), cells)
  PROVE  /\ Laid(other)
         /\ \A j \in 1 .. Count : j # i => SameIn(mem, other, j)
         /\ DataOf(other, i, k) = Overwrite(DataOf(mem, i, k), 1, cells)
         /\ \A l \in 1 .. Len(Kws(i)) : l # k =>
              DataOf(other, i, l) = DataOf(mem, i, l)
<1> DEFINE a == DataAddress(i, k)
           s == Len(Kws(i)[k].data)
           b == a + s - 1
<1>1. /\ HasCells(mem, Size) /\ Size \in Nat
      /\ a \in Nat \ {0} /\ s \in Nat \ {0} /\ n \in 0 .. s
      /\ a > Offset(i) /\ a + s <= EccPlace(i) /\ EccPlace(i) <= Size
      /\ Offset(i) \in Nat /\ EccPlace(i) \in Nat
  <2>1. /\ a \in Nat /\ a > Offset(i) /\ s \in Nat \ {0}
        /\ Offset(i) \in Nat /\ EccPlace(i) \in Nat
        /\ a + s <= EccPlace(i) /\ EccPlace(i) <= Size /\ n \in 0 .. s
    BY RecordBounds
  <2> HIDE DEF a, s
  <2>2. a \in Nat \ {0}
    BY <2>1
  <2> QED
    BY <2>1, <2>2, ImageFacts DEF Laid
<1>2. other = Overwrite(mem, a, cells)
  OBVIOUS
<1>3. /\ \A q \in 1 .. s : a - 1 + q \notin Kept
      /\ \A j \in 1 .. Count : j # i =>
           \A q \in Offset(i) .. EccPlace(i) : q \notin Offset(j) .. EccPlace(j)
  BY FreePlaces, RecordsApart
<1> HIDE DEF a, s
<1>4. /\ HasCells(other, Size)
      /\ \A q \in 1 .. Size : ~(a <= q /\ q < a + n) => other[q] = mem[q]
      /\ \A q \in 1 .. n : a - 1 + q <= Size => other[a - 1 + q] = cells[q]
  <2>1. n \in Nat
    BY <1>1
  <2> QED
    BY <1>1, <1>2, <2>1, OverwriteFacts
<1>5. ASSUME NEW q, q \in Kept
      PROVE  other[q] = mem[q]
  <2>1. ~(a <= q /\ q < a + n) \/ q \notin Int
    <3> SUFFICES ASSUME q \in Int, a <= q, q < a + n
                 PROVE  FALSE
      OBVIOUS
    <3>1. q - a + 1 \in 1 .. s /\ a - 1 + (q - a + 1) = q
      BY <1>1
    <3> QED
      BY <1>3, <1>5, <3>1
  <2>2. q \in 1 .. Size
    BY <1>5, KeptPlaces
  <2> QED
    BY <1>4, <2>1, <2>2
<1>6. Laid(other)
  BY <1>4, <1>5 DEF Laid
<1>7. ASSUME NEW j \in 1 .. Count, j # i
      PROVE  SameIn(mem, other, j)
  <2> SUFFICES ASSUME NEW q \in Offset(j) .. EccPlace(j)
               PROVE  other[q] = mem[q]
    BY DEF SameIn
  <2>1. /\ Offset(j) \in Nat /\ EccPlace(j) \in Nat /\ EccPlace(j) <= Size
        /\ Offset(j) >= 1
    BY RecordBounds, ProgrammedFacts
  <2>2. q \in 1 .. Size /\ q \in Nat
    BY <1>1, <2>1
  <2>3. ~(a <= q /\ q < a + n)
    <3>1. q \notin Offset(i) .. EccPlace(i)
      BY <1>3, <1>7
    <3> QED
      BY <1>1, <2>2, <3>1
  <2> QED
    BY <1>4, <2>2, <2>3
<1>8. DataOf(other, i, k) = Overwrite(DataOf(mem, i, k), 1, cells)
  <2> DEFINE d == DataOf(mem, i, k)
             f == DataOf(other, i, k)
  <2>1. HasCells(d, s) /\ \A q \in 1 .. s : d[q] = mem[a - 1 + q]
    BY <1>1, DataCells DEF a, s
  <2>2. HasCells(f, s) /\ \A q \in 1 .. s : f[q] = other[a - 1 + q]
    BY <1>4, DataCells DEF a, s
  <2> HIDE DEF d, f
  <2>3. ASSUME NEW q \in 1 .. s
        PROVE  f[q] = IF q <= n THEN cells[q] ELSE d[q]
    <3>1. a - 1 + q \in 1 .. Size /\ a - 1 + q <= Size
      BY <1>1
    <3>2. CASE q <= n
      <4>1. q \in 1 .. n
        BY <1>1, <3>2
      <4>2. other[a - 1 + q] = cells[q]
        BY <1>4, <3>1, <4>1
      <4> QED
        BY <2>2, <3>2, <4>2
    <3>3. CASE ~(q <= n)
      <4>1. ~(a <= a - 1 + q /\ a - 1 + q < a + n)
        BY <1>1, <3>3
      <4>2. other[a - 1 + q] = mem[a - 1 + q]
        BY <1>4, <3>1, <4>1
      <4> QED
        BY <2>1, <2>2, <3>3, <4>2
    <3> QED
      BY <3>2, <3>3
  <2>4. s \in Nat /\ n \in 0 .. s
    BY <1>1
  <2>5. f = Overwrite(d, 1, cells)
    BY <2>1, <2>2, <2>3, <2>4, FirstCells
  <2> QED
    BY <2>5 DEF d, f
<1>9. ASSUME NEW l \in 1 .. Len(Kws(i)), l # k
      PROVE  DataOf(other, i, l) = DataOf(mem, i, l)
  <2> DEFINE c == DataAddress(i, l)
             t == Len(Kws(i)[l].data)
             e == c + t - 1
  <2>1. /\ c \in Nat /\ c > Offset(i) /\ t \in Nat \ {0}
        /\ c + t <= EccPlace(i)
    BY RecordBounds
  <2>2. a + s < c \/ c + t < a
    BY <1>9, DataApart DEF a, s
  <2> HIDE DEF c, t
  <2>3. /\ c \in Nat \ {0} /\ e \in Nat /\ c <= e + 1 /\ e <= Size
        /\ \A q \in c .. e : q \in 1 .. Size /\ ~(a <= q /\ q < a + n)
    BY <1>1, <2>1, <2>2
  <2> HIDE DEF e
  <2>4. \A q \in c .. e : other[q] = mem[q]
    BY <1>4, <2>3
  <2>5. Size \in Nat /\ HasCells(mem, Size) /\ HasCells(other, Size)
    BY <1>1, <1>4
  <2>6. c \in Nat \ {0} /\ e \in Nat /\ c <= e + 1 /\ e <= Size
    BY <2>3
  <2>7. SubSeq(other, c, e) = SubSeq(mem, c, e)
    BY <2>4, <2>5, <2>6, SameParts
  <2> QED
    BY <2>7 DEF DataOf, c, e, t
<1> QED
  BY <1>6, <1>7, <1>8, <1>9

LEMMA OneCell ==
  ASSUME NEW n \in Nat, NEW mem, HasCells(mem, n), NEW p \in 1 .. n, NEW x
  PROVE  /\ HasCells(Overwrite(mem, p, <<x>>), n)
         /\ \A q \in 1 .. n : q # p => Overwrite(mem, p, <<x>>)[q] = mem[q]
         /\ Overwrite(mem, p, <<x>>)[p] = x
<1> DEFINE c == <<x>>
<1>1. Len(c) = 1 /\ c[1] = x
  OBVIOUS
<1>2. DOMAIN mem = 1 .. n
  BY DEF HasCells
<1> HIDE DEF c
<1>3. Overwrite(mem, p, c) =
        [q \in 1 .. n |-> IF p <= q /\ q < p + 1 THEN c[q - p + 1] ELSE mem[q]]
  BY <1>1, <1>2 DEF Overwrite
<1>4. \A q \in 1 .. n : (p <= q /\ q < p + 1) <=> q = p
  OBVIOUS
<1>5. p - p + 1 = 1
  OBVIOUS
<1>6. /\ HasCells(Overwrite(mem, p, c), n)
      /\ \A q \in 1 .. n : q # p => Overwrite(mem, p, c)[q] = mem[q]
      /\ Overwrite(mem, p, c)[p] = x
  BY <1>1, <1>3, <1>4, <1>5 DEF HasCells
<1> QED
  BY <1>6 DEF c

LEMMA EccWrite ==
  ASSUME NEW mem, Laid(mem), NEW i \in 1 .. Count, NEW x,
         NEW cells, cells = <<x>>,
         NEW other, other = Overwrite(mem, EccPlace(i), cells)
  PROVE  /\ Laid(other)
         /\ \A j \in 1 .. Count : j # i => SameIn(mem, other, j)
         /\ \A k \in 1 .. Len(Kws(i)) : DataOf(other, i, k) = DataOf(mem, i, k)
         /\ other[EccPlace(i)] = x
         /\ ContentOf(other, i) = ContentOf(mem, i)
<1> DEFINE e == EccPlace(i)
           o == Offset(i)
<1>1. /\ HasCells(mem, Size) /\ Size \in Nat
      /\ e \in Nat \ {0} /\ e <= Size
      /\ o \in Nat \ {0} /\ o < e
  <2>1. /\ o \in Nat /\ o >= 9 + Count /\ e \in Nat /\ o < e /\ e <= Size
    BY RecordBounds
  <2>2. Count \in Nat
    BY ProgrammedFacts
  <2> HIDE DEF e, o
  <2>3. o # 0 /\ e # 0
    BY <2>1, <2>2
  <2> QED
    BY <2>1, <2>3, ImageFacts DEF Laid
<1>2. other = Overwrite(mem, e, <<x>>) /\ e \in 1 .. Size
  BY <1>1
<1>3. /\ e \notin Kept
      /\ \A j \in 1 .. Count : j # i => e \notin Offset(j) .. EccPlace(j)
  <2>1. e \in Offset(i) .. EccPlace(i)
    BY <1>1
  <2> QED
    BY <2>1, FreePlaces, RecordsApart
<1> HIDE DEF e, o
<1>4. HasCells(other, Size)
  BY <1>1, <1>2, OneCell
<1>5. \A q \in 1 .. Size : q # e => other[q] = mem[q]
  BY <1>1, <1>2, OneCell
<1>6. other[e] = x
  BY <1>1, <1>2, OneCell
<1>7. Laid(other)
  <2>1. \A q \in Kept : other[q] = mem[q]
    BY <1>3, <1>5, KeptPlaces
  <2> QED
    BY <1>4, <2>1 DEF Laid
<1>8. ASSUME NEW j \in 1 .. Count, j # i
      PROVE  SameIn(mem, other, j)
  <2> SUFFICES ASSUME NEW q \in Offset(j) .. EccPlace(j)
               PROVE  other[q] = mem[q]
    BY DEF SameIn
  <2>1. /\ Offset(j) \in Nat /\ EccPlace(j) \in Nat /\ EccPlace(j) <= Size
        /\ Offset(j) >= 1
    BY RecordBounds, ProgrammedFacts
  <2>2. q \in 1 .. Size
    BY <1>1, <2>1
  <2>3. q # e
    BY <1>3, <1>8
  <2> QED
    BY <1>5, <2>2, <2>3
<1>9. ASSUME NEW k \in 1 .. Len(Kws(i))
      PROVE  DataOf(other, i, k) = DataOf(mem, i, k)
  <2> DEFINE c == DataAddress(i, k)
             t == Len(Kws(i)[k].data)
             b == c + t - 1
  <2>1. c \in Nat /\ c > o /\ t \in Nat \ {0} /\ c + t <= e
    BY RecordBounds DEF o, e
  <2> HIDE DEF c, t
  <2>2. /\ c \in Nat \ {0} /\ b \in Nat /\ c <= b + 1 /\ b <= Size
        /\ \A q \in c .. b : q \in 1 .. Size /\ q # e
    BY <1>1, <2>1
  <2> HIDE DEF b
  <2>3. \A q \in c .. b : other[q] = mem[q]
    BY <1>5, <2>2
  <2>4. SubSeq(other, c, b) = SubSeq(mem, c, b)
    BY <1>1, <1>4, <2>2, <2>3, SameParts
  <2> QED
    BY <2>4 DEF DataOf, c, b, t
<1>10. SubSeq(other, o, e - 1) = SubSeq(mem, o, e - 1)
  <2> DEFINE b == e - 1
  <2>1. /\ b \in Nat /\ o <= b + 1 /\ b <= Size
        /\ \A q \in o .. b : q \in 1 .. Size /\ q # e
    BY <1>1
  <2> HIDE DEF b
  <2>2. \A q \in o .. b : other[q] = mem[q]
    BY <1>5, <2>1
  <2>3. SubSeq(other, o, b) = SubSeq(mem, o, b)
    BY <1>1, <1>4, <2>1, <2>2, SameParts
  <2> QED
    BY <2>3 DEF b
<1> QED
  BY <1>6, <1>7, <1>8, <1>9, <1>10 DEF ContentOf, e, o
=============================================================================
