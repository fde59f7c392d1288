------------------------ MODULE OneAccumulatorProofs ------------------------
(***************************************************************************)
(* Proofs about OneAccumulator, for any tokens, ranks and calls.           *)
(*                                                                         *)
(* The chunks an accumulator buffers, and the calls of the parent that it  *)
(* still has to make, are a stream cut into pieces: Splits says so with    *)
(* the positions of the cuts, and the lemmas about it say what appending,  *)
(* joining and passing on pieces do to the cuts.                           *)
(***************************************************************************)
EXTENDS OneAccumulator, TLAPS, SequenceTheorems

\* `pieces` are the parts of stream s after position `from`, cut at `cut`.
Cuts(pieces, s, from, cut) ==
    /\ cut[1] = from
    /\ cut[Len(pieces) + 1] = Len(s)
    /\ \A i \in 1..Len(pieces) :
          /\ cut[i] \in Nat /\ cut[i + 1] \in Nat
          /\ cut[i] <= cut[i + 1] /\ cut[i + 1] <= Len(s)
          /\ pieces[i].tokens = SubSeq(s, cut[i] + 1, cut[i + 1])

Splits(pieces, s, from) ==
    \E cut \in [1..(Len(pieces) + 1) -> Nat] : Cuts(pieces, s, from, cut)

-----------------------------------------------------------------------------
(* Cutting streams *)

LEMMA StreamPart ==
    ASSUME NEW s \in Seq(Token), NEW i \in Nat, NEW j \in Nat, i <= j, j <= Len(s)
    PROVE  SubSeq(s, i + 1, j) \in Seq(Token) /\ Len(SubSeq(s, i + 1, j)) = j - i
<1>1. \A k \in (i + 1)..j : s[k] \in Token
  BY ElementOfSeq, LenProperties
<1>2. i + 1 <= j => j - (i + 1) + 1 = j - i
  OBVIOUS
<1>3. ~(i + 1 <= j) => j - i = 0
  OBVIOUS
<1> QED
  BY <1>1, <1>2, <1>3, SubSeqProperties

\* The two halves of a concatenation.
LEMMA SubSeqOfConcat ==
    ASSUME NEW s \in Seq(Token), NEW t \in Seq(Token)
    PROVE  /\ s = SubSeq(s \o t, 1, Len(s))
           /\ t = SubSeq(s \o t, Len(s) + 1, Len(s) + Len(t))
<1> DEFINE all == s \o t
<1>1. /\ all \in Seq(Token) /\ Len(all) = Len(s) + Len(t)
      /\ Len(s) \in Nat /\ Len(t) \in Nat
      /\ \A i \in 1..(Len(s) + Len(t)) : all[i] = IF i <= Len(s) THEN s[i] ELSE t[i - Len(s)]
  BY ConcatProperties, LenProperties
<1> HIDE DEF all
<1>2. s = SubSeq(all, 1, Len(s))
  <2> DEFINE u == SubSeq(all, 0 + 1, Len(s))
  <2>1. u \in Seq(Token) /\ Len(u) = Len(s)
    BY <1>1, StreamPart
  <2>2. \A i \in 1..Len(s) : u[i] = s[i]
    <3>1. \A i \in 1..Len(s) : all[i] \in Token
      BY <1>1, ElementOfSeq
    <3> QED
      BY <1>1, <3>1, SubSeqProperties
  <2> QED
    BY <2>1, <2>2, SeqEqual
<1>3. t = SubSeq(all, Len(s) + 1, Len(s) + Len(t))
  <2> DEFINE n == Len(s)
             k == Len(t)
             u == SubSeq(all, n + 1, n + k)
  <2>1. u \in Seq(Token) /\ Len(u) = k
    BY <1>1, StreamPart
  <2>2. \A i \in 1..k : u[i] = t[i]
    <3>1. \A i \in (n + 1)..(n + k) : all[i] \in Token
      BY <1>1, ElementOfSeq
    <3>2. \A i \in 1..((n + k) - (n + 1) + 1) : u[i] = all[(n + 1) + i - 1]
      BY <1>1, <3>1, SubSeqProperties
    <3>3. \A i \in 1..k : /\ i \in 1..((n + k) - (n + 1) + 1)
                          /\ (n + 1) + i - 1 \in 1..(n + k)
                          /\ ~((n + 1) + i - 1 <= n)
                          /\ ((n + 1) + i - 1) - n = i
      BY <1>1
    <3> HIDE DEF n, k, u
    <3> QED
      BY <1>1, <3>2, <3>3 DEF n, k
  <2> QED
    BY <2>1, <2>2, SeqEqual
<1> QED
  BY <1>2, <1>3 DEF all

\* A stream is all of itself.
LEMMA StreamWhole ==
    ASSUME NEW t \in Seq(Token)
    PROVE  SubSeq(t, 1, Len(t)) = t
<1>1. <<>> \in Seq(Token) /\ Len(<<>>) = 0 /\ t \o <<>> = t
  BY EmptySeq, ConcatEmptySeq
<1> QED
  BY <1>1, SubSeqOfConcat

\* No pieces are left at the end of the stream only.
LEMMA SplitsNone ==
    ASSUME NEW s \in Seq(Token), NEW from \in Nat
    PROVE  Splits(<<>>, s, from) <=> from = Len(s)
<1>1. Len(<<>>) = 0 /\ 1..(0 + 1) = {1}
  BY EmptySeq
<1>2. ASSUME from = Len(s) PROVE Splits(<<>>, s, from)
  <2>1. Cuts(<<>>, s, from, [i \in 1..(0 + 1) |-> from])
    BY <1>1, <1>2 DEF Cuts
  <2> QED
    BY <1>1, <2>1 DEF Splits
<1>3. ASSUME Splits(<<>>, s, from) PROVE from = Len(s)
  BY <1>1, <1>3 DEF Splits, Cuts
<1> QED
  BY <1>2, <1>3

\* Pieces with the same tokens cut the same stream.
LEMMA SplitsSame ==
    ASSUME NEW s, NEW from, NEW p, NEW q, Len(p) = Len(q), Len(p) \in Nat,
           \A i \in 1..Len(p) : p[i].tokens = q[i].tokens,
           Splits(p, s, from)
    PROVE  Splits(q, s, from)
<1> PICK cut \in [1..(Len(p) + 1) -> Nat] : Cuts(p, s, from, cut)
  BY DEF Splits
<1>1. Cuts(q, s, from, cut)
  BY DEF Cuts
<1> QED
  BY <1>1 DEF Splits

\* The first piece can be passed on.
LEMMA SplitsFirst ==
    ASSUME NEW S, NEW p \in Seq(S), p # <<>>, NEW s \in Seq(Token), NEW from \in Nat,
           Splits(p, s, from)
    PROVE  LET n == Len(p[1].tokens)
           IN  /\ n \in Nat
               /\ from + n <= Len(s)
               /\ p[1].tokens = SubSeq(s, from + 1, from + n)
               /\ Splits(Tail(p), s, from + n)
<1> DEFINE m == Len(p)
           n == Len(p[1].tokens)
           q == Tail(p)
<1>1. /\ m \in Nat \ {0}
      /\ Len(q) = m - 1
      /\ \A i \in 1..(m - 1) : q[i] = p[i + 1]
  BY HeadTailProperties, LenProperties, EmptySeq
<1>2. PICK cut \in [1..(m + 1) -> Nat] : Cuts(p, s, from, cut)
  BY DEF Splits
<1>3. /\ cut[1] = from /\ cut[m + 1] = Len(s)
      /\ \A i \in 1..m : /\ cut[i] \in Nat /\ cut[i + 1] \in Nat
                          /\ cut[i] <= cut[i + 1] /\ cut[i + 1] <= Len(s)
                          /\ p[i].tokens = SubSeq(s, cut[i] + 1, cut[i + 1])
  BY <1>1, <1>2 DEF Cuts
<1>4. /\ cut[2] \in Nat /\ from <= cut[2] /\ cut[2] <= Len(s)
      /\ p[1].tokens = SubSeq(s, from + 1, cut[2])
  <2>1. 1 \in 1..m /\ 1 + 1 = 2
    BY <1>1
  <2> QED
    BY <1>3, <2>1
<1>5. n = cut[2] - from
  BY <1>4, StreamPart
<1>6. /\ n \in Nat /\ from + n = cut[2] /\ cut[2] <= Len(s)
      /\ p[1].tokens = SubSeq(s, from + 1, from + n)
  <2> HIDE DEF n
  <2>1. n \in Nat /\ from + n = cut[2]
    BY <1>4, <1>5
  <2> QED
    BY <1>4, <2>1
<1>7. Splits(q, s, from + n)
  <2> DEFINE rest == [i \in 1..m |-> cut[i + 1]]
  <2>1. rest \in [1..m -> Nat]
    BY <1>1, <1>3
  <2>2. rest[1] = from + n /\ rest[m] = Len(s)
    BY <1>1, <1>3, <1>6
  <2>3. \A i \in 1..(m - 1) : /\ rest[i] = cut[i + 1] /\ rest[i + 1] = cut[i + 2]
                               /\ i + 1 \in 1..m
                               /\ q[i] = p[i + 1]
    BY <1>1
  <2> HIDE DEF rest, q
  <2>4. \A i \in 1..(m - 1) : /\ rest[i] <= rest[i + 1] /\ rest[i + 1] <= Len(s)
                               /\ q[i].tokens = SubSeq(s, rest[i] + 1, rest[i + 1])
    <3> TAKE i \in 1..(m - 1)
    <3>1. /\ cut[i + 1] <= cut[(i + 1) + 1] /\ cut[(i + 1) + 1] <= Len(s)
          /\ p[i + 1].tokens = SubSeq(s, cut[i + 1] + 1, cut[(i + 1) + 1])
      BY <1>3, <2>3
    <3>2. (i + 1) + 1 = i + 2
      OBVIOUS
    <3> QED
      BY <2>3, <3>1, <3>2
  <2>5. Len(q) + 1 = m /\ Len(q) = m - 1
    BY <1>1 DEF q
  <2>6. Cuts(q, s, from + n, rest)
    <3>1. \A i \in 1..(m - 1) : rest[i] \in Nat /\ rest[i + 1] \in Nat
      <4>1. \A i \in 1..m : cut[i] \in Nat /\ cut[i + 1] \in Nat
        BY <1>3
      <4>2. \A i \in 1..(m - 1) : i \in 1..m /\ i + 1 \in 1..m /\ (i + 1) + 1 = i + 2
        BY <1>1
      <4> QED
        BY <2>3, <4>1, <4>2
    <3> QED
      BY <2>2, <2>4, <2>5, <3>1 DEF Cuts
  <2> QED
    BY <2>1, <2>5, <2>6 DEF Splits
<1> QED
  BY <1>6, <1>7

\* A piece can be put in front.
LEMMA SplitsCons ==
    ASSUME NEW S, NEW p \in Seq(S), NEW x \in S, NEW s \in Seq(Token), NEW from \in Nat,
           NEW n \in Nat, from + n <= Len(s),
           x.tokens = SubSeq(s, from + 1, from + n),
           Splits(p, s, from + n)
    PROVE  Splits(<<x>> \o p, s, from)
<1> DEFINE m == Len(p)
           q == <<x>> \o p
<1>1. /\ m \in Nat
      /\ Len(q) = m + 1
      /\ q[1] = x
      /\ \A i \in 1..m : q[i + 1] = p[i]
  <2>1. <<x>> \in Seq(S) /\ Len(<<x>>) = 1 /\ <<x>>[1] = x
    OBVIOUS
  <2> QED
    BY <2>1, ConcatProperties, LenProperties
<1>2. PICK cut \in [1..(m + 1) -> Nat] : Cuts(p, s, from + n, cut)
  BY DEF Splits
<1>3. /\ cut[1] = from + n /\ cut[m + 1] = Len(s)
      /\ \A i \in 1..m : /\ cut[i] <= cut[i + 1] /\ cut[i + 1] <= Len(s)
                          /\ p[i].tokens = SubSeq(s, cut[i] + 1, cut[i + 1])
  BY <1>1, <1>2 DEF Cuts
<1> DEFINE all == [i \in 1..(m + 2) |-> IF i = 1 THEN from ELSE cut[i - 1]]
<1>4. /\ all \in [1..(m + 2) -> Nat]
      /\ all[1] = from
      /\ \A i \in 1..(m + 1) : all[i + 1] = cut[i]
  BY <1>1
<1>5. all[2] = from + n /\ all[m + 2] = Len(s)
  <2>1. 1 \in 1..(m + 1) /\ m + 1 \in 1..(m + 1) /\ 1 + 1 = 2 /\ (m + 1) + 1 = m + 2
    BY <1>1
  <2> QED
    BY <1>3, <1>4, <2>1
<1> HIDE DEF all, q
<1>6. \A i \in 1..(m + 1) : /\ all[i] <= all[i + 1] /\ all[i + 1] <= Len(s)
                             /\ q[i].tokens = SubSeq(s, all[i] + 1, all[i + 1])
  <2> TAKE i \in 1..(m + 1)
  <2>1. CASE i = 1
    BY <1>1, <1>4, <1>5, <2>1
  <2>2. CASE i # 1
    <3>1. /\ i - 1 \in 1..m /\ (i - 1) + 1 = i
          /\ i - 1 \in 1..(m + 1) /\ i \in 1..(m + 1)
      BY <1>1, <2>2
    <3>2. q[i] = p[i - 1] /\ all[i] = cut[i - 1] /\ all[i + 1] = cut[i]
      BY <1>1, <1>4, <3>1
    <3> QED
      BY <1>3, <3>1, <3>2
  <2> QED
    BY <2>1, <2>2
<1>7. Cuts(q, s, from, all)
  <2>1. Len(q) = m + 1 /\ Len(q) + 1 = m + 2
    BY <1>1
  <2>2. \A i \in 1..(m + 1) : all[i] \in Nat /\ all[i + 1] \in Nat
    BY <1>1, <1>4
  <2> QED
    BY <1>4, <1>5, <1>6, <2>1, <2>2 DEF Cuts
<1> QED
  BY <1>1, <1>4, <1>7 DEF Splits, q

\* A single piece.
LEMMA SplitsOne ==
    ASSUME NEW S, NEW x \in S, NEW s \in Seq(Token), x.tokens \in Seq(Token)
    PROVE  Splits(<<x>>, s \o x.tokens, Len(s))
<1> DEFINE t == x.tokens
           all == s \o t
<1>1. /\ all \in Seq(Token) /\ Len(all) = Len(s) + Len(t)
      /\ Len(s) \in Nat /\ Len(t) \in Nat
  BY ConcatProperties, LenProperties
<1>2. t = SubSeq(all, Len(s) + 1, Len(s) + Len(t))
  BY SubSeqOfConcat
<1>3. <<>> \in Seq(S) /\ <<x>> \in Seq(S) /\ <<x>> \o <<>> = <<x>>
  <2>1. <<x>> \in Seq(S) /\ <<>> \in Seq(S)
    OBVIOUS
  <2> QED
    BY <2>1, ConcatEmptySeq
<1>4. x.tokens = SubSeq(all, Len(s) + 1, Len(s) + Len(t))
  BY <1>2
<1> HIDE DEF all, t
<1>5. Splits(<<>>, all, Len(s) + Len(t))
  <2>1. Len(s) + Len(t) \in Nat /\ Len(s) + Len(t) = Len(all)
    BY <1>1
  <2> QED
    BY <1>1, <2>1, SplitsNone
<1>6. Len(s) + Len(t) <= Len(all)
  BY <1>1
<1>7. Splits(<<x>> \o <<>>, all, Len(s))
  BY <1>1, <1>3, <1>4, <1>5, <1>6, SplitsCons
<1> QED
  BY <1>3, <1>7 DEF all, t

\* The tokens of a part, one by one.
LEMMA PartElements ==
    ASSUME NEW s \in Seq(Token), NEW i \in Nat, NEW j \in Nat, i <= j, j <= Len(s)
    PROVE  \A k \in 1..(j - i) : i + k \in 1..Len(s) /\ SubSeq(s, i + 1, j)[k] = s[i + k]
<1>1. \A k \in (i + 1)..j : s[k] \in Token
  BY ElementOfSeq, LenProperties
<1>2. \A k \in 1..(j - (i + 1) + 1) : SubSeq(s, i + 1, j)[k] = s[(i + 1) + k - 1]
  BY <1>1, SubSeqProperties
<1>3. /\ j - (i + 1) + 1 = j - i
      /\ \A k \in 1..(j - i) : (i + 1) + k - 1 = i + k /\ i + k \in 1..Len(s)
  BY LenProperties
<1> QED
  BY <1>2, <1>3

\* A part of the first stream is a part of the concatenation.
LEMMA PartOfFirst ==
    ASSUME NEW s \in Seq(Token), NEW t \in Seq(Token),
           NEW i \in Nat, NEW j \in Nat, i <= j, j <= Len(s)
    PROVE  SubSeq(s \o t, i + 1, j) = SubSeq(s, i + 1, j)
<1> DEFINE all == s \o t
           u == SubSeq(s, i + 1, j)
           v == SubSeq(all, i + 1, j)
<1>1. /\ all \in Seq(Token) /\ Len(all) = Len(s) + Len(t)
      /\ Len(s) \in Nat /\ Len(t) \in Nat
      /\ \A k \in 1..Len(s) : all[k] = s[k]
  BY ConcatProperties, LenProperties
<1> HIDE DEF all
<1>2. j <= Len(all)
  BY <1>1
<1>3. /\ u \in Seq(Token) /\ Len(u) = j - i
      /\ v \in Seq(Token) /\ Len(v) = j - i
  BY <1>1, <1>2, StreamPart
<1>4. \A k \in 1..(j - i) : u[k] = v[k]
  BY <1>1, <1>2, PartElements
<1> HIDE DEF u, v
<1>5. u = v
  BY <1>3, <1>4, SeqEqual
<1> QED
  BY <1>5 DEF u, v, all

\* A part of the second stream is a part of the concatenation.
LEMMA PartOfSecond ==
    ASSUME NEW s \in Seq(Token), NEW t \in Seq(Token),
           NEW i \in Nat, NEW j \in Nat, i <= j, j <= Len(t)
    PROVE  SubSeq(s \o t, Len(s) + i + 1, Len(s) + j) = SubSeq(t, i + 1, j)
<1> DEFINE all == s \o t
           n == Len(s)
           u == SubSeq(t, i + 1, j)
           v == SubSeq(all, (n + i) + 1, n + j)
<1>1. /\ all \in Seq(Token) /\ Len(all) = n + Len(t)
      /\ n \in Nat /\ Len(t) \in Nat
      /\ \A k \in 1..Len(t) : all[n + k] = t[k]
  BY ConcatProperties, LenProperties
<1> HIDE DEF all, n
<1>2. /\ n + i \in Nat /\ n + j \in Nat /\ n + i <= n + j /\ n + j <= Len(all)
      /\ (n + j) - (n + i) = j - i
  BY <1>1
<1>3. u \in Seq(Token) /\ Len(u) = j - i
  BY StreamPart
<1>4. v \in Seq(Token) /\ Len(v) = (n + j) - (n + i)
  BY <1>1, <1>2, StreamPart
<1>5. \A k \in 1..(j - i) : u[k] = t[i + k] /\ i + k \in 1..Len(t)
  BY PartElements
<1>6. \A k \in 1..((n + j) - (n + i)) : v[k] = all[(n + i) + k]
  BY <1>1, <1>2, PartElements
<1> HIDE DEF u, v
<1>7. \A k \in 1..(j - i) : u[k] = v[k]
  <2> TAKE k \in 1..(j - i)
  <2>1. u[k] = t[i + k] /\ i + k \in 1..Len(t)
    BY <1>5
  <2>2. v[k] = all[(n + i) + k]
    BY <1>2, <1>6
  <2>3. (n + i) + k = n + (i + k)
    BY <1>1
  <2> QED
    BY <1>1, <2>1, <2>2, <2>3
<1>8. u = v
  BY <1>2, <1>3, <1>4, <1>7, SeqEqual
<1> QED
  BY <1>8 DEF u, v, all, n

\* A part up to the end of the first stream, and the start of the second.
LEMMA PartAcross ==
    ASSUME NEW s \in Seq(Token), NEW t \in Seq(Token),
           NEW i \in Nat, i <= Len(s), NEW j \in Nat, j <= Len(t)
    PROVE  SubSeq(s \o t, i + 1, Len(s) + j) = SubSeq(s, i + 1, Len(s)) \o SubSeq(t, 1, j)
<1> DEFINE all == s \o t
           n == Len(s)
           a == SubSeq(s, i + 1, n)
           b == SubSeq(t, 0 + 1, j)
           u == a \o b
           v == SubSeq(all, i + 1, n + j)
<1>1. /\ all \in Seq(Token) /\ Len(all) = n + Len(t)
      /\ n \in Nat /\ Len(t) \in Nat
      /\ \A k \in 1..n : all[k] = s[k]
      /\ \A k \in 1..Len(t) : all[n + k] = t[k]
  BY ConcatProperties, LenProperties
<1>2. a \in Seq(Token) /\ Len(a) = n - i
  BY <1>1, StreamPart
<1>3. \A k \in 1..(n - i) : a[k] = s[i + k] /\ i + k \in 1..n
  BY <1>1, PartElements
<1>4. b \in Seq(Token) /\ Len(b) = j
  BY StreamPart
<1>5. \A k \in 1..j : b[k] = t[k]
  BY PartElements
<1> HIDE DEF all, n, a, b
<1>6. /\ u \in Seq(Token) /\ Len(u) = (n - i) + j
      /\ \A k \in 1..(n - i) : u[k] = a[k]
      /\ \A k \in 1..j : u[(n - i) + k] = b[k]
  <2>1. /\ u \in Seq(Token) /\ Len(u) = Len(a) + Len(b)
        /\ \A k \in 1..(Len(a) + Len(b)) : u[k] = IF k <= Len(a) THEN a[k] ELSE b[k - Len(a)]
    BY <1>2, <1>4, ConcatProperties
  <2>2. n - i \in Nat
    BY <1>1 DEF n
  <2> DEFINE m == n - i
  <2> HIDE DEF u, m
  <2>3. Len(a) = m /\ Len(b) = j /\ m \in Nat
    BY <1>2, <1>4, <2>2 DEF m
  <2>4. /\ \A k \in 1..m : u[k] = a[k]
        /\ \A k \in 1..j : u[m + k] = b[k]
    BY <2>1, <2>3
  <2> QED
    BY <2>1, <2>3, <2>4 DEF m
<1>7. n + j \in Nat /\ i <= n + j /\ n + j <= Len(all) /\ i <= n
  BY <1>1 DEF n
<1>8. v \in Seq(Token) /\ Len(v) = (n + j) - i
  BY <1>1, <1>7, StreamPart
<1>9. \A k \in 1..((n + j) - i) : v[k] = all[i + k]
  BY <1>1, <1>7, PartElements
<1> HIDE DEF u, v
<1>10. \A k \in 1..((n + j) - i) : u[k] = v[k]
  <2> TAKE k \in 1..((n + j) - i)
  <2>1. CASE k <= n - i
    <3>1. k \in 1..(n - i)
      BY <1>1, <1>7, <2>1
    <3> QED
      BY <1>1, <1>3, <1>6, <1>9, <3>1
  <2>2. CASE ~(k <= n - i)
    <3> DEFINE l == k - (n - i)
    <3>1. l \in 1..j /\ (n - i) + l = k /\ i + k = n + l /\ l \in 1..Len(t)
      BY <1>1, <1>7, <2>2
    <3> HIDE DEF l
    <3>2. u[k] = t[l]
      BY <1>5, <1>6, <3>1
    <3>3. v[k] = t[l]
      BY <1>1, <1>9, <3>1
    <3> QED
      BY <3>2, <3>3
  <2> QED
    BY <2>1, <2>2
<1>11. u = v
  <2>1. Len(u) = Len(v) /\ Len(u) = (n + j) - i
    BY <1>1, <1>6, <1>8
  <2>2. \A k \in 1..Len(u) : u[k] = v[k]
    BY <1>10, <2>1
  <2> QED
    BY <1>6, <1>8, <2>1, <2>2, SeqEqual
<1>12. b = SubSeq(t, 1, j)
  <2>1. 0 + 1 = 1
    OBVIOUS
  <2> QED
    BY <2>1 DEF b
<1> QED
  BY <1>11, <1>12, Zenon DEF u, v, all, n, a

-----------------------------------------------------------------------------
(* Adding to streams that are cut *)

\* The stream gets something in front.
LEMMA SplitsPrefix ==
    ASSUME NEW S, NEW p \in Seq(S), NEW s \in Seq(Token), NEW pre \in Seq(Token),
           NEW from \in Nat, Splits(p, s, from)
    PROVE  Splits(p, pre \o s, Len(pre) + from)
<1> DEFINE m == Len(p)
           n == Len(pre)
           all == pre \o s
<1>1. /\ m \in Nat /\ n \in Nat /\ Len(s) \in Nat
      /\ all \in Seq(Token) /\ Len(all) = n + Len(s)
  BY ConcatProperties, LenProperties
<1>2. PICK cut \in [1..(m + 1) -> Nat] : Cuts(p, s, from, cut)
  BY DEF Splits
<1>3. /\ cut[1] = from /\ cut[m + 1] = Len(s)
      /\ \A i \in 1..m : /\ cut[i] \in Nat /\ cut[i + 1] \in Nat
                          /\ cut[i] <= cut[i + 1] /\ cut[i + 1] <= Len(s)
                          /\ p[i].tokens = SubSeq(s, cut[i] + 1, cut[i + 1])
  BY <1>2, Zenon DEF Cuts
<1>5. \A i \in 1..m : SubSeq(all, n + cut[i] + 1, n + cut[i + 1]) = p[i].tokens
  <2> TAKE i \in 1..m
  <2>1. SubSeq(all, n + cut[i] + 1, n + cut[i + 1]) = SubSeq(s, cut[i] + 1, cut[i + 1])
    BY <1>3, PartOfSecond
  <2> QED
    BY <1>3, <2>1
<1> HIDE DEF all, n, m
<1> DEFINE moved == [i \in 1..(m + 1) |-> n + cut[i]]
<1>4. /\ moved \in [1..(m + 1) -> Nat]
      /\ moved[1] = n + from /\ moved[m + 1] = Len(all)
      /\ \A i \in 1..m : moved[i] = n + cut[i] /\ moved[i + 1] = n + cut[i + 1]
  <2>1. \A i \in 1..m : i \in 1..(m + 1) /\ i + 1 \in 1..(m + 1)
    BY <1>1
  <2>2. 1 \in 1..(m + 1) /\ m + 1 \in 1..(m + 1)
    BY <1>1
  <2>3. \A i \in 1..(m + 1) : cut[i] \in Nat
    BY DEF m
  <2> QED
    BY <1>1, <1>3, <2>1, <2>2, <2>3
<1> HIDE DEF moved
<1>6. \A i \in 1..m : /\ moved[i] <= moved[i + 1] /\ moved[i + 1] <= Len(all)
                       /\ p[i].tokens = SubSeq(all, moved[i] + 1, moved[i + 1])
  <2> TAKE i \in 1..m
  <2>1. /\ moved[i] = n + cut[i] /\ moved[i + 1] = n + cut[i + 1]
        /\ cut[i] \in Nat /\ cut[i + 1] \in Nat
        /\ cut[i] <= cut[i + 1] /\ cut[i + 1] <= Len(s)
    BY <1>3, <1>4
  <2>2. moved[i] <= moved[i + 1] /\ moved[i + 1] <= Len(all)
    BY <1>1, <2>1
  <2>3. p[i].tokens = SubSeq(all, n + cut[i] + 1, n + cut[i + 1])
    BY <1>5
  <2> QED
    BY <2>1, <2>2, <2>3
<1>7. Cuts(p, all, n + from, moved)
  <2>1. \A i \in 1..m : moved[i] \in Nat /\ moved[i + 1] \in Nat
    BY <1>1, <1>4
  <2> QED
    BY <1>4, <1>6, <2>1 DEF Cuts, m
<1> QED
  BY <1>4, <1>7 DEF Splits, all, n, m

\* The stream, and the pieces, get one more piece.
LEMMA SplitsAppend ==
    ASSUME NEW S, NEW p \in Seq(S), NEW x \in S, NEW s \in Seq(Token),
           x.tokens \in Seq(Token), NEW from \in Nat, Splits(p, s, from)
    PROVE  Splits(Append(p, x), s \o x.tokens, from)
<1> DEFINE m == Len(p)
           t == x.tokens
           q == Append(p, x)
           all == s \o t
<1>1. /\ m \in Nat /\ Len(s) \in Nat /\ Len(t) \in Nat
      /\ all \in Seq(Token) /\ Len(all) = Len(s) + Len(t)
  BY ConcatProperties, LenProperties
<1>2. /\ Len(q) = m + 1 /\ q[m + 1] = x
      /\ \A i \in 1..m : q[i] = p[i]
  BY <1>1, AppendProperties
<1>3. PICK cut \in [1..(m + 1) -> Nat] : Cuts(p, s, from, cut)
  BY DEF Splits
<1>4. /\ cut[1] = from /\ cut[m + 1] = Len(s)
      /\ \A i \in 1..m : /\ cut[i] \in Nat /\ cut[i + 1] \in Nat
                          /\ cut[i] <= cut[i + 1] /\ cut[i + 1] <= Len(s)
                          /\ p[i].tokens = SubSeq(s, cut[i] + 1, cut[i + 1])
  BY <1>3, Zenon DEF Cuts
<1>6. t = SubSeq(all, Len(s) + 1, Len(all))
  <2>1. t = SubSeq(all, Len(s) + 1, Len(s) + Len(t))
    BY SubSeqOfConcat
  <2> QED
    BY <1>1, <2>1
<1>7. \A i \in 1..m : SubSeq(all, cut[i] + 1, cut[i + 1]) = p[i].tokens
  <2> TAKE i \in 1..m
  <2>1. SubSeq(all, cut[i] + 1, cut[i + 1]) = SubSeq(s, cut[i] + 1, cut[i + 1])
    BY <1>4, PartOfFirst
  <2> QED
    BY <1>4, <2>1
<1> HIDE DEF all, t, q, m
<1> DEFINE more == [i \in 1..(m + 2) |-> IF i = m + 2 THEN Len(all) ELSE cut[i]]
<1>5. /\ more \in [1..(m + 2) -> Nat]
      /\ more[m + 2] = Len(all)
      /\ \A i \in 1..(m + 1) : more[i] = cut[i]
  BY <1>1
<1> HIDE DEF more
<1>8. \A i \in 1..(m + 1) : /\ more[i] <= more[i + 1] /\ more[i + 1] <= Len(all)
                             /\ q[i].tokens = SubSeq(all, more[i] + 1, more[i + 1])
  <2> TAKE i \in 1..(m + 1)
  <2>1. CASE i = m + 1
    <3>1. more[i] = Len(s) /\ more[i + 1] = Len(all) /\ q[i].tokens = t
      BY <1>1, <1>2, <1>4, <1>5, <2>1 DEF t
    <3> QED
      BY <1>1, <1>6, <3>1
  <2>2. CASE i # m + 1
    <3>1. i \in 1..m /\ i \in 1..(m + 1) /\ i + 1 \in 1..(m + 1)
      BY <1>1, <2>2
    <3>2. more[i] = cut[i] /\ more[i + 1] = cut[i + 1] /\ q[i] = p[i]
      BY <1>2, <1>5, <3>1
    <3>3. cut[i + 1] \in Nat /\ cut[i + 1] <= Len(s)
      BY <1>4, <3>1
    <3>4. cut[i + 1] <= Len(all)
      BY <1>1, <3>3
    <3> QED
      BY <1>4, <1>7, <3>1, <3>2, <3>4
  <2> QED
    BY <2>1, <2>2
<1>9. Len(q) = m + 1 /\ Len(q) + 1 = m + 2 /\ more[1] = from
  BY <1>1, <1>2, <1>4, <1>5
<1>10. Cuts(q, all, from, more)
  <2>1. \A i \in 1..(m + 1) : more[i] \in Nat /\ more[i + 1] \in Nat
    BY <1>1, <1>5
  <2> QED
    BY <1>5, <1>8, <1>9, <2>1 DEF Cuts
<1> QED
  BY <1>5, <1>9, <1>10 DEF Splits, q, all, t, m

\* The stream, and its last piece, get more tokens.
LEMMA SplitsJoin ==
    ASSUME NEW S, NEW p \in Seq(S), p # <<>>, NEW s \in Seq(Token), NEW t \in Seq(Token),
           NEW from \in Nat, Splits(p, s, from),
           NEW q, Len(q) = Len(p),
           \A i \in 1..(Len(p) - 1) : q[i] = p[i],
           q[Len(p)].tokens = p[Len(p)].tokens \o t
    PROVE  Splits(q, s \o t, from)
<1> DEFINE m == Len(p)
           all == s \o t
<1>1. /\ m \in Nat \ {0} /\ Len(s) \in Nat /\ Len(t) \in Nat
      /\ all \in Seq(Token) /\ Len(all) = Len(s) + Len(t)
  BY ConcatProperties, LenProperties, EmptySeq
<1>2. PICK cut \in [1..(m + 1) -> Nat] : Cuts(p, s, from, cut)
  BY DEF Splits
<1>3. /\ cut[1] = from /\ cut[m + 1] = Len(s)
      /\ \A i \in 1..m : /\ cut[i] \in Nat /\ cut[i + 1] \in Nat
                          /\ cut[i] <= cut[i + 1] /\ cut[i + 1] <= Len(s)
                          /\ p[i].tokens = SubSeq(s, cut[i] + 1, cut[i + 1])
  BY <1>2, Zenon DEF Cuts
<1>4. m \in 1..m
  BY <1>1
<1>5. q[m].tokens = SubSeq(all, cut[m] + 1, Len(all))
  <2>1. cut[m] \in Nat /\ cut[m] <= Len(s) /\ p[m].tokens = SubSeq(s, cut[m] + 1, Len(s))
    BY <1>3, <1>4
  <2>2. SubSeq(t, 1, Len(t)) = t
    BY StreamWhole
  <2>3. SubSeq(all, cut[m] + 1, Len(s) + Len(t))
          = SubSeq(s, cut[m] + 1, Len(s)) \o SubSeq(t, 1, Len(t))
    <3>1. Len(t) \in Nat /\ Len(t) <= Len(t)
      BY <1>1
    <3> QED
      BY <2>1, <3>1, PartAcross
  <2>4. q[m].tokens = p[m].tokens \o t
    OBVIOUS
  <2> HIDE DEF all, m
  <2> QED
    BY <1>1, <2>1, <2>2, <2>3, <2>4
<1>6. \A i \in 1..(m - 1) : SubSeq(all, cut[i] + 1, cut[i + 1]) = p[i].tokens
  <2>1. \A i \in 1..(m - 1) : i \in 1..m
    BY <1>1
  <2> TAKE i \in 1..(m - 1)
  <2>2. SubSeq(all, cut[i] + 1, cut[i + 1]) = SubSeq(s, cut[i] + 1, cut[i + 1])
    BY <1>3, <2>1, PartOfFirst
  <2> QED
    BY <1>3, <2>1, <2>2
<1>11. Len(q) = m /\ \A i \in 1..(m - 1) : q[i] = p[i]
  OBVIOUS
<1> HIDE DEF all, m
<1> DEFINE more == [cut EXCEPT ![m + 1] = Len(all)]
<1>7. /\ more \in [1..(m + 1) -> Nat]
      /\ more[m + 1] = Len(all)
      /\ \A i \in 1..m : more[i] = cut[i]
  BY <1>1
<1> HIDE DEF more
<1>8. \A i \in 1..m : /\ more[i] <= more[i + 1] /\ more[i + 1] <= Len(all)
                       /\ q[i].tokens = SubSeq(all, more[i] + 1, more[i + 1])
  <2> TAKE i \in 1..m
  <2>1. CASE i = m
    <3>1. /\ more[i] = cut[m] /\ more[i + 1] = Len(all)
          /\ cut[m] \in Nat /\ cut[m] <= Len(s)
          /\ q[i].tokens = SubSeq(all, cut[m] + 1, Len(all))
      BY <1>3, <1>4, <1>5, <1>7, <2>1
    <3> QED
      BY <1>1, <3>1
  <2>2. CASE i # m
    <3>1. i \in 1..(m - 1) /\ i + 1 \in 1..m
      BY <1>1, <2>2
    <3>2. more[i] = cut[i] /\ more[i + 1] = cut[i + 1] /\ q[i] = p[i]
      BY <1>7, <1>11, <3>1
    <3>3. cut[i + 1] \in Nat /\ cut[i + 1] <= Len(s)
      BY <1>3
    <3>4. cut[i + 1] <= Len(all)
      BY <1>1, <3>3
    <3> QED
      BY <1>3, <1>6, <3>1, <3>2, <3>4
  <2> QED
    BY <2>1, <2>2
<1>9. more[1] = from
  BY <1>1, <1>3, <1>7
<1>10. Cuts(q, all, from, more)
  <2>1. \A i \in 1..m : more[i] \in Nat /\ more[i + 1] \in Nat
    BY <1>1, <1>7
  <2> QED
    BY <1>7, <1>8, <1>9, <1>11, <2>1 DEF Cuts
<1> QED
  BY <1>7, <1>10, <1>11 DEF Splits, all

\* Two parts that meet.
LEMMA PartsMeet ==
    ASSUME NEW s \in Seq(Token), NEW i \in Nat, NEW j \in Nat, i <= j, j <= Len(s)
    PROVE  SubSeq(s, 1, i) \o SubSeq(s, i + 1, j) = SubSeq(s, 1, j)
<1> DEFINE a == SubSeq(s, 0 + 1, i)
           b == SubSeq(s, i + 1, j)
           u == a \o b
           v == SubSeq(s, 0 + 1, j)
<1>1. /\ a \in Seq(Token) /\ Len(a) = i
      /\ b \in Seq(Token) /\ Len(b) = j - i
      /\ v \in Seq(Token) /\ Len(v) = j
  <2>1. Len(s) \in Nat /\ i <= Len(s) /\ 0 <= i /\ 0 <= j /\ i - 0 = i /\ j - 0 = j
    BY LenProperties
  <2>2. a \in Seq(Token) /\ Len(a) = i - 0
    BY <2>1, StreamPart
  <2>3. b \in Seq(Token) /\ Len(b) = j - i
    BY <2>1, StreamPart
  <2>4. v \in Seq(Token) /\ Len(v) = j - 0
    BY <2>1, StreamPart
  <2> QED
    BY <2>1, <2>2, <2>3, <2>4
<1>2. /\ \A k \in 1..i : a[k] = s[k]
      /\ \A k \in 1..(j - i) : b[k] = s[i + k]
      /\ \A k \in 1..j : v[k] = s[k]
  <2>1. Len(s) \in Nat /\ i <= Len(s)
    BY LenProperties
  <2>2. \A k \in 1..(i - 0) : a[k] = s[0 + k]
    BY <2>1, PartElements
  <2>3. \A k \in 1..(j - i) : b[k] = s[i + k]
    BY <2>1, PartElements
  <2>4. \A k \in 1..(j - 0) : v[k] = s[0 + k]
    BY <2>1, PartElements
  <2> HIDE DEF a, b, v
  <2> QED
    BY <2>2, <2>3, <2>4
<1> HIDE DEF a, b, v
<1>3. /\ u \in Seq(Token) /\ Len(u) = Len(a) + Len(b)
      /\ \A k \in 1..(Len(a) + Len(b)) : u[k] = IF k <= Len(a) THEN a[k] ELSE b[k - Len(a)]
  BY <1>1, ConcatProperties
<1> HIDE DEF u
<1>4. \A k \in 1..j : u[k] = v[k]
  <2> TAKE k \in 1..j
  <2>1. CASE k <= i
    <3>1. k \in 1..i /\ k \in 1..(Len(a) + Len(b))
      BY <1>1, <2>1
    <3> QED
      BY <1>1, <1>2, <1>3, <2>1, <3>1
  <2>2. CASE ~(k <= i)
    <3>1. k - i \in 1..(j - i) /\ i + (k - i) = k
      BY <2>2
    <3>2. u[k] = b[k - i]
      BY <1>1, <1>3, <2>2
    <3> QED
      BY <1>2, <3>1, <3>2
  <2> QED
    BY <2>1, <2>2
<1>5. u = v
  <2>1. Len(u) = j
    BY <1>1, <1>3
  <2> QED
    BY <1>1, <1>3, <1>4, <2>1, SeqEqual
<1>6. 0 + 1 = 1
  OBVIOUS
<1> QED
  BY <1>5, <1>6, Zenon DEF u, v, a, b

-----------------------------------------------------------------------------
(* What the methods do to streams that are cut *)

LEMMA RankedFacts ==
    ASSUME NEW ret \in Ret
    PROVE  /\ Ranked(ret) \in Ret
           /\ Ranked(ret).tokens = ret.tokens
           /\ Ranked(ret).async = ret.async
           /\ ret.tokens # <<>> => Ranked(ret).rank \in Rank
BY RankAssumption DEF Ranked, Ret

\* Buffered chunks stay a cut of what the sibling sent.
LEMMA ConcatTokens ==
    ASSUME NEW chunks \in Seq(Chunk), NEW ret \in Ret, NEW s \in Seq(Token),
           NEW from \in Nat, Splits(chunks, s, from)
    PROVE  /\ concatTokens(chunks, ret) \in Seq(Chunk)
           /\ Splits(concatTokens(chunks, ret), s \o ret.tokens, from)
<1> DEFINE n == Len(chunks)
           t == ret.tokens
           x == [tokens |-> t, rank |-> Ranked(ret).rank]
<1>1. n \in Nat /\ t \in Seq(Token)
  BY LenProperties DEF Ret
<1>2. CASE t = <<>>
  <2>1. s \o t = s
    BY <1>2, ConcatEmptySeq
  <2> QED
    BY <1>2, <2>1 DEF concatTokens
<1>3. CASE t # <<>> /\ n > 0 /\ chunks[n].rank = Ranked(ret).rank
  <2> DEFINE q == [chunks EXCEPT ![n].tokens = @ \o t]
  <2>1. concatTokens(chunks, ret) = q
    BY <1>3 DEF concatTokens
  <2>2. n \in 1..n /\ chunks # <<>> /\ chunks[n] \in Chunk
    BY <1>1, <1>3, ElementOfSeq, EmptySeq
  <2>3. [chunks[n] EXCEPT !.tokens = @ \o t] \in Chunk
    BY <1>1, <2>2, ConcatProperties DEF Chunk
  <2>4. /\ q \in Seq(Chunk) /\ Len(q) = n
        /\ \A i \in 1..(n - 1) : q[i] = chunks[i]
        /\ q[n] = [chunks[n] EXCEPT !.tokens = @ \o t]
    <3> DEFINE e == [chunks[n] EXCEPT !.tokens = @ \o t]
               r == [chunks EXCEPT ![n] = e]
    <3>1. q = r
      OBVIOUS
    <3> HIDE DEF q, e
    <3>2. /\ r \in Seq(Chunk) /\ Len(r) = n
          /\ \A i \in 1..n : r[i] = IF i = n THEN e ELSE chunks[i]
      <4>1. e \in Chunk
        BY <2>3 DEF e
      <4> QED
        BY <2>2, <4>1, ExceptSeq
    <3> HIDE DEF r
    <3>3. /\ \A i \in 1..(n - 1) : r[i] = chunks[i]
          /\ r[n] = e
      BY <1>1, <2>2, <3>2
    <3> QED
      BY <3>1, <3>2, <3>3 DEF e
  <2>5. q[n].tokens = chunks[n].tokens \o t
    BY <2>2, <2>4 DEF Chunk
  <2> HIDE DEF q
  <2>6. Splits(q, s \o t, from)
    BY <1>1, <2>2, <2>4, <2>5, SplitsJoin
  <2> QED
    BY <2>1, <2>4, <2>6
<1>4. CASE t # <<>> /\ ~(n > 0 /\ chunks[n].rank = Ranked(ret).rank)
  <2>1. concatTokens(chunks, ret) = Append(chunks, x)
    BY <1>4 DEF concatTokens
  <2>2. x \in Chunk /\ x.tokens = t
    BY <1>1, <1>4, RankedFacts DEF Chunk
  <2> HIDE DEF x
  <2>3. Append(chunks, x) \in Seq(Chunk)
    BY <2>2, AppendProperties
  <2>4. Splits(Append(chunks, x), s \o x.tokens, from)
    BY <1>1, <2>2, SplitsAppend
  <2> QED
    BY <2>1, <2>2, <2>3, <2>4
<1> QED
  BY <1>2, <1>3, <1>4

LEMMA FunctionIsSeq ==
    ASSUME NEW S, NEW n \in Nat, NEW f \in [1..n -> S]
    PROVE  f \in Seq(S) /\ Len(f) = n
OBVIOUS

\* Passing chunks on keeps the cut; only the last call can be the final one.
LEMMA EmitTokens ==
    ASSUME NEW chunks \in Seq(Chunk), NEW async \in BOOLEAN, NEW s, NEW from,
           Splits(chunks, s, from)
    PROVE  LET emitted == emitTokens(chunks, async)
           IN  /\ emitted \in Seq(Ret) /\ emitted # <<>>
               /\ chunks # <<>> => Splits(emitted, s, from)
               /\ \A i \in 1..Len(emitted) :
                     emitted[i].async <=> (i < Len(emitted) \/ async)
<1> DEFINE n == Len(chunks)
           emitted == emitTokens(chunks, async)
<1>1. n \in Nat
  BY LenProperties
<1>2. CASE chunks = <<>>
  <2> DEFINE x == [tokens |-> <<>>, rank |-> NoRank, async |-> async]
  <2>1. x \in Ret /\ x.async = async
    BY EmptySeq DEF Ret
  <2>2. emitted = <<x>>
    BY <1>2 DEF emitTokens
  <2> HIDE DEF x
  <2> HIDE DEF emitted
  <2>3. emitted \in Seq(Ret) /\ Len(emitted) = 1 /\ emitted[1] = x
    BY <2>1, <2>2
  <2>4. emitted # <<>>
    BY <2>3, EmptySeq
  <2>5. \A i \in 1..Len(emitted) : emitted[i].async <=> (i < Len(emitted) \/ async)
    BY <2>1, <2>3
  <2> QED
    BY <1>2, <2>3, <2>4, <2>5 DEF emitted
<1>3. CASE chunks # <<>>
  <2>1. n > 0
    BY <1>1, <1>3, EmptySeq
  <2>2. emitted = [i \in 1..n |-> [tokens |-> chunks[i].tokens, rank |-> chunks[i].rank,
                                   async |-> IF i < n THEN TRUE ELSE async]]
    BY <1>3 DEF emitTokens
  <2>3. \A i \in 1..n : chunks[i] \in Chunk
    BY ElementOfSeq
  <2> HIDE DEF emitted, n
  <2>3a. \A i \in 1..n : emitted[i] \in Ret
    BY <2>2, <2>3 DEF Ret, Chunk
  <2>3b. \A i \in 1..n : chunks[i].tokens = emitted[i].tokens
    BY <2>2
  <2>4. \A i \in 1..n : emitted[i].async <=> (i < n \/ async)
    BY <2>2
  <2>5. emitted \in Seq(Ret) /\ Len(emitted) = n
    <3>1. emitted \in [1..n -> Ret]
      BY <2>2, <2>3a
    <3> QED
      BY <1>1, <3>1, FunctionIsSeq
  <2>7. Splits(emitted, s, from)
    BY <1>1, <2>3b, <2>5, SplitsSame DEF n
  <2>8. emitted # <<>>
    BY <2>1, <2>5, EmptySeq
  <2>9. \A i \in 1..Len(emitted) : emitted[i].async <=> (i < Len(emitted) \/ async)
    BY <2>4, <2>5
  <2> QED
    BY <2>5, <2>7, <2>8, <2>9 DEF emitted
<1> QED
  BY <1>2, <1>3

\* The last call of the child: its tokens and, after them, all that was
\* buffered, in calls of which only the last can be the final one.
LEMMA ChildDone ==
    ASSUME NEW a, a \in [waitForChild : BOOLEAN, waitForSibling : BOOLEAN,
                         siblingChunks : Seq(Chunk)],
           NEW ret \in Ret, ~ret.async,
           NEW pre \in Seq(Token), NEW sib \in Seq(Token),
           Splits(a.siblingChunks, sib, 0)
    PROVE  LET made == receiveToksFromChild(a, ret).calls
           IN  /\ made \in Seq(Ret) /\ made # <<>>
               /\ Splits(made, (pre \o ret.tokens) \o sib, Len(pre))
               /\ \A i \in 1..Len(made) :
                     made[i].async <=> (i < Len(made) \/ a.waitForSibling)
<1> DEFINE t      == ret.tokens
           s      == pre \o t
           chunks == a.siblingChunks
           joins  == JoinsChild(a, ret)
           rest   == IF joins THEN Tail(chunks) ELSE chunks
           first  == [tokens |-> IF joins THEN t \o chunks[1].tokens ELSE t,
                      rank   |-> Ranked(ret).rank,
                      async  |-> ret.async \/ a.waitForSibling \/ rest # <<>>]
           more   == IF rest = <<>> THEN <<>> ELSE emitTokens(rest, a.waitForSibling)
           made   == receiveToksFromChild(a, ret).calls
<1>1. made = <<first>> \o more
  BY DEF receiveToksFromChild
<1>2. /\ t \in Seq(Token) /\ chunks \in Seq(Chunk) /\ a.waitForSibling \in BOOLEAN
      /\ s \in Seq(Token) /\ Len(s) = Len(pre) + Len(t)
      /\ Len(pre) \in Nat /\ Len(t) \in Nat /\ Len(sib) \in Nat
  <2>1. t \in Seq(Token)
    BY DEF Ret
  <2> QED
    BY <2>1, ConcatProperties, LenProperties
<1>3. \E n \in Nat : /\ n <= Len(sib)
                      /\ rest \in Seq(Chunk)
                      /\ Splits(rest, sib, n)
                      /\ first.tokens = t \o SubSeq(sib, 1, n)
  <2>1. CASE joins
    <3> DEFINE n == Len(chunks[1].tokens)
    <3>1. chunks # <<>>
      BY <2>1 DEF JoinsChild
    <3>2. /\ n \in Nat /\ 0 + n <= Len(sib)
          /\ chunks[1].tokens = SubSeq(sib, 0 + 1, 0 + n)
          /\ Splits(Tail(chunks), sib, 0 + n)
      BY <1>2, <3>1, SplitsFirst
    <3>3. Tail(chunks) \in Seq(Chunk)
      BY <1>2, <3>1, HeadTailProperties
    <3>4. 0 + n = n /\ 0 + 1 = 1
      BY <3>2
    <3> QED
      BY <2>1, <3>2, <3>3, <3>4
  <2>2. CASE ~joins
    <3>1. SubSeq(sib, 1, 0) = <<>>
      BY SubSeqEmpty
    <3>2. t \o SubSeq(sib, 1, 0) = t
      BY <1>2, <3>1, ConcatEmptySeq
    <3>3. rest = chunks /\ first.tokens = t
      BY <2>2
    <3>4. 0 \in Nat /\ 0 <= Len(sib)
      BY <1>2
    <3>5. rest \in Seq(Chunk) /\ Splits(rest, sib, 0)
      BY <1>2, <3>3, Zenon
    <3> HIDE DEF rest, first, t
    <3> QED
      BY <3>2, <3>3, <3>4, <3>5
  <2> QED
    BY <2>1, <2>2
<1>4. PICK n \in Nat : /\ n <= Len(sib)
                        /\ rest \in Seq(Chunk)
                        /\ Splits(rest, sib, n)
                        /\ first.tokens = t \o SubSeq(sib, 1, n)
  BY <1>3
<1> DEFINE all == s \o sib
<1>5. all \in Seq(Token) /\ Len(all) = Len(s) + Len(sib)
  BY <1>2, ConcatProperties
<1>6. first.tokens = SubSeq(all, Len(pre) + 1, Len(s) + n)
  <2>1. SubSeq(all, Len(pre) + 1, Len(s) + n)
          = SubSeq(s, Len(pre) + 1, Len(s)) \o SubSeq(sib, 1, n)
    <3> DEFINE k == Len(pre)
    <3>1. k \in Nat /\ k <= Len(s) /\ s \in Seq(Token) /\ n <= Len(sib)
      BY <1>2, <1>4
    <3> HIDE DEF s, k
    <3>2. SubSeq(s \o sib, k + 1, Len(s) + n) = SubSeq(s, k + 1, Len(s)) \o SubSeq(sib, 1, n)
      BY <3>1, PartAcross
    <3> QED
      BY <3>2 DEF k
  <2>2. SubSeq(s, Len(pre) + 1, Len(pre) + Len(t)) = t
    BY <1>2, SubSeqOfConcat
  <2> HIDE DEF s, all, t, first
  <2> QED
    BY <1>2, <1>4, <2>1, <2>2
<1>7. Splits(rest, all, Len(s) + n)
  BY <1>2, <1>4, SplitsPrefix
<1>8. first \in Ret
  <2>1. /\ (IF joins THEN t \o chunks[1].tokens ELSE t) \in Seq(Token)
    <3>1. CASE joins
      <4>1. chunks # <<>>
        BY <3>1 DEF JoinsChild
      <4>2. chunks[1] \in Chunk
        BY <1>2, <4>1, ElementOfSeq, EmptySeq
      <4> QED
        BY <1>2, <3>1, <4>2, ConcatProperties DEF Chunk
    <3>2. CASE ~joins
      BY <1>2, <3>2
    <3> QED
      BY <3>1, <3>2
  <2>2. Ranked(ret).rank \in Rank \cup {NoRank}
    BY RankedFacts DEF Ret
  <2>3. (ret.async \/ a.waitForSibling \/ rest # <<>>) \in BOOLEAN
    OBVIOUS
  <2> QED
    BY <2>1, <2>2, <2>3 DEF Ret
<1>9. first.async <=> (a.waitForSibling \/ rest # <<>>)
  OBVIOUS
<1> HIDE DEF first, rest, all, s, t, chunks
<1>10. /\ more \in Seq(Ret)
       /\ more # <<>> <=> rest # <<>>
       /\ Splits(more, all, Len(s) + n)
  <2>1. CASE rest = <<>>
    <3>1. more = <<>> /\ <<>> \in Seq(Ret)
      BY <2>1, EmptySeq
    <3> QED
      BY <1>7, <2>1, <3>1
  <2>2. CASE rest # <<>>
    BY <1>2, <1>4, <1>7, <2>2, EmitTokens
  <2> QED
    BY <2>1, <2>2
<1>11. \A i \in 1..Len(more) : more[i].async <=> (i < Len(more) \/ a.waitForSibling)
  <2>1. CASE rest = <<>>
    <3>1. more = <<>> /\ Len(<<>>) = 0
      BY <2>1, EmptySeq
    <3> QED
      BY <3>1
  <2>2. CASE rest # <<>>
    BY <1>2, <1>4, <1>7, <2>2, EmitTokens
  <2> QED
    BY <2>1, <2>2
<1> HIDE DEF more, made
<1>12. Len(pre) + (Len(t) + n) = Len(s) + n /\ Len(t) + n \in Nat /\ Len(s) + n <= Len(all)
  BY <1>2, <1>4, <1>5
<1>13. Splits(made, all, Len(pre))
  <2> DEFINE d == Len(t) + n
             e == Len(s) + n
  <2> HIDE DEF d, e
  <2>1. /\ d \in Nat /\ Len(pre) + d = e /\ e <= Len(all)
        /\ first.tokens = SubSeq(all, Len(pre) + 1, e)
        /\ Splits(more, all, e)
    BY <1>6, <1>10, <1>12 DEF d, e
  <2>2. Splits(<<first>> \o more, all, Len(pre))
    BY <1>2, <1>5, <1>8, <1>10, <2>1, SplitsCons
  <2> QED
    BY <1>1, <2>2
<1>14. /\ made \in Seq(Ret) /\ Len(made) = 1 + Len(more) /\ Len(more) \in Nat
       /\ made[1] = first
       /\ \A i \in 1..Len(more) : made[i + 1] = more[i]
  <2>1. <<first>> \in Seq(Ret) /\ Len(<<first>>) = 1 /\ <<first>>[1] = first
    BY <1>8
  <2>2. Len(more) \in Nat
    BY <1>10, LenProperties
  <2>3. /\ made \in Seq(Ret) /\ Len(made) = 1 + Len(more)
        /\ \A i \in 1..(1 + Len(more)) : made[i] = IF i <= 1 THEN <<first>>[i] ELSE more[i - 1]
    BY <1>1, <1>10, <2>1, ConcatProperties
  <2> QED
    BY <2>1, <2>2, <2>3
<1>15. \A i \in 1..Len(made) : made[i].async <=> (i < Len(made) \/ a.waitForSibling)
  <2> TAKE i \in 1..Len(made)
  <2>1. CASE i = 1
    <3>1. 1 < Len(made) <=> rest # <<>>
      <4>1. Len(more) > 0 <=> more # <<>>
        BY <1>10, <1>14, EmptySeq
      <4> QED
        BY <1>10, <1>14, <4>1
    <3> QED
      BY <1>9, <1>14, <2>1, <3>1
  <2>2. CASE i # 1
    <3> DEFINE k == i - 1
    <3>1. k \in 1..Len(more) /\ made[k + 1] = made[i] /\ (k < Len(more) <=> i < Len(made))
      BY <1>14, <2>2
    <3> HIDE DEF k
    <3>2. made[i] = more[k]
      BY <1>14, <3>1
    <3> QED
      BY <1>11, <3>1, <3>2
  <2> QED
    BY <2>1, <2>2
<1>16. made # <<>>
  BY <1>14, EmptySeq
<1> QED
  BY <1>13, <1>14, <1>15, <1>16 DEF made, all, s, t

-----------------------------------------------------------------------------
(* The inductive invariant *)

\* What the parent is to be given, as far as the accumulator knows it.
Due == IF childOpen THEN childIn ELSE childIn \o sibIn

\* What the parent was given is a start of that, and the calls still to be
\* made are the rest of it.
Delivering ==
    /\ Len(out) <= Len(Due)
    /\ out = SubSeq(Due, 1, Len(out))
    /\ Splits(calls, Due, Len(out))

\* The tokens that wait for the child are all that the sibling sent.
Buffering ==
    IF childOpen THEN Splits(acc.siblingChunks, sibIn, 0) ELSE acc.siblingChunks = <<>>

\* The accumulator knows who is done, unless the sibling bypasses it.
Flags ==
    /\ acc.waitForChild = childOpen
    /\ direct => ~childOpen
    /\ ~direct => acc.waitForSibling = sibOpen

\* Only the last call that is due when both are done is a final one.
Finality ==
    /\ \A i \in 1..Len(calls) :
          calls[i].async = (i < Len(calls) \/ childOpen \/ sibOpen)
    /\ closed = (calls = <<>> /\ ~childOpen /\ ~sibOpen)

IInv == TypeOK /\ Delivering /\ Buffering /\ Flags /\ Finality

LEMMA InitIInv == Init => IInv
<1> SUFFICES ASSUME Init PROVE IInv
  OBVIOUS
<1>1. <<>> \in Seq(Token) /\ <<>> \in Seq(Chunk) /\ <<>> \in Seq(Ret) /\ Len(<<>>) = 0
  BY EmptySeq
<1>2. TypeOK
  BY <1>1 DEF Init, TypeOK, NewAccumulator
<1>3. Splits(<<>>, <<>>, 0)
  BY <1>1, SplitsNone
<1>4. Delivering
  <2>1. Due = <<>> /\ out = <<>> /\ calls = <<>>
    BY DEF Init, Due
  <2>2. SubSeq(<<>>, 1, 0) = <<>>
    BY SubSeqEmpty
  <2> QED
    BY <1>1, <1>3, <2>1, <2>2 DEF Delivering
<1>5. Buffering /\ Flags
  BY <1>3 DEF Init, Buffering, Flags, NewAccumulator
<1>6. Finality
  <2>1. 1..Len(calls) = {}
    BY <1>1 DEF Init
  <2> QED
    BY <2>1 DEF Init, Finality
<1> QED
  BY <1>2, <1>4, <1>5, <1>6 DEF IInv

\* Between calls, the parent has been given all that is due.
LEMMA AllGiven ==
    ASSUME IInv, calls = <<>>
    PROVE  out = Due /\ Due \in Seq(Token) /\ Len(out) = Len(Due)
<1>1. Due \in Seq(Token) /\ out \in Seq(Token)
  BY ConcatProperties DEF IInv, TypeOK, Due
<1>2. Len(out) \in Nat
  BY <1>1, LenProperties
<1>3. Len(out) = Len(Due)
  BY <1>1, <1>2, SplitsNone DEF IInv, Delivering
<1>4. SubSeq(Due, 1, Len(Due)) = Due
  BY <1>1, StreamWhole
<1> QED
  BY <1>1, <1>3, <1>4 DEF IInv, Delivering

LEMMA StreamsAssociative ==
    ASSUME NEW s \in Seq(Token), NEW t \in Seq(Token), NEW u \in Seq(Token)
    PROVE  s \o (t \o u) = (s \o t) \o u
BY ConcatAssociative

\* What was given stays a start of what is due when more becomes due.
LEMMA MoreDue ==
    ASSUME NEW s \in Seq(Token), NEW t \in Seq(Token)
    PROVE  Len(s) <= Len(s \o t) /\ s = SubSeq(s \o t, 1, Len(s))
<1>1. Len(s \o t) = Len(s) + Len(t) /\ Len(s) \in Nat /\ Len(t) \in Nat
  BY ConcatProperties, LenProperties
<1> QED
  BY <1>1, SubSeqOfConcat

LEMMA ChildReturnsIInv ==
    ASSUME IInv, NEW ret \in Call, ChildReturns(ret)
    PROVE  IInv'
<1> DEFINE t == ret.tokens
           result == receiveToksFromChild(acc, ret)
<1>1. /\ ret \in Ret /\ t \in Seq(Token) /\ ret.async \in BOOLEAN
      /\ calls = <<>> /\ childOpen = TRUE /\ direct = FALSE
      /\ acc \in [waitForChild : BOOLEAN, waitForSibling : BOOLEAN, siblingChunks : Seq(Chunk)]
      /\ childIn \in Seq(Token) /\ sibIn \in Seq(Token) /\ out \in Seq(Token)
      /\ closed \in BOOLEAN /\ sibOpen \in BOOLEAN
  BY CallAssumption DEF ChildReturns, IInv, TypeOK, Flags, Ret
<1>2. /\ acc' = result.acc /\ calls' = result.calls
      /\ childOpen' = ret.async
      /\ childIn' = childIn \o t
      /\ direct' = FALSE /\ sibOpen' = sibOpen /\ sibIn' = sibIn
      /\ out' = out /\ closed' = closed
  BY <1>1 DEF ChildReturns
<1>3. /\ out = childIn
      /\ acc.waitForSibling = sibOpen /\ acc.waitForChild = TRUE
      /\ Splits(acc.siblingChunks, sibIn, 0)
      /\ closed = FALSE
  BY <1>1, AllGiven DEF IInv, Due, Flags, Buffering, Finality
<1>4. childIn' \in Seq(Token)
  BY <1>1, <1>2, ConcatProperties
<1>5. CASE ret.async
  <2> DEFINE x == [tokens |-> t, rank |-> Ranked(ret).rank, async |-> TRUE]
  <2>1. result.acc = acc /\ result.calls = <<x>>
    BY <1>1, <1>5 DEF receiveToksFromChild, JoinsChild
  <2>2. x \in Ret /\ x.tokens = t /\ x.async = TRUE
    BY <1>1, RankedFacts DEF Ret
  <2> HIDE DEF x, result
  <2>3. TypeOK'
    <3>1. calls' \in Seq(Ret)
      BY <1>2, <2>1, <2>2
    <3> QED
      BY <1>1, <1>2, <1>4, <1>5, <2>1, <3>1 DEF TypeOK
  <2>4. Delivering'
    <3>1. Due' = childIn \o t
      BY <1>2, <1>5 DEF Due
    <3>2. Splits(<<x>>, childIn \o x.tokens, Len(childIn))
      BY <1>1, <2>2, SplitsOne
    <3>3. Len(childIn) <= Len(childIn \o t) /\ childIn = SubSeq(childIn \o t, 1, Len(childIn))
      BY <1>1, MoreDue
    <3> QED
      BY <1>2, <1>3, <2>1, <2>2, <3>1, <3>2, <3>3 DEF Delivering
  <2>5. Buffering' /\ Flags'
    BY <1>1, <1>2, <1>3, <1>5, <2>1 DEF Buffering, Flags
  <2>6. Finality'
    <3>1. calls' = <<x>> /\ Len(<<x>>) = 1 /\ <<x>>[1] = x
      BY <1>2, <2>1
    <3>2. childOpen' = TRUE /\ closed' = FALSE
      BY <1>1, <1>2, <1>3, <1>5
    <3>3. calls' # <<>> /\ 1..Len(calls') = {1} /\ Len(calls') = 1
      BY <3>1, EmptySeq
    <3>4. \A i \in 1..Len(calls') : calls'[i].async = TRUE
      BY <2>2, <3>1, <3>3
    <3> QED
      BY <3>2, <3>3, <3>4 DEF Finality
  <2> QED
    BY <2>3, <2>4, <2>5, <2>6 DEF IInv
<1>6. CASE ~ret.async
  <2>1. result.acc = [acc EXCEPT !.waitForChild = FALSE, !.siblingChunks = <<>>]
    BY <1>6 DEF receiveToksFromChild
  <2>2. /\ result.calls \in Seq(Ret) /\ result.calls # <<>>
        /\ Splits(result.calls, (childIn \o t) \o sibIn, Len(childIn))
        /\ \A i \in 1..Len(result.calls) :
              result.calls[i].async <=> (i < Len(result.calls) \/ acc.waitForSibling)
    BY <1>1, <1>3, <1>6, ChildDone
  <2> HIDE DEF result
  <2>3. childOpen' = FALSE
    BY <1>1, <1>2, <1>6
  <2>4. TypeOK'
    <3>1. acc' \in [waitForChild : BOOLEAN, waitForSibling : BOOLEAN, siblingChunks : Seq(Chunk)]
      BY <1>1, <1>2, <2>1, EmptySeq
    <3> QED
      BY <1>1, <1>2, <1>4, <2>2, <2>3, <3>1 DEF TypeOK
  <2>5. Delivering'
    <3>1. Due' = (childIn \o t) \o sibIn
      BY <1>2, <2>3 DEF Due
    <3>2. childIn \o (t \o sibIn) = (childIn \o t) \o sibIn
      <4>1. childIn \in Seq(Token) /\ t \in Seq(Token) /\ sibIn \in Seq(Token)
        BY <1>1
      <4> HIDE DEF t
      <4> QED
        BY <4>1, StreamsAssociative
    <3>3. t \o sibIn \in Seq(Token)
      BY <1>1, ConcatProperties
    <3>4. /\ Len(childIn) <= Len((childIn \o t) \o sibIn)
          /\ childIn = SubSeq((childIn \o t) \o sibIn, 1, Len(childIn))
      BY <1>1, <3>2, <3>3, MoreDue
    <3> QED
      BY <1>2, <1>3, <2>2, <3>1, <3>4 DEF Delivering
  <2>6. Buffering' /\ Flags'
    BY <1>1, <1>2, <1>3, <2>1, <2>3 DEF Buffering, Flags
  <2>7. Finality'
    <3>1. closed' = FALSE /\ calls' # <<>>
      BY <1>2, <1>3, <2>2
    <3>2. \A i \in 1..Len(result.calls) : result.calls[i] \in Ret
      BY <2>2, ElementOfSeq
    <3>3. \A i \in 1..Len(result.calls) :
             result.calls[i].async = (i < Len(result.calls) \/ sibOpen)
      BY <1>1, <1>3, <2>2, <3>2 DEF Ret
    <3> QED
      BY <1>2, <2>3, <3>1, <3>3 DEF Finality
  <2> QED
    BY <2>4, <2>5, <2>6, <2>7 DEF IInv
<1> QED
  BY <1>1, <1>5, <1>6

\* A call of the parent with what the sibling has just sent.
LEMMA PassedOn ==
    ASSUME IInv, ~childOpen, calls = <<>>, sibOpen,
           NEW t \in Seq(Token),
           sibIn' = sibIn \o t, childIn' = childIn, childOpen' = childOpen, out' = out,
           Splits(calls', Due \o t, Len(Due))
    PROVE  Delivering'
<1>1. out = Due /\ Due \in Seq(Token)
  BY AllGiven
<1>2. childIn \in Seq(Token) /\ sibIn \in Seq(Token)
  BY DEF IInv, TypeOK
<1>3. Due' = childIn \o (sibIn \o t) /\ Due = childIn \o sibIn
  BY DEF Due
<1>4. Due' = Due \o t
  BY <1>2, <1>3, StreamsAssociative
<1>5. Len(Due) <= Len(Due \o t) /\ Due = SubSeq(Due \o t, 1, Len(Due))
  BY <1>1, MoreDue
<1> QED
  BY <1>1, <1>4, <1>5 DEF Delivering

LEMMA SiblingReturnsIInv ==
    ASSUME IInv, NEW ret \in Call, SiblingReturns(ret)
    PROVE  IInv'
<1> DEFINE t == ret.tokens
           waits == acc.waitForSibling /\ ret.async
           result == receiveToksFromSibling(acc, ret)
<1>1. /\ ret \in Ret /\ t \in Seq(Token) /\ ret.async \in BOOLEAN
      /\ calls = <<>> /\ sibOpen = TRUE /\ direct = FALSE
      /\ acc \in [waitForChild : BOOLEAN, waitForSibling : BOOLEAN, siblingChunks : Seq(Chunk)]
      /\ childIn \in Seq(Token) /\ sibIn \in Seq(Token) /\ out \in Seq(Token)
      /\ closed \in BOOLEAN /\ childOpen \in BOOLEAN
  BY CallAssumption DEF SiblingReturns, IInv, TypeOK, Ret
<1>2. /\ acc' = result.acc /\ calls' = result.calls
      /\ direct' \in {FALSE, result.direct}
      /\ sibOpen' = ret.async
      /\ sibIn' = sibIn \o t
      /\ childOpen' = childOpen /\ childIn' = childIn
      /\ out' = out /\ closed' = closed
  BY <1>1 DEF SiblingReturns
<1>3. /\ out = Due /\ Due \in Seq(Token)
      /\ acc.waitForSibling = TRUE /\ acc.waitForChild = childOpen
      /\ closed = FALSE
      /\ waits = ret.async
  BY <1>1, AllGiven DEF IInv, Flags, Finality
<1>4. sibIn' \in Seq(Token)
  BY <1>1, <1>2, ConcatProperties
<1>5. CASE childOpen
  <2>1. /\ result.acc = [acc EXCEPT !.waitForSibling = waits,
                                    !.siblingChunks = concatTokens(@, ret)]
        /\ result.calls = <<>> /\ result.direct = FALSE
    BY <1>3, <1>5 DEF receiveToksFromSibling
  <2>2. Splits(acc.siblingChunks, sibIn, 0)
    BY <1>5 DEF IInv, Buffering
  <2>3. /\ concatTokens(acc.siblingChunks, ret) \in Seq(Chunk)
        /\ Splits(concatTokens(acc.siblingChunks, ret), sibIn \o t, 0)
    BY <1>1, <2>2, ConcatTokens
  <2> HIDE DEF result, waits
  <2>4. /\ acc' \in [waitForChild : BOOLEAN, waitForSibling : BOOLEAN, siblingChunks : Seq(Chunk)]
        /\ acc'.waitForChild = TRUE /\ acc'.waitForSibling = ret.async
        /\ acc'.siblingChunks = concatTokens(acc.siblingChunks, ret)
        /\ calls' = <<>> /\ direct' = FALSE
    BY <1>1, <1>2, <1>3, <1>5, <2>1, <2>3
  <2>5. TypeOK'
    <3>1. calls' \in Seq(Ret)
      BY <2>4, EmptySeq
    <3> QED
      BY <1>1, <1>2, <1>4, <2>4, <3>1 DEF TypeOK
  <2>6. Delivering'
    BY <1>1, <1>2, <1>5, <2>4 DEF IInv, Delivering, Due
  <2>7. Buffering' /\ Flags'
    BY <1>2, <1>5, <2>3, <2>4 DEF Buffering, Flags
  <2>8. Finality'
    <3>1. 1..Len(calls') = {}
      BY <2>4, EmptySeq
    <3> QED
      BY <1>2, <1>3, <1>5, <3>1 DEF Finality
  <2> QED
    BY <2>5, <2>6, <2>7, <2>8 DEF IInv
<1>6. CASE ~childOpen /\ ret.async
  <2> DEFINE x == Ranked(ret)
  <2>1. /\ result.acc = acc /\ result.calls = <<x>> /\ result.direct = TRUE
    BY <1>3, <1>6 DEF receiveToksFromSibling
  <2>2. x \in Ret /\ x.tokens = t /\ x.async = TRUE
    BY <1>1, <1>6, RankedFacts DEF Ret
  <2> HIDE DEF x, result
  <2>3. /\ acc' = acc /\ calls' = <<x>> /\ direct' \in BOOLEAN
        /\ calls' \in Seq(Ret) /\ calls' # <<>> /\ Len(calls') = 1 /\ calls'[1] = x
    <3>1. acc' = acc /\ calls' = <<x>> /\ direct' \in BOOLEAN
      BY <1>2, <2>1
    <3>2. <<x>> \in Seq(Ret) /\ Len(<<x>>) = 1 /\ <<x>>[1] = x
      BY <2>2
    <3> QED
      BY <3>1, <3>2, EmptySeq
  <2>4. TypeOK'
    BY <1>1, <1>2, <1>4, <2>3 DEF TypeOK
  <2>5. Delivering'
    <3>1. Splits(<<x>>, Due \o x.tokens, Len(Due))
      BY <1>1, <1>3, <2>2, SplitsOne
    <3> QED
      BY <1>1, <1>2, <1>6, <2>2, <2>3, <3>1, PassedOn
  <2>6. Buffering' /\ Flags'
    BY <1>1, <1>2, <1>3, <1>6, <2>3 DEF IInv, Buffering, Flags
  <2>7. Finality'
    <3>1. \A i \in 1..Len(calls') : calls'[i].async = TRUE
      BY <2>2, <2>3
    <3> QED
      BY <1>1, <1>2, <1>3, <1>6, <2>3, <3>1 DEF Finality
  <2> QED
    BY <2>4, <2>5, <2>6, <2>7 DEF IInv
<1>7. CASE ~childOpen /\ ~ret.async
  <2> DEFINE chunks == concatTokens(acc.siblingChunks, ret)
             made == emitTokens(chunks, FALSE)
  <2>1. /\ result.acc = [acc EXCEPT !.waitForSibling = FALSE, !.siblingChunks = <<>>]
        /\ result.calls = made /\ result.direct = FALSE
    BY <1>3, <1>7 DEF receiveToksFromSibling
  <2>2. acc.siblingChunks = <<>>
    BY <1>7 DEF IInv, Buffering
  <2>3. Splits(acc.siblingChunks, Due, Len(Due))
    <3>1. Len(Due) \in Nat
      BY <1>3, LenProperties
    <3> QED
      BY <1>3, <2>2, <3>1, SplitsNone
  <2>4. chunks \in Seq(Chunk) /\ Splits(chunks, Due \o t, Len(Due))
    <3>1. Len(Due) \in Nat
      BY <1>3, LenProperties
    <3> QED
      BY <1>1, <1>3, <2>3, <3>1, ConcatTokens
  <2> HIDE DEF chunks
  <2>5. /\ made \in Seq(Ret) /\ made # <<>>
        /\ chunks # <<>> => Splits(made, Due \o t, Len(Due))
        /\ \A i \in 1..Len(made) : made[i].async <=> (i < Len(made) \/ FALSE)
    BY <2>4, EmitTokens
  <2>6. Splits(made, Due \o t, Len(Due))
    <3>1. CASE chunks = <<>>
      <4> DEFINE x == [tokens |-> <<>>, rank |-> NoRank, async |-> FALSE]
      <4>1. made = <<x>> /\ x \in Ret /\ x.tokens = <<>>
        BY <3>1, EmptySeq DEF emitTokens, Ret
      <4>2. t = <<>>
        <5>1. t # <<>> => Len(Append(<<>>, [tokens |-> t, rank |-> Ranked(ret).rank])) = 1
          OBVIOUS
        <5>2. t # <<>> => chunks = Append(<<>>, [tokens |-> t, rank |-> Ranked(ret).rank])
          BY <2>2, EmptySeq DEF concatTokens, chunks
        <5> QED
          BY <3>1, <5>1, <5>2, EmptySeq
      <4> HIDE DEF x, made
      <4>3. Splits(<<x>>, Due \o x.tokens, Len(Due))
        BY <1>3, <4>1, EmptySeq, SplitsOne
      <4> QED
        BY <4>1, <4>2, <4>3
    <3> QED
      BY <2>5, <3>1
  <2> HIDE DEF made, result
  <2>7. /\ acc' \in [waitForChild : BOOLEAN, waitForSibling : BOOLEAN, siblingChunks : Seq(Chunk)]
        /\ acc'.waitForChild = FALSE /\ acc'.waitForSibling = FALSE
        /\ acc'.siblingChunks = <<>>
        /\ calls' = made /\ direct' = FALSE
    BY <1>1, <1>2, <1>3, <1>7, <2>1, EmptySeq
  <2>8. TypeOK'
    BY <1>1, <1>2, <1>4, <2>5, <2>7 DEF TypeOK
  <2>9. Delivering'
    BY <1>1, <1>2, <1>7, <2>6, <2>7, PassedOn
  <2>10. Buffering' /\ Flags'
    BY <1>1, <1>2, <1>7, <2>7 DEF Buffering, Flags
  <2>11. Finality'
    <3>1. \A i \in 1..Len(made) : made[i] \in Ret
      BY <2>5, ElementOfSeq
    <3>2. \A i \in 1..Len(made) : made[i].async = (i < Len(made))
      BY <2>5, <3>1 DEF Ret
    <3> QED
      BY <1>1, <1>2, <1>3, <1>7, <2>5, <2>7, <3>2 DEF Finality
  <2> QED
    BY <2>8, <2>9, <2>10, <2>11 DEF IInv
<1> QED
  BY <1>1, <1>5, <1>6, <1>7

LEMMA SiblingBypassesIInv ==
    ASSUME IInv, NEW ret \in Call, SiblingBypasses(ret)
    PROVE  IInv'
<1> DEFINE t == ret.tokens
<1>1. /\ ret \in Ret /\ t \in Seq(Token) /\ ret.async \in BOOLEAN
      /\ calls = <<>> /\ sibOpen = TRUE /\ direct = TRUE /\ childOpen = FALSE
      /\ sibIn \in Seq(Token) /\ closed = FALSE
  BY CallAssumption DEF SiblingBypasses, IInv, TypeOK, Ret, Flags, Finality
<1>2. /\ calls' = <<ret>> /\ sibOpen' = ret.async /\ sibIn' = sibIn \o t
      /\ acc' = acc /\ direct' = direct /\ childOpen' = childOpen /\ childIn' = childIn
      /\ out' = out /\ closed' = closed
  BY DEF SiblingBypasses
<1>3. calls' \in Seq(Ret) /\ Len(calls') = 1 /\ calls'[1] = ret /\ calls' # <<>>
  BY <1>1, <1>2, EmptySeq
<1>4. TypeOK'
  <2>1. sibIn' \in Seq(Token)
    BY <1>1, <1>2, ConcatProperties
  <2> QED
    BY <1>1, <1>2, <1>3, <2>1 DEF IInv, TypeOK
<1>5. Delivering'
  <2>1. Due \in Seq(Token)
    BY <1>1, AllGiven
  <2>2. Splits(<<ret>>, Due \o ret.tokens, Len(Due))
    BY <1>1, <2>1, SplitsOne
  <2> QED
    BY <1>1, <1>2, <2>2, PassedOn
<1>6. Buffering' /\ Flags'
  BY <1>1, <1>2 DEF IInv, Buffering, Flags
<1>7. Finality'
  <2>1. \A i \in 1..Len(calls') : calls'[i].async = ret.async /\ ~(i < Len(calls'))
    BY <1>3
  <2> QED
    BY <1>1, <1>2, <1>3, <2>1 DEF Finality
<1> QED
  BY <1>4, <1>5, <1>6, <1>7 DEF IInv

LEMMA CallParentIInv ==
    ASSUME IInv, CallParent
    PROVE  IInv'
<1> DEFINE n == Len(calls[1].tokens)
<1>1. /\ calls \in Seq(Ret) /\ calls # <<>> /\ Head(calls) = calls[1]
      /\ out \in Seq(Token) /\ closed = FALSE /\ Due \in Seq(Token)
      /\ childOpen \in BOOLEAN /\ sibOpen \in BOOLEAN
  <2>1. Due \in Seq(Token)
    BY ConcatProperties DEF IInv, TypeOK, Due
  <2>2. calls # <<>> /\ Head(calls) = calls[1]
    BY DEF CallParent
  <2> QED
    BY <2>1, <2>2 DEF IInv, TypeOK, Finality
<1>2. /\ out' = out \o calls[1].tokens
      /\ closed' = ~calls[1].async
      /\ calls' = Tail(calls)
      /\ acc' = acc /\ direct' = direct /\ childOpen' = childOpen /\ sibOpen' = sibOpen
      /\ childIn' = childIn /\ sibIn' = sibIn /\ Due' = Due
  BY <1>1 DEF CallParent, Due
<1>3. /\ Len(calls) \in Nat \ {0} /\ 1 \in 1..Len(calls) /\ calls[1] \in Ret
      /\ calls' \in Seq(Ret) /\ Len(calls') = Len(calls) - 1
      /\ \A i \in 1..(Len(calls) - 1) : calls'[i] = calls[i + 1]
  <2>1. /\ calls' \in Seq(Ret) /\ Len(calls') = Len(calls) - 1
        /\ \A i \in 1..Len(Tail(calls)) : Tail(calls)[i] = calls[i + 1]
    BY <1>1, <1>2, HeadTailProperties
  <2>2. Len(calls) \in Nat \ {0}
    BY <1>1, EmptySeq
  <2>3. 1 \in 1..Len(calls)
    BY <2>2
  <2> QED
    BY <1>1, <1>2, <2>1, <2>2, <2>3, ElementOfSeq
<1>4. /\ Len(out) \in Nat /\ Len(out) <= Len(Due)
      /\ out = SubSeq(Due, 1, Len(out)) /\ Splits(calls, Due, Len(out))
  BY <1>1, LenProperties DEF IInv, Delivering
<1>5. /\ n \in Nat /\ Len(out) + n <= Len(Due)
      /\ calls[1].tokens = SubSeq(Due, Len(out) + 1, Len(out) + n)
      /\ Splits(Tail(calls), Due, Len(out) + n)
  BY <1>1, <1>4, SplitsFirst
<1>6. out' \in Seq(Token) /\ Len(out') = Len(out) + n
  <2>1. calls[1].tokens \in Seq(Token)
    BY <1>3 DEF Ret
  <2> QED
    BY <1>1, <1>2, <2>1, ConcatProperties
<1>7. out' = SubSeq(Due, 1, Len(out) + n)
  <2>1. SubSeq(Due, 1, Len(out)) \o SubSeq(Due, Len(out) + 1, Len(out) + n)
          = SubSeq(Due, 1, Len(out) + n)
    <3> DEFINE i == Len(out)
               j == Len(out) + n
    <3>1. i \in Nat /\ j \in Nat /\ i <= j /\ j <= Len(Due)
      BY <1>4, <1>5
    <3> HIDE DEF i, j
    <3>2. SubSeq(Due, 1, i) \o SubSeq(Due, i + 1, j) = SubSeq(Due, 1, j)
      BY <1>1, <3>1, PartsMeet
    <3> QED
      BY <3>2 DEF i, j
  <2> QED
    BY <1>2, <1>4, <1>5, <2>1
<1> HIDE DEF n
<1>8. TypeOK'
  <2>1. closed' \in BOOLEAN
    BY <1>2
  <2> QED
    BY <1>2, <1>3, <1>6, <2>1 DEF IInv, TypeOK
<1>9. Delivering'
  BY <1>2, <1>5, <1>6, <1>7 DEF Delivering
<1>10. Buffering' /\ Flags'
  BY <1>2 DEF IInv, Buffering, Flags
<1>11. Finality'
  <2>1. \A i \in 1..Len(calls) : calls[i].async = (i < Len(calls) \/ childOpen \/ sibOpen)
    BY DEF IInv, Finality
  <2>2. \A i \in 1..Len(calls') :
           calls'[i].async = (i < Len(calls') \/ childOpen' \/ sibOpen')
    <3> TAKE i \in 1..Len(calls')
    <3>1. i + 1 \in 1..Len(calls) /\ calls'[i] = calls[i + 1]
          /\ (i + 1 < Len(calls) <=> i < Len(calls'))
      BY <1>3
    <3>2. calls[i + 1].async = (i + 1 < Len(calls) \/ childOpen \/ sibOpen)
      BY <2>1, <3>1
    <3> QED
      BY <1>2, <3>1, <3>2
  <2>3. calls' = <<>> <=> ~(1 < Len(calls))
    <3>1. calls' = <<>> <=> Len(calls') = 0
      BY <1>3, EmptySeq
    <3> QED
      BY <1>3, <3>1
  <2>4. calls[1].async = (1 < Len(calls) \/ childOpen \/ sibOpen)
    BY <1>3, <2>1
  <2>5. closed' = (calls' = <<>> /\ ~childOpen' /\ ~sibOpen')
    BY <1>2, <2>3, <2>4
  <2> QED
    BY <2>2, <2>5 DEF Finality
<1> QED
  BY <1>8, <1>9, <1>10, <1>11 DEF IInv

LEMMA NextIInv == IInv /\ [Next]_vars => IInv'
<1> SUFFICES ASSUME IInv, [Next]_vars PROVE IInv'
  OBVIOUS
<1>1. ASSUME NEW ret \in Call, ChildReturns(ret) PROVE IInv'
  BY <1>1, ChildReturnsIInv
<1>2. ASSUME NEW ret \in Call, SiblingReturns(ret) PROVE IInv'
  BY <1>2, SiblingReturnsIInv
<1>3. ASSUME NEW ret \in Call, SiblingBypasses(ret) PROVE IInv'
  BY <1>3, SiblingBypassesIInv
<1>4. CASE CallParent
  BY <1>4, CallParentIInv
<1>5. CASE UNCHANGED vars
  BY <1>5 DEF vars, IInv, TypeOK, Delivering, Due, Buffering, Flags, Finality
<1> QED
  BY <1>1, <1>2, <1>3, <1>4, <1>5 DEF Next

-----------------------------------------------------------------------------
(* Theorems *)

\* The inductive invariant holds, for any tokens, ranks and calls.
THEOREM AccumulatorInvariant == Spec => []IInv
<1>1. Init => IInv
  BY InitIInv
<1>2. IInv /\ [Next]_vars => IInv'
  BY NextIInv
<1> QED
  BY <1>1, <1>2, PTL DEF Spec

\* The accumulator's fields, the calls and the streams have their types.
THEOREM AccumulatorTypeOK == Spec => []TypeOK
<1>1. IInv => TypeOK
  BY DEF IInv
<1> QED
  BY <1>1, AccumulatorInvariant, PTL

\* The parent gets the child's tokens and then the sibling's, whole and in
\* order, whatever the order in which receiveToksFromChild and
\* receiveToksFromSibling are called.
THEOREM AccumulatorInOrder == Spec => []InOrder
<1>1. IInv => InOrder
  <2> SUFFICES ASSUME IInv, calls = <<>> PROVE out = Due
    BY DEF InOrder, Due
  <2> QED
    BY AllGiven
<1> QED
  BY <1>1, AccumulatorInvariant, PTL

\* The final call of the parent is made when child and sibling are both done.
THEOREM AccumulatorClosedWhenDone == Spec => []ClosedWhenDone
<1>1. IInv => ClosedWhenDone
  BY DEF IInv, Finality, ClosedWhenDone
<1> QED
  BY <1>1, AccumulatorInvariant, PTL

\* No call of the parent follows the final one.
THEOREM AccumulatorNoCallAfterClose == Spec => NoCallAfterClose
<1>1. IInv /\ [Next]_vars => [closed => calls = <<>> /\ UNCHANGED <<out, closed>>]_vars
  <2> SUFFICES ASSUME IInv, Next, closed PROVE calls = <<>> /\ UNCHANGED <<out, closed>>
    OBVIOUS
  <2>1. calls = <<>> /\ ~childOpen /\ ~sibOpen
    BY DEF IInv, TypeOK, Finality
  <2> QED
    BY <2>1 DEF Next, ChildReturns, SiblingReturns, SiblingBypasses, CallParent
<1> QED
  BY <1>1, AccumulatorInvariant, PTL DEF Spec, NoCallAfterClose
=============================================================================
