---------------------------- MODULE SequenceFolds ----------------------------
(***************************************************************************)
(* What FoldLeft computes, for every sequence: the last of the values that *)
(* op gives when it is applied to one element after the other.             *)
(*                                                                         *)
(* The code folds over lists in many places, and a proof about it needs    *)
(* induction over the length of the list.  The induction principle is      *)
(* stated for sets of natural numbers, so that it can be used without an   *)
(* operator as a parameter: NatByStep follows from the well-foundedness of *)
(* <, and with it every fold is shown to exist.  The operator itself is a  *)
(* constant of this module, for which a proof substitutes its own in an    *)
(* INSTANCE.                                                               *)
(***************************************************************************)
EXTENDS Naturals, SequencesExt, SequenceTheorems, WellFoundedInduction, NaturalsInduction, TLAPS

CONSTANT op(_, _)

-----------------------------------------------------------------------------
(* Induction *)

\* A non-empty set of natural numbers has a least element.
LEMMA LeastNat ==
    ASSUME NEW S \in SUBSET Nat, S # {}
    PROVE  \E n \in S : \A m \in S : n <= m
<1> DEFINE R == OpToRel(<, Nat)
<1>1. PICK n \in S : \A m \in S : <<m, n>> \notin R
    BY WFMin, NatLessThanWellFounded
<1>2. \A a, b \in Nat : a < b => <<a, b>> \in R
    BY DEF OpToRel
<1> HIDE DEF R
<1>3. \A m \in S : ~(m < n)
    <2> TAKE m \in S
    <2>1. m \in Nat /\ n \in Nat
        OBVIOUS
    <2> QED BY <1>1, <1>2, <2>1, Zenon
<1>4. \A m \in S : n <= m
    <2> TAKE m \in S
    <2> QED BY <1>3
<1> QED BY <1>4, Zenon

\* A set that contains 0, and n + 1 with every n, contains every natural number.
LEMMA NatByStep ==
    ASSUME NEW S \in SUBSET Nat, 0 \in S, \A n \in S : n + 1 \in S
    PROVE  S = Nat
<1> SUFFICES ASSUME S # Nat PROVE FALSE
    OBVIOUS
<1>1. PICK n \in Nat \ S : \A m \in Nat \ S : n <= m
    BY LeastNat
<1> QED BY <1>1

\* The same up to a number.
LEMMA UpToByStep ==
    ASSUME NEW N \in Nat, NEW S \in SUBSET (0..N), 0 \in S, \A n \in S : n < N => n + 1 \in S
    PROVE  S = 0..N
<1> DEFINE U == {n \in Nat : n <= N => n \in S}
<1>1. 0 \in U /\ U \in SUBSET Nat
    OBVIOUS
<1>2. ASSUME NEW n \in U PROVE n + 1 \in U
    OBVIOUS
<1>3. U = Nat
    <2> HIDE DEF U
    <2> QED BY <1>1, <1>2, NatByStep
<1>4. ASSUME NEW n \in 0..N PROVE n \in S
    <2>1. n \in U /\ n <= N
        BY <1>3
    <2> QED BY <2>1
<1> QED BY <1>4

-----------------------------------------------------------------------------
(* The function that MapThenFoldSet defines, on the sets of indices 1..N *)

LEMMA MaxOfPrefix ==
    ASSUME NEW n \in Nat, NEW s \in SUBSET (1..(n + 1)), s # {}
    PROVE  /\ Max(s) \in s
           /\ n + 1 \in s => Max(s) = n + 1
<1> DEFINE S == {m \in Nat : \A y \in s : m >= y}
<1>1. n + 1 \in S
    OBVIOUS
<1>2. PICK m \in S : \A k \in S : m <= k
    BY <1>1, LeastNat
<1>3. m \in s
    <2> SUFFICES ASSUME m \notin s PROVE FALSE
        OBVIOUS
    <2>1. \A y \in s : m >= y /\ m # y /\ y \in Nat /\ y >= 1
        BY <1>2
    <2>2. m >= 1
        <3>1. PICK y \in s : TRUE
            OBVIOUS
        <3>2. m \in Nat
            BY <1>2
        <3> QED BY <2>1, <3>1, <3>2
    <2>3. m - 1 \in S
        <3>1. m - 1 \in Nat
            BY <2>2
        <3>2. ASSUME NEW y \in s PROVE m - 1 >= y
            BY <2>1
        <3> QED BY <3>1, <3>2
    <2> QED BY <2>3, <1>2
<1>4. \E x \in s : \A y \in s : x >= y
    BY <1>2, <1>3
<1>5. Max(s) \in s /\ \A y \in s : Max(s) >= y
    BY <1>4 DEF Max
<1>6. Max(s) \in 1..(n + 1)
    BY <1>5
<1> QED BY <1>5, <1>6

\* What MapThenFoldSet defines for these sets.
FoldsWith(g, N, base, seq) ==
    g = [s \in SUBSET (1..N) |-> IF s = {} THEN base ELSE op(g[s \ {Max(s)}], seq[Max(s)])]

LEMMA FoldExists ==
    ASSUME NEW N \in Nat, NEW base, NEW seq
    PROVE  \E g : FoldsWith(g, N, base, seq)
<1> DEFINE P(n) == \E g : FoldsWith(g, n, base, seq)
           S == {n \in Nat : P(n)}
<1>1. P(0)
    <2> DEFINE g == [s \in SUBSET (1..0) |-> base]
    <2>1. \A s \in SUBSET (1..0) : s = {}
        OBVIOUS
    <2>2. g = [s \in SUBSET (1..0) |-> IF s = {} THEN base ELSE op(g[s \ {Max(s)}], seq[Max(s)])]
        BY <2>1
    <2> HIDE DEF g
    <2> QED BY <2>2 DEF FoldsWith
<1>2. ASSUME NEW n \in Nat, P(n) PROVE P(n + 1)
    <2>1. PICK g : FoldsWith(g, n, base, seq)
        BY <1>2
    <2> DEFINE rest(s) == s \ {n + 1}
               h == [s \in SUBSET (1..(n + 1)) |->
                        IF n + 1 \in s THEN op(g[rest(s)], seq[n + 1]) ELSE g[s]]
               Fold(f, s) == IF s = {} THEN base ELSE op(f[s \ {Max(s)}], seq[Max(s)])
    <2>2. \A s \in SUBSET (1..(n + 1)) :
              /\ rest(s) \in SUBSET (1..n)
              /\ n + 1 \notin s => s \in SUBSET (1..n)
              /\ n + 1 \notin rest(s)
              /\ rest(s) \in SUBSET (1..(n + 1))
        <3>1. \A x \in 1..(n + 1) : x # n + 1 => x \in 1..n
            OBVIOUS
        <3> QED BY <3>1
    <2>3. \A s \in SUBSET (1..n) : g[s] = Fold(g, s)
        BY <2>1 DEF FoldsWith
    <2>4. ASSUME NEW s \in SUBSET (1..(n + 1)) PROVE h[s] = Fold(h, s)
        <3>1. CASE n + 1 \in s
            <4>1. Max(s) = n + 1 /\ s # {}
                BY <3>1, MaxOfPrefix
            <4>2. h[rest(s)] = g[rest(s)]
                BY <2>2
            <4>3. h[s] = op(g[rest(s)], seq[n + 1])
                BY <3>1
            <4> QED BY <4>1, <4>2, <4>3
        <3>2. CASE n + 1 \notin s
            <4>1. s \in SUBSET (1..n) /\ h[s] = g[s]
                BY <2>2, <3>2
            <4>2. (s \ {Max(s)}) \in SUBSET (1..n) /\ (s \ {Max(s)}) \in SUBSET (1..(n + 1)) /\ n + 1 \notin s \ {Max(s)}
                BY <4>1, <3>2
            <4>3. h[s \ {Max(s)}] = g[s \ {Max(s)}]
                BY <4>2
            <4> QED BY <2>3, <4>1, <4>3
        <3> QED BY <3>1, <3>2
    <2>5. h = [s \in SUBSET (1..(n + 1)) |-> h[s]]
        OBVIOUS
    <2> HIDE DEF h
    <2>6. h = [s \in SUBSET (1..(n + 1)) |-> IF s = {} THEN base ELSE op(h[s \ {Max(s)}], seq[Max(s)])]
        BY <2>4, <2>5
    <2> QED BY <2>6 DEF FoldsWith
<1> HIDE DEF P
<1>3. S = Nat
    <2>1. S \in SUBSET Nat /\ 0 \in S
        BY <1>1
    <2>2. \A n \in S : n + 1 \in S
        BY <1>2
    <2> QED BY <2>1, <2>2, NatByStep
<1>4. P(N)
    BY <1>3
<1> QED BY <1>4 DEF P

-----------------------------------------------------------------------------
(* Folds *)

\* A fold goes through the values h[0], h[1], ... that op gives from element to
\* element.
Steps(h, base, seq) ==
    /\ h[0] = base
    /\ \A n \in 1..Len(seq) : h[n] = op(h[n - 1], seq[n])
    /\ h[Len(seq)] = FoldLeft(op, base, seq)

LEMMA FoldSteps ==
    ASSUME NEW T, NEW seq \in Seq(T), NEW base
    PROVE  \E h : Steps(h, base, seq)
<1> DEFINE len == Len(seq)
           Eq(f) == f = [s \in SUBSET (1..len) |->
                            IF s = {} THEN base ELSE op(f[s \ {Max(s)}], seq[Max(s)])]
           iter == CHOOSE f : Eq(f)
<1>0. len \in Nat /\ DOMAIN seq = 1..len
    OBVIOUS
<1>1. PICK g : FoldsWith(g, len, base, seq)
    <2> HIDE DEF len
    <2> QED BY <1>0, FoldExists
<1>2. Eq(g)
    BY <1>1 DEF FoldsWith
<1>3. Eq(iter)
    <2> HIDE DEF Eq
    <2> QED BY <1>2
<1>4. FoldLeft(op, base, seq) = iter[1..len]
    BY <1>0, Zenon DEF FoldLeft, MapThenFoldSet
<1> HIDE DEF iter
<1>5. \A s \in SUBSET (1..len) : iter[s] = IF s = {} THEN base ELSE op(iter[s \ {Max(s)}], seq[Max(s)])
    BY <1>3
<1> DEFINE h == [n \in 0..len |-> iter[1..n]]
<1>6. h[0] = base
    <2>1. 1..0 = {} /\ {} \in SUBSET (1..len) /\ 0 \in 0..len
        BY <1>0
    <2> QED BY <1>5, <2>1
<1>7. ASSUME NEW n \in 1..len PROVE h[n] = op(h[n - 1], seq[n])
    <2>1. n - 1 \in Nat /\ (n - 1) + 1 = n /\ n \in 0..len /\ n - 1 \in 0..len
        BY <1>0
    <2>2. 1..n \in SUBSET (1..((n - 1) + 1)) /\ n \in 1..n
        BY <2>1
    <2>3. Max(1..n) = n
        BY <2>1, <2>2, MaxOfPrefix
    <2>4. (1..n) \ {n} = 1..(n - 1)
        BY <2>1
    <2>5. 1..n \in SUBSET (1..len) /\ 1..n # {}
        <3>1. \A x \in 1..n : x \in 1..len
            BY <1>0
        <3> QED BY <2>2, <3>1
    <2>6. iter[1..n] = op(iter[1..(n - 1)], seq[n])
        BY <1>5, <2>3, <2>4, <2>5
    <2> QED BY <2>1, <2>6
<1>8. h[len] = FoldLeft(op, base, seq)
    BY <1>0, <1>4
<1> HIDE DEF h
<1> QED BY <1>6, <1>7, <1>8 DEF Steps

\* None of these values leaves a set that op does not lead out of.
LEMMA FoldStays ==
    ASSUME NEW T, NEW seq \in Seq(T), NEW A, NEW base \in A,
           \A a \in A : \A i \in 1..Len(seq) : op(a, seq[i]) \in A
    PROVE  FoldLeft(op, base, seq) \in A
<1>1. PICK h : Steps(h, base, seq)
    BY FoldSteps
<1> DEFINE S == {n \in 0..Len(seq) : h[n] \in A}
<1>2. 0 \in S
    BY <1>1 DEF Steps
<1>3. ASSUME NEW n \in S, n < Len(seq) PROVE n + 1 \in S
    <2>1. n + 1 \in 1..Len(seq) /\ n + 1 \in 0..Len(seq) /\ (n + 1) - 1 = n
        BY <1>3
    <2>2. h[n + 1] = op(h[n], seq[n + 1])
        BY <1>1, <2>1 DEF Steps
    <2> QED BY <2>1, <2>2
<1>4. S = 0..Len(seq)
    <2>1. S \in SUBSET (0..Len(seq)) /\ Len(seq) \in Nat
        OBVIOUS
    <2> HIDE DEF S
    <2> QED BY <1>2, <1>3, <2>1, UpToByStep
<1>5. Len(seq) \in 0..Len(seq)
    OBVIOUS
<1> QED BY <1>1, <1>4, <1>5 DEF Steps

\* What op makes of no element, and of one more.
LEMMA FoldEmpty ==
    ASSUME NEW base
    PROVE  FoldLeft(op, base, <<>>) = base
<1>1. <<>> \in Seq({}) /\ Len(<<>>) = 0
    OBVIOUS
<1>2. PICK h : Steps(h, base, <<>>)
    BY <1>1, FoldSteps
<1> QED BY <1>1, <1>2 DEF Steps

LEMMA FoldAppend ==
    ASSUME NEW T, NEW seq \in Seq(T), NEW x \in T, NEW base
    PROVE  FoldLeft(op, base, Append(seq, x)) = op(FoldLeft(op, base, seq), x)
<1>1. PICK g : Steps(g, base, seq)
    BY FoldSteps
<1> DEFINE len == Len(seq)
           longer == Append(seq, x)
<1>2. /\ longer \in Seq(T) /\ Len(longer) = len + 1 /\ len \in Nat
      /\ longer[len + 1] = x /\ \A n \in 1..len : longer[n] = seq[n]
    OBVIOUS
<1>3. PICK h : Steps(h, base, longer)
    BY <1>2, FoldSteps
<1> HIDE DEF longer
<1> DEFINE S == {n \in 0..len : h[n] = g[n]}
<1>4. 0 \in S
    BY <1>1, <1>2, <1>3 DEF Steps
<1>5. ASSUME NEW n \in S, n < len PROVE n + 1 \in S
    <2>1. n + 1 \in 1..len /\ n + 1 \in 1..(len + 1) /\ n + 1 \in 0..len /\ (n + 1) - 1 = n
        BY <1>2, <1>5
    <2>2. h[n + 1] = op(h[n], longer[n + 1]) /\ g[n + 1] = op(g[n], seq[n + 1])
        BY <1>1, <1>2, <1>3, <2>1 DEF Steps
    <2> QED BY <1>2, <2>1, <2>2
<1>6. S = 0..len
    <2>1. S \in SUBSET (0..len)
        OBVIOUS
    <2> HIDE DEF S, len
    <2> QED BY <1>2, <1>4, <1>5, <2>1, UpToByStep
<1>7. h[len] = g[len]
    BY <1>2, <1>6
<1>8. len + 1 \in 1..(len + 1) /\ (len + 1) - 1 = len
    BY <1>2
<1>9. h[len + 1] = op(h[len], x)
    BY <1>2, <1>3, <1>8 DEF Steps
<1>10. FoldLeft(op, base, longer) = h[len + 1] /\ FoldLeft(op, base, seq) = g[len]
    BY <1>1, <1>2, <1>3 DEF Steps
<1> QED BY <1>7, <1>9, <1>10 DEF longer

LEMMA FrontAndLast ==
    ASSUME NEW T, NEW n \in Nat, NEW seq \in Seq(T), Len(seq) = n + 1
    PROVE  \E front \in Seq(T), x \in T : Len(front) = n /\ Append(front, x) = seq
<1> DEFINE front == [i \in 1..n |-> seq[i]]
           x == seq[n + 1]
<1>1. front \in Seq(T) /\ Len(front) = n /\ x \in T /\ \A i \in 1..n : front[i] = seq[i]
    OBVIOUS
<1> HIDE DEF front
<1>2. /\ Append(front, x) \in Seq(T) /\ Len(Append(front, x)) = n + 1
      /\ \A i \in 1..n : Append(front, x)[i] = front[i]
      /\ Append(front, x)[n + 1] = x
    BY <1>1, AppendProperties
<1>3. \A i \in 1..(n + 1) : Append(front, x)[i] = seq[i]
    BY <1>1, <1>2
<1>4. Append(front, x) = seq
    BY <1>2, <1>3, SeqEqual
<1> QED BY <1>1, <1>4

\* A set of sequences that contains the empty one, and every sequence that is one
\* element longer than one in it, contains all of them.
LEMMA SeqByAppend ==
    ASSUME NEW T, NEW S \in SUBSET Seq(T), <<>> \in S,
           \A seq \in S : \A x \in T : Append(seq, x) \in S
    PROVE  S = Seq(T)
<1> DEFINE N == {n \in Nat : \A seq \in Seq(T) : Len(seq) = n => seq \in S}
<1>1. 0 \in N
    <2>1. \A seq \in Seq(T) : Len(seq) = 0 => seq = <<>>
        OBVIOUS
    <2> QED BY <2>1
<1>2. ASSUME NEW n \in N PROVE n + 1 \in N
    <2> SUFFICES ASSUME NEW seq \in Seq(T), Len(seq) = n + 1 PROVE seq \in S
        BY <1>2
    <2>1. n \in Nat /\ \A s \in Seq(T) : Len(s) = n => s \in S
        BY <1>2
    <2>2. PICK front \in Seq(T), x \in T : Len(front) = n /\ Append(front, x) = seq
        BY <2>1, FrontAndLast
    <2> QED BY <2>1, <2>2
<1>3. N = Nat
    <2>1. N \in SUBSET Nat
        OBVIOUS
    <2> HIDE DEF N
    <2> QED BY <1>1, <1>2, <2>1, NatByStep
<1>4. ASSUME NEW seq \in Seq(T) PROVE seq \in S
    <2>1. Len(seq) \in Nat
        OBVIOUS
    <2> QED BY <1>3, <2>1
<1> QED BY <1>4

\* Folding what follows from where the fold of what comes first has led.
LEMMA FoldConcat ==
    ASSUME NEW T, NEW s \in Seq(T), NEW u \in Seq(T), NEW base
    PROVE  FoldLeft(op, base, s \o u) = FoldLeft(op, FoldLeft(op, base, s), u)
<1> DEFINE mid == FoldLeft(op, base, s)
           S == {t \in Seq(T) : FoldLeft(op, base, s \o t) = FoldLeft(op, mid, t)}
<1>1. <<>> \in S
    <2>1. <<>> \in Seq(T) /\ s \o <<>> = s
        OBVIOUS
    <2> HIDE DEF mid
    <2>2. FoldLeft(op, mid, <<>>) = mid
        BY FoldEmpty
    <2> QED BY <2>1, <2>2, Zenon DEF mid
<1>2. ASSUME NEW t \in S, NEW x \in T PROVE Append(t, x) \in S
    <2>1. t \in Seq(T) /\ FoldLeft(op, base, s \o t) = FoldLeft(op, mid, t)
        BY <1>2, Zenon
    <2> HIDE DEF mid, S
    <2>2. /\ s \o t \in Seq(T) /\ Append(t, x) \in Seq(T)
          /\ s \o Append(t, x) = Append(s \o t, x)
        BY ONLY <2>1, s \in Seq(T), x \in T
    <2>3. FoldLeft(op, base, Append(s \o t, x)) = op(FoldLeft(op, base, s \o t), x)
        BY <2>2, FoldAppend
    <2>4. FoldLeft(op, mid, Append(t, x)) = op(FoldLeft(op, mid, t), x)
        BY <2>1, FoldAppend
    <2> QED BY <2>1, <2>2, <2>3, <2>4, Zenon DEF S
<1>3. S = Seq(T)
    <2>1. S \in SUBSET Seq(T)
        OBVIOUS
    <2> HIDE DEF S
    <2> QED BY <1>1, <1>2, <2>1, SeqByAppend
<1> QED BY <1>3, Zenon DEF mid
=============================================================================
