---------------------------- MODULE SequenceFacts ----------------------------
(***************************************************************************)
(* Induction over sequences, for provers that cannot instantiate a         *)
(* predicate: a set stands for it, and a function for the operator a fold  *)
(* applies.  From that, what FlattenSeq returns, that a sequence can be    *)
(* sorted, and that the recursive function behind FoldLeft exists.         *)
(***************************************************************************)
EXTENDS Integers, SequencesExt, WellFoundedInduction, TLAPS

----------------------------------------------------------------------------
(* Numbers *)

\* A set of naturals that is not empty has a least element.
LEMMA LeastElement ==
    ASSUME NEW I, I \subseteq Nat, I # {}
    PROVE  \E i \in I : \A j \in I : i <= j
<1> DEFINE R == {ss \in Nat \X Nat : ss[1] < ss[2]}
<1>1. IsWellFoundedOn(R, Nat)
  BY NatLessThanWellFounded, Zenon DEF OpToRel
<1>2. PICK i \in I : \A j \in I : <<j, i>> \notin R
  <2> HIDE DEF R
  <2> QED BY <1>1, WFMin
<1>3. \A j \in I : j < i => <<j, i>> \in R
  OBVIOUS
<1>4. \A j \in I : i <= j
  <2> SUFFICES ASSUME NEW j \in I PROVE ~(j < i)
    OBVIOUS
  <2>1. <<j, i>> \notin R
    BY <1>2
  <2> QED BY <1>3, <2>1
<1> QED
  BY <1>4

\* The set of numbers where a statement holds starts at 0 and is closed up to n.
Inductive(S, n) == 0 \in S /\ \A i \in 0..n-1 : i \in S => i+1 \in S

\* What starts at 0 and goes from each number to the next holds up to n.
LEMMA UpTo ==
    ASSUME NEW n \in Nat, NEW S, Inductive(S, n)
    PROVE  n \in S /\ \A i \in 0..n : i \in S
<1> SUFFICES ASSUME {i \in 0..n : i \notin S} # {} PROVE FALSE
  OBVIOUS
<1>0. 0 \in S /\ \A i \in 0..n-1 : i \in S => i+1 \in S
  BY DEF Inductive
<1>1. PICK i \in {k \in 0..n : k \notin S} : \A j \in {k \in 0..n : k \notin S} : i <= j
  <2> DEFINE I == {k \in 0..n : k \notin S}
  <2>1. I \subseteq Nat /\ I # {}
    OBVIOUS
  <2> HIDE DEF I
  <2>2. \E i \in I : \A j \in I : i <= j
    BY <2>1, LeastElement
  <2> QED BY <2>2 DEF I
<1>2. i \in 1..n /\ i - 1 \in 0..n-1
  BY <1>0, <1>1
<1>3. i - 1 \in S
  BY <1>1, <1>2
<1> QED BY <1>0, <1>1, <1>2, <1>3

\* The maximum of a set of numbers up to n.
LEMMA MaxUpTo ==
    ASSUME NEW n \in Nat, NEW s \in SUBSET (1..n), s # {}
    PROVE  Max(s) \in s /\ \A x \in s : x <= Max(s)
<1> DEFINE I == {n - x : x \in s}
<1>1. I \subseteq Nat /\ I # {}
  <2>1. \A x \in s : x \in Int /\ n - x \in Nat
    OBVIOUS
  <2> QED BY <2>1
<1>2. PICK i \in I : \A j \in I : i <= j
  <2> HIDE DEF I
  <2> QED BY <1>1, LeastElement
<1>3. PICK m \in s : i = n - m
  BY <1>2
<1>4. \A x \in s : m >= x
  <2> TAKE x \in s
  <2>1. n - x \in I
    OBVIOUS
  <2>2. i <= n - x
    BY <1>2, <2>1
  <2> QED BY <1>3, <2>2
<1> HIDE DEF I
<1>5. \E y \in s : \A x \in s : y >= x
  BY <1>4
<1>6. Max(s) \in s /\ \A x \in s : Max(s) >= x
  BY <1>5 DEF Max
<1> QED BY <1>6

\* The numbers up to k, without the last.
LEMMA MaxRange ==
    ASSUME NEW k \in Nat \ {0}
    PROVE  1..k # {} /\ Max(1..k) = k /\ (1..k) \ {k} = 1..(k-1)
<1>1. \A x : x \in 1..k <=> x \in 1..(k-1) \/ x = k
  OBVIOUS
<1>2. \A x \in 1..(k-1) : x # k
  OBVIOUS
<1>3. (1..k) \ {k} = 1..(k-1)
  BY <1>1, <1>2
<1>4. k \in 1..k /\ 1..k \in SUBSET (1..k) /\ \A x \in 1..k : x <= k /\ x \in Int
  OBVIOUS
<1>5. Max(1..k) = k
  <2> DEFINE s == 1..k
  <2>1. s # {} /\ s \in SUBSET (1..k)
    BY <1>4
  <2> HIDE DEF s
  <2>2. Max(s) \in s /\ \A x \in s : x <= Max(s)
    BY <2>1, MaxUpTo
  <2>3. Max(s) \in Int /\ Max(s) <= k /\ k <= Max(s)
    BY <1>4, <2>2 DEF s
  <2> QED BY <2>3 DEF s
<1> QED BY <1>3, <1>4, <1>5

----------------------------------------------------------------------------
(* Recursion *)

\* The step of a recursion over 1..n, from b, and the values it goes through.
IsStep(g, b, n, S) == b \in S /\ g \in [S \X (1..n) -> S]

Steps(m, g, b, n, S) ==
    /\ m \in [0..n -> S]
    /\ m[0] = b
    /\ \A i \in 1..n : m[i] = g[<<m[i-1], i>>]

\* A function that is defined step by step exists.
LEMMA StepsExist ==
    ASSUME NEW n \in Nat, NEW S, NEW b, NEW g, IsStep(g, b, n, S)
    PROVE  \E m : Steps(m, g, b, n, S)
<1> USE DEF IsStep
<1> DEFINE Is(m, k) ==
             /\ m \in [0..k -> S]
             /\ m[0] = b /\ \A i \in 1..k : m[i] = g[<<m[i-1], i>>]
           K == {k \in 0..n : \E m : Is(m, k)}
<1> HIDE DEF Is
<1>1. 0 \in K
  <2>1. Is([i \in 0..0 |-> b], 0)
    BY DEF Is
  <2> QED BY <2>1
<1>2. ASSUME NEW k \in 0..n-1, k \in K PROVE k + 1 \in K
  <2>1. PICK m : Is(m, k)
    BY <1>2
  <2> DEFINE last == g[<<m[k], k+1>>]
             r    == [i \in 0..k+1 |-> IF i = k+1 THEN last ELSE m[i]]
  <2>2. last \in S
    BY <2>1 DEF Is
  <2>3. r \in [0..k+1 -> S] /\ r[0] = b
    BY <2>1, <2>2 DEF Is
  <2>4. ASSUME NEW i \in 1..k+1 PROVE r[i] = g[<<r[i-1], i>>]
    <3>1. CASE i = k+1
      <4>1. r[i] = last /\ r[i-1] = m[k]
        BY <3>1
      <4> QED BY <3>1, <4>1
    <3>2. CASE i # k+1
      <4>1. i \in 1..k /\ r[i] = m[i] /\ r[i-1] = m[i-1]
        BY <3>2
      <4> QED BY <2>1, <4>1 DEF Is
    <3> QED BY <3>1, <3>2
  <2>5. Is(r, k+1)
    <3> HIDE DEF r
    <3> QED BY <2>3, <2>4 DEF Is
  <2> HIDE DEF r
  <2> QED BY <2>5
<1> HIDE DEF K
<1>3. n \in K
  <2>1. Inductive(K, n)
    BY <1>1, <1>2 DEF Inductive
  <2> QED BY <2>1, UpTo
<1> QED BY <1>3 DEF K, Is, Steps

\* The same by sets of indices, as FoldLeft recurses.
Folds(f, g, b, n, S) ==
    /\ f \in [SUBSET (1..n) -> S]
    /\ \A s \in SUBSET (1..n) :
          f[s] = IF s = {} THEN b ELSE g[<<f[s \ {Max(s)}], Max(s)>>]

\* The recursive function behind FoldLeft exists.
LEMMA FoldExists ==
    ASSUME NEW n \in Nat, NEW S, NEW b, NEW g, IsStep(g, b, n, S)
    PROVE  \E f : Folds(f, g, b, n, S)
<1> USE DEF IsStep
<1> DEFINE Is(f, k) ==
             /\ f \in [SUBSET (1..k) -> S]
             /\ \A s \in SUBSET (1..k) :
                   f[s] = IF s = {} THEN b ELSE g[<<f[s \ {Max(s)}], Max(s)>>]
           K == {k \in 0..n : \E f : Is(f, k)}
<1> HIDE DEF Is
<1>1. 0 \in K
  <2>1. \A s \in SUBSET (1..0) : s = {}
    OBVIOUS
  <2>2. Is([s \in SUBSET (1..0) |-> b], 0)
    BY <2>1 DEF Is
  <2> QED BY <2>2
<1>2. ASSUME NEW k \in 0..n-1, k \in K PROVE k + 1 \in K
  <2>1. PICK f : Is(f, k)
    BY <1>2
  <2> DEFINE h == [s \in SUBSET (1..k+1) |->
                     IF k+1 \in s THEN g[<<f[s \ {k+1}], k+1>>] ELSE f[s]]
  <2>2. ASSUME NEW s \in SUBSET (1..k+1)
        PROVE  /\ s \ {k+1} \in SUBSET (1..k)
               /\ k+1 \notin s => s \in SUBSET (1..k)
               /\ f[s \ {k+1}] \in S
    BY <2>1 DEF Is
  <2>3. h \in [SUBSET (1..k+1) -> S]
    <3>1. \A s \in SUBSET (1..k+1) :
             (IF k+1 \in s THEN g[<<f[s \ {k+1}], k+1>>] ELSE f[s]) \in S
      BY <2>1, <2>2 DEF Is
    <3> QED BY <3>1
  <2>4. ASSUME NEW s \in SUBSET (1..k+1)
        PROVE  h[s] = IF s = {} THEN b ELSE g[<<h[s \ {Max(s)}], Max(s)>>]
    <3>1. CASE k+1 \in s
      <4>1. Max(s) = k+1
        <5> HIDE DEF h
        <5>1. k+1 \in Nat /\ s # {}
          BY <3>1
        <5>2. Max(s) \in s /\ \A x \in s : x <= Max(s)
          BY <5>1, MaxUpTo
        <5>3. Max(s) \in 1..k+1 /\ k+1 <= Max(s)
          BY <3>1, <5>2
        <5> QED BY <5>3
      <4>2. h[s \ {k+1}] = f[s \ {k+1}]
        OBVIOUS
      <4>3. h[s] = g[<<f[s \ {k+1}], k+1>>]
        BY <3>1
      <4> QED BY <3>1, <4>1, <4>2, <4>3
    <3>2. CASE k+1 \notin s
      <4>1. s \in SUBSET (1..k) /\ h[s] = f[s]
        BY <2>2, <3>2
      <4>2. h[s \ {Max(s)}] = f[s \ {Max(s)}]
        BY <3>2
      <4> QED BY <2>1, <4>1, <4>2 DEF Is
    <3> QED BY <3>1, <3>2
  <2>5. Is(h, k+1)
    <3> HIDE DEF h
    <3> QED BY <2>3, <2>4 DEF Is
  <2> HIDE DEF h
  <2> QED BY <2>5
<1> HIDE DEF K
<1>3. n \in K
  <2>1. Inductive(K, n)
    BY <1>1, <1>2 DEF Inductive
  <2> QED BY <2>1, UpTo
<1> QED BY <1>3 DEF K, Is, Folds

----------------------------------------------------------------------------
(* Sequences of sequences *)

In(x, q) == \E k \in 1..Len(q) : q[k] = x

\* An element of a concatenation is one of either part.
LEMMA ConcatElements ==
    ASSUME NEW T, NEW p \in Seq(T), NEW q \in Seq(T), NEW x
    PROVE  In(x, p \o q) <=> In(x, p) \/ In(x, q)
<1> USE DEF In
<1>1. /\ Len(p) \in Nat /\ Len(q) \in Nat /\ Len(p \o q) = Len(p) + Len(q)
      /\ \A k \in 1..Len(p) : (p \o q)[k] = p[k]
      /\ \A k \in 1..Len(q) : (p \o q)[Len(p) + k] = q[k]
  OBVIOUS
<1>2. ASSUME NEW k \in 1..Len(p \o q)
      PROVE  k \in 1..Len(p) \/ \E j \in 1..Len(q) : k = Len(p) + j
  <2>1. k \in 1..Len(p) \/ (k - Len(p) \in 1..Len(q) /\ k = Len(p) + (k - Len(p)))
    BY <1>1
  <2> QED BY <2>1
<1>3. \A k \in 1..Len(p) : k \in 1..Len(p \o q)
  BY <1>1
<1>4. \A k \in 1..Len(q) : Len(p) + k \in 1..Len(p \o q)
  BY <1>1
<1> QED BY <1>1, <1>2, <1>3, <1>4

\* n sequences over T.
Pieces(qs, n, T) ==
    /\ n \in Nat
    /\ Len(qs) = n
    /\ n = 0 => qs = <<>>
    /\ \A i \in 1..n : qs[i] \in Seq(T)

\* m[i] is what the first i of them are flattened to.
Flattens(m, qs, n, T) ==
    /\ m \in [0..n -> Seq(T)]
    /\ m[0] = <<>>
    /\ \A i \in 1..n : m[i] = m[i-1] \o qs[i]

\* FlattenSeq goes through them piece by piece.
LEMMA FlattenSteps ==
    ASSUME NEW T, NEW n, NEW qs, Pieces(qs, n, T)
    PROVE  \E m : Flattens(m, qs, n, T) /\ FlattenSeq(qs) = m[n]
<1> DEFINE S == Seq(T)
           g == [p \in S \X (1..n) |-> p[1] \o qs[p[2]]]
<1>1. n \in Nat /\ Len(qs) = n
  BY DEF Pieces
<1>2. IsStep(g, <<>>, n, S)
  <2>1. \A p \in S \X (1..n) : p[1] \o qs[p[2]] \in S
    <3> TAKE p \in S \X (1..n)
    <3>1. p[1] \in Seq(T) /\ qs[p[2]] \in Seq(T)
      BY DEF Pieces
    <3> QED BY <3>1
  <2>2. <<>> \in S
    OBVIOUS
  <2> QED BY <2>1, <2>2 DEF IsStep
<1>3. PICK m : Steps(m, g, <<>>, n, S)
  <2> DEFINE b == <<>>
  <2>1. IsStep(g, b, n, S)
    BY <1>2
  <2> HIDE DEF g, S, b
  <2>2. \E m : Steps(m, g, b, n, S)
    BY <1>1, <2>1, StepsExist
  <2> QED BY <2>2 DEF b
<1>4. Flattens(m, qs, n, T)
  <2>1. m \in [0..n -> Seq(T)] /\ m[0] = <<>>
    BY <1>3 DEF Steps
  <2>2. ASSUME NEW i \in 1..n PROVE m[i] = m[i-1] \o qs[i]
    <3>1. i-1 \in 0..n
      BY <1>1
    <3>2. <<m[i-1], i>> \in S \X (1..n)
      BY <2>1, <3>1
    <3>3. m[i] = g[<<m[i-1], i>>]
      BY <1>3 DEF Steps
    <3> QED BY <3>2, <3>3
  <2> QED BY <2>1, <2>2 DEF Flattens
<1> HIDE DEF g, S
<1>5. CASE n = 0
  <2>1. qs = <<>> /\ m[n] = <<>>
    BY <1>4, <1>5 DEF Pieces, Flattens
  <2> QED BY <1>4, <2>1 DEF FlattenSeq
<1>6. CASE n # 0
  <2> DEFINE Is(f) == f = [i \in 1..n |-> IF i = 1 THEN qs[i] ELSE f[i-1] \o qs[i]]
             f == CHOOSE f : Is(f)
  <2>1. \A i \in 1..n : i = 1 => m[i] = qs[i]
    <3> TAKE i \in 1..n
    <3> HAVE i = 1
    <3>1. i-1 = 0
      OBVIOUS
    <3>2. m[i] = m[i-1] \o qs[i] /\ m[0] = <<>>
      BY <1>4 DEF Flattens
    <3>3. qs[i] \in Seq(T)
      BY DEF Pieces
    <3>4. \A q \in Seq(T) : <<>> \o q = q
      OBVIOUS
    <3> QED BY <3>1, <3>2, <3>3, <3>4
  <2>2. \A i \in 1..n : m[i] = m[i-1] \o qs[i]
    BY <1>4 DEF Flattens
  <2>3. Is([i \in 1..n |-> m[i]])
    <3> DEFINE r == [i \in 1..n |-> m[i]]
    <3>1. ASSUME NEW i \in 1..n
          PROVE  m[i] = IF i = 1 THEN qs[i] ELSE r[i-1] \o qs[i]
      <4>1. CASE i = 1
        BY <2>1, <4>1
      <4>2. CASE i # 1
        <5>1. i-1 \in 1..n
          BY <1>1, <4>2
        <5>2. r[i-1] = m[i-1]
          BY <5>1
        <5> QED BY <2>2, <4>2, <5>2
      <4> QED BY <4>1, <4>2
    <3> QED BY <3>1
  <2>4. Is(f)
    <3> HIDE DEF Is
    <3> QED BY <2>3
  <2> HIDE DEF f
  <2>5. \A i \in 1..n : f[i] = IF i = 1 THEN qs[i] ELSE f[i-1] \o qs[i]
    BY <2>4
  <2> HIDE DEF Is
  <2> DEFINE K == {i \in 0..n : i = 0 \/ f[i] = m[i]}
  <2>6. ASSUME NEW i \in 0..n-1, i \in K PROVE i+1 \in K
    <3>1. i+1 \in 1..n /\ i+1 \in 0..n /\ (i+1) - 1 = i
      BY <1>1
    <3>2. CASE i = 0
      <4>1. 1 \in 1..n /\ i+1 = 1
        BY <3>1, <3>2
      <4> QED BY <2>1, <2>5, <3>1, <4>1
    <3>3. CASE i # 0
      <4> DEFINE j == i+1
      <4>1. j \in 1..n /\ j \in 0..n /\ j-1 = i /\ j # 1
        BY <3>1, <3>3
      <4>2. f[i] = m[i]
        BY <2>6, <3>3
      <4> HIDE DEF j
      <4>3. f[j] = f[j-1] \o qs[j]
        BY <2>5, <4>1
      <4>4. m[j] = m[j-1] \o qs[j]
        BY <2>2, <4>1
      <4>5. j \in K
        BY <4>1, <4>2, <4>3, <4>4
      <4> QED BY <4>5 DEF j
    <3> QED BY <3>2, <3>3
  <2>7. n \in K
    <3>1. 0 \in K /\ n \in 0..n
      BY <1>1
    <3> HIDE DEF K
    <3>2. Inductive(K, n)
      BY <2>6, <3>1 DEF Inductive
    <3> QED BY <1>1, <3>2, UpTo
  <2>8. f[n] = m[n]
    BY <1>6, <2>7
  <2>9. FlattenSeq(qs) = f[n]
    BY <1>1, <1>6 DEF FlattenSeq, f, Is
  <2> QED BY <1>4, <2>8, <2>9
<1> QED BY <1>5, <1>6

\* A flattened sequence has the elements of its pieces.
LEMMA FlattenElements ==
    ASSUME NEW T, NEW n, NEW qs, Pieces(qs, n, T)
    PROVE  /\ FlattenSeq(qs) \in Seq(T)
           /\ \A x : In(x, FlattenSeq(qs)) <=> \E i \in 1..n : In(x, qs[i])
<1>1. PICK m : Flattens(m, qs, n, T) /\ FlattenSeq(qs) = m[n]
  BY FlattenSteps
<1>2. n \in Nat
  BY DEF Pieces
<1> DEFINE K == {i \in 0..n : \A x : In(x, m[i]) <=> \E j \in 1..i : In(x, qs[j])}
<1>3. 0 \in K
  <2>1. m[0] = <<>> /\ \A x : ~In(x, <<>>)
    BY <1>1 DEF Flattens, In
  <2> QED BY <1>2, <2>1
<1>4. ASSUME NEW i \in 0..n-1, i \in K PROVE i+1 \in K
  <2> DEFINE j == i+1
             p == m[i]
             q == qs[j]
  <2>1. j \in 1..n /\ j \in 0..n /\ j-1 = i /\ i \in 0..n
    BY <1>2
  <2>2. \A k : k \in 1..j <=> k \in 1..i \/ k = j
    OBVIOUS
  <2> HIDE DEF j
  <2>3. p \in Seq(T) /\ q \in Seq(T) /\ m[j] = m[j-1] \o qs[j]
    BY <1>1, <2>1 DEF Flattens, Pieces
  <2>4. m[j] = p \o q
    BY <2>1, <2>3
  <2> HIDE DEF p, q
  <2>5. \A x : In(x, p \o q) <=> In(x, p) \/ In(x, q)
    BY <2>3, ConcatElements
  <2>6. \A x : In(x, p) <=> \E k \in 1..i : In(x, qs[k])
    BY <1>4 DEF p
  <2>7. \A x : In(x, m[j]) <=> \E k \in 1..j : In(x, qs[k])
    BY <2>2, <2>4, <2>5, <2>6 DEF q
  <2>8. j \in K
    BY <2>1, <2>7
  <2> QED BY <2>8 DEF j
<1>5. n \in K
  <2> HIDE DEF K
  <2>1. Inductive(K, n)
    BY <1>3, <1>4 DEF Inductive
  <2> QED BY <1>2, <2>1, UpTo
<1>6. m[n] \in Seq(T)
  BY <1>1, <1>2 DEF Flattens
<1> QED BY <1>1, <1>5, <1>6

\* What is flattened first stays at the beginning.
LEMMA FlattenGrows ==
    ASSUME NEW T, NEW n, NEW qs, Pieces(qs, n, T), NEW m, Flattens(m, qs, n, T)
    PROVE  \A i \in 0..n : /\ Len(m[i]) <= Len(m[n])
                           /\ \A k \in 1..Len(m[i]) : m[n][k] = m[i][k]
<1>1. n \in Nat
  BY DEF Pieces
<1>2. ASSUME NEW i \in 0..n PROVE Len(m[i]) \in Nat
  <2>1. m[i] \in Seq(T)
    BY DEF Flattens
  <2> QED BY <2>1
<1> DEFINE Begins(i, j) == /\ Len(m[i]) <= Len(m[j])
                           /\ \A k \in 1..Len(m[i]) : m[j][k] = m[i][k]
           K == {j \in 0..n : \A i \in 0..j : Begins(i, j)}
<1>3. \A j \in 0..n : Begins(j, j)
  BY <1>2
<1>4. 0 \in K
  <2>1. \A i \in 0..0 : i = 0
    OBVIOUS
  <2>2. 0 \in 0..n
    BY <1>1
  <2> HIDE DEF Begins
  <2> QED BY <1>3, <2>1, <2>2
<1>5. ASSUME NEW j \in 0..n-1, j \in K PROVE j+1 \in K
  <2> DEFINE t == j+1
             a == m[j]
             q == qs[t]
  <2>1. t \in 1..n /\ t \in 0..n /\ t-1 = j /\ j \in 0..n /\ \A i \in 0..t : i = t \/ i \in 0..j
    BY <1>1
  <2>2. a \in Seq(T) /\ q \in Seq(T) /\ m[t] = a \o q
    <3> HIDE DEF t
    <3>1. m[t] = m[t-1] \o qs[t] /\ m[j] \in Seq(T) /\ qs[t] \in Seq(T)
      BY <2>1 DEF Flattens, Pieces
    <3> QED BY <2>1, <3>1
  <2> HIDE DEF t, a, q
  <2>3. /\ Len(a) \in Nat /\ Len(q) \in Nat /\ Len(a \o q) = Len(a) + Len(q)
        /\ \A k \in 1..Len(a) : (a \o q)[k] = a[k]
    BY <2>2
  <2>4. Begins(j, t)
    <3>1. Len(a) <= Len(m[t]) /\ \A k \in 1..Len(a) : m[t][k] = a[k]
      BY <2>2, <2>3
    <3> QED BY <3>1 DEF a
  <2>5. ASSUME NEW i \in 0..j PROVE Begins(i, t)
    <3>1. Begins(i, j)
      BY <1>5
    <3>2. i \in 0..n /\ Len(m[i]) \in Nat /\ Len(m[j]) \in Nat /\ Len(m[t]) \in Nat
      BY <1>1, <1>2, <2>1
    <3>3. \A k \in 1..Len(m[i]) : k \in 1..Len(m[j])
      BY <3>1, <3>2
    <3> QED BY <2>4, <3>1, <3>2, <3>3
  <2> HIDE DEF Begins
  <2>6. \A i \in 0..t : Begins(i, t)
    BY <1>3, <2>1, <2>5
  <2> QED BY <2>1, <2>6 DEF t
<1>6. n \in K
  <2> HIDE DEF K
  <2>1. Inductive(K, n)
    BY <1>4, <1>5 DEF Inductive
  <2> QED BY <1>1, <2>1, UpTo
<1> QED BY <1>6

----------------------------------------------------------------------------
(* Sorting *)

\* For an order in which any two elements can be compared, a permutation
\* sorts: the next element is inserted before the first one it must precede.
LEMMA SortExists ==
    ASSUME NEW T, NEW q \in Seq(T), NEW R,
           \A x, y \in T : <<x, y>> \in R \/ <<y, x>> \in R,
           \A x, y, z \in T : <<x, y>> \in R /\ <<y, z>> \in R => <<x, z>> \in R
    PROVE  \E p \in Bijection(1..Len(q), 1..Len(q)) :
              \A i, j \in 1..Len(q) : i < j => <<q[p[i]], q[p[j]]>> \in R
<1> DEFINE n == Len(q)
           Sorts(p, k) ==
             /\ p \in [1..k -> 1..k]
             /\ \A i, j \in 1..k : i # j => p[i] # p[j]
             /\ \A t \in 1..k : \E i \in 1..k : p[i] = t
             /\ \A i, j \in 1..k : i < j => <<q[p[i]], q[p[j]]>> \in R
           K == {k \in 0..n : \E p : Sorts(p, k)}
<1>1. n \in Nat /\ \A i \in 1..n : q[i] \in T
  OBVIOUS
<1> HIDE DEF n, Sorts
<1>2. 0 \in K
  <2>1. Sorts([i \in 1..0 |-> i], 0)
    BY DEF Sorts
  <2> QED BY <1>1, <2>1
<1>3. ASSUME NEW k \in 0..n-1, k \in K PROVE k+1 \in K
  <2>1. PICK p : Sorts(p, k)
    BY <1>3
  <2>0. /\ p \in [1..k -> 1..k] /\ k \in Nat /\ k+1 \in 1..n /\ k+1 \in 0..n
        /\ \A i \in 1..k : p[i] \in 1..k /\ q[p[i]] \in T
        /\ q[k+1] \in T
    <3>1. p \in [1..k -> 1..k] /\ k \in Nat /\ k+1 \in 1..n /\ k+1 \in 0..n
      <4>1. p \in [1..k -> 1..k]
        BY <2>1 DEF Sorts
      <4> QED BY <1>1, <4>1
    <3>2. \A i \in 1..k : p[i] \in 1..k /\ p[i] \in 1..n
      BY <1>1, <3>1
    <3> QED BY <1>1, <3>1, <3>2
  <2> DEFINE J == {i \in 1..k : <<q[p[i]], q[k+1]>> \notin R} \union {k+1}
  <2>2. PICK c \in 1..k+1 : /\ \A i \in 1..k : i < c => <<q[p[i]], q[k+1]>> \in R
                            /\ c # k+1 => <<q[p[c]], q[k+1]>> \notin R
    <3>1. J \subseteq Nat /\ J # {} /\ J \subseteq 1..k+1
      OBVIOUS
    <3> HIDE DEF J
    <3>2. PICK c \in J : \A j \in J : c <= j
      BY <3>1, LeastElement
    <3>3. \A i \in 1..k : i < c => i \notin J
      BY <3>1, <3>2
    <3> QED BY <3>1, <3>2, <3>3 DEF J
  <2> DEFINE r == [i \in 1..k+1 |-> IF i < c THEN p[i]
                                    ELSE IF i = c THEN k+1 ELSE p[i-1]]
  <2>3. ASSUME NEW i \in 1..k+1
        PROVE  /\ i < c => i \in 1..k /\ r[i] = p[i]
               /\ i = c => r[i] = k+1
               /\ i > c => i-1 \in 1..k /\ r[i] = p[i-1]
    OBVIOUS
  <2>4. r \in [1..k+1 -> 1..k+1]
    <3>1. \A i \in 1..k+1 : r[i] \in 1..k+1
      BY <2>0, <2>3
    <3> QED BY <3>1
  <2> HIDE DEF r
  <2>5. ASSUME NEW i \in 1..k+1, NEW j \in 1..k+1, i < j PROVE r[i] # r[j]
    <3>1. \A a, b \in 1..k : a # b => p[a] # p[b]
      BY <2>1 DEF Sorts
    <3>2. CASE j < c
      BY <2>3, <2>5, <3>1, <3>2
    <3>3. CASE j = c
      BY <2>0, <2>3, <2>5, <3>3
    <3>4. CASE j > c /\ i < c
      <4>1. i \in 1..k /\ j-1 \in 1..k /\ i # j-1 /\ r[i] = p[i] /\ r[j] = p[j-1]
        BY <2>3, <3>4
      <4> QED BY <3>1, <4>1
    <3>5. CASE j > c /\ i = c
      BY <2>0, <2>3, <3>5
    <3>6. CASE j > c /\ i > c
      <4>1. i-1 \in 1..k /\ j-1 \in 1..k /\ i-1 # j-1 /\ r[i] = p[i-1] /\ r[j] = p[j-1]
        BY <2>3, <2>5, <3>6
      <4> QED BY <3>1, <4>1
    <3> QED BY <3>2, <3>3, <3>4, <3>5, <3>6
  <2>6. ASSUME NEW t \in 1..k+1 PROVE \E i \in 1..k+1 : r[i] = t
    <3>1. CASE t = k+1
      BY <2>3, <3>1
    <3>2. CASE t \in 1..k
      <4>1. PICK i \in 1..k : p[i] = t
        BY <2>1, <3>2 DEF Sorts
      <4>2. CASE i < c
        <5>1. i \in 1..k+1
          OBVIOUS
        <5> QED BY <2>3, <4>1, <4>2, <5>1
      <4>3. CASE ~(i < c)
        <5>1. i+1 \in 1..k+1 /\ i+1 > c /\ (i+1) - 1 = i
          BY <4>3
        <5> QED BY <2>3, <4>1, <5>1
      <4> QED BY <4>2, <4>3
    <3> QED BY <3>1, <3>2
  <2>7. ASSUME NEW i \in 1..k+1, NEW j \in 1..k+1, i < j
        PROVE  <<q[r[i]], q[r[j]]>> \in R
    <3>1. \A a, b \in 1..k : a < b => <<q[p[a]], q[p[b]]>> \in R
      BY <2>1 DEF Sorts
    <3>2. CASE j < c
      BY <2>3, <2>7, <3>1, <3>2
    <3>3. CASE j = c
      BY <2>2, <2>3, <2>7, <3>3
    <3>4. CASE j > c /\ i < c
      <4>1. i \in 1..k /\ j-1 \in 1..k /\ i < j-1 /\ r[i] = p[i] /\ r[j] = p[j-1]
        BY <2>3, <3>4
      <4> QED BY <3>1, <4>1
    <3>5. CASE j > c /\ i = c
      <4>1. /\ j-1 \in 1..k /\ r[i] = k+1 /\ r[j] = p[j-1]
            /\ c \in 1..k /\ (c = j-1 \/ c < j-1)
        BY <2>3, <3>5
      <4>2. <<q[p[c]], q[k+1]>> \notin R
        BY <2>2, <4>1
      <4>3. <<q[k+1], q[p[c]]>> \in R /\ q[p[c]] \in T /\ q[p[j-1]] \in T
        BY <2>0, <4>1, <4>2
      <4>4. c = j-1 \/ <<q[p[c]], q[p[j-1]]>> \in R
        BY <3>1, <4>1
      <4> QED BY <2>0, <4>1, <4>3, <4>4
    <3>6. CASE j > c /\ i > c
      <4>1. i-1 \in 1..k /\ j-1 \in 1..k /\ i-1 < j-1 /\ r[i] = p[i-1] /\ r[j] = p[j-1]
        BY <2>3, <2>7, <3>6
      <4> QED BY <3>1, <4>1
    <3> QED BY <3>2, <3>3, <3>4, <3>5, <3>6
  <2>8. \A i, j \in 1..k+1 : i # j => r[i] # r[j]
    <3> TAKE i, j \in 1..k+1
    <3>1. i < j \/ j < i \/ i = j
      OBVIOUS
    <3> QED BY <2>5, <3>1
  <2>9. Sorts(r, k+1)
    BY <2>4, <2>6, <2>7, <2>8 DEF Sorts
  <2> QED BY <2>0, <2>9
<1>4. n \in K
  <2> HIDE DEF K
  <2>1. n \in Nat /\ Inductive(K, n)
    BY <1>1, <1>2, <1>3 DEF Inductive
  <2> QED BY <2>1, UpTo
<1>5. PICK p : Sorts(p, n)
  BY <1>4
<1> QED BY <1>5 DEF Sorts, n, Bijection, Injection, Surjection, IsInjective
=============================================================================
