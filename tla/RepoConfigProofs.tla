--------------------------- MODULE RepoConfigProofs ---------------------------
(***************************************************************************)
(* Theorems about RepoConfig, for any configuration on any disk and any    *)
(* changes of a tree.                                                      *)
(*                                                                         *)
(* That commits are the ones asked for takes four facts: a clean region    *)
(* names the directory it leads to (CleanBeneath); coalescing finds the    *)
(* layer that has the say (SettingsOf); reading what git prints gives the  *)
(* changes back (ParsesChanges); and parting them by their ends is parting *)
(* what they touch (PartedIs).  The inductive invariant is AgentsResolved. *)
(***************************************************************************)
EXTENDS RepoConfig, SequenceFacts, SequenceTheorems

----------------------------------------------------------------------------
(* filepath.Clean *)

Part == STRING
Parts == Seq(Part)

\* What Append and SubSeq make of a sequence of parts.
LEMMA Longer ==
    ASSUME NEW d \in Parts, NEW e \in Part
    PROVE  /\ Append(d, e) \in Parts /\ Append(d, e) # <<>>
           /\ Len(d) \in Nat /\ Len(Append(d, e)) = Len(d) + 1
           /\ \A i \in 1..Len(d) : Append(d, e)[i] = d[i]
           /\ Append(d, e)[Len(d) + 1] = e
BY DEF Parts

LEMMA Shorter ==
    ASSUME NEW d \in Parts, d # <<>>
    PROVE  /\ SubSeq(d, 1, Len(d) - 1) \in Parts
           /\ Len(d) \in Nat \ {0} /\ Len(SubSeq(d, 1, Len(d) - 1)) = Len(d) - 1
           /\ \A i \in 1..Len(d)-1 : SubSeq(d, 1, Len(d) - 1)[i] = d[i]
           /\ Len(d) = 1 => d = <<d[1]>>
<1>1. Len(d) \in Nat \ {0} /\ \A i \in 1..Len(d) : d[i] \in Part
  BY DEF Parts
<1>2. Len(d) = 1 => d = <<d[1]>>
  BY <1>1 DEF Parts
<1> DEFINE n == Len(d) - 1
           c == SubSeq(d, 1, n)
<1>3. n \in Nat /\ \A i \in 1..n : d[i] \in Part
  BY <1>1
<1> HIDE DEF n
<1>4. c \in Seq(Part) /\ Len(c) = n /\ \A i \in 1..n : c[i] = d[i]
  <2> DEFINE one == 1
             r == SubSeq(d, one, n)
  <2>1. one \in Int /\ n \in Int /\ \A i \in one..n : d[i] \in Part
    BY <1>3
  <2> HIDE DEF one
  <2>2. /\ r \in Seq(Part)
        /\ Len(r) = IF one <= n THEN n - one + 1 ELSE 0
        /\ \A i \in 1..n - one + 1 : r[i] = d[one + i - 1]
    BY <2>1, SubSeqProperties
  <2>3. r \in Seq(Part) /\ Len(r) = n /\ \A i \in 1..n : r[i] = d[i]
    BY <1>3, <2>2 DEF one
  <2> QED BY <2>3 DEF one
<1> QED BY <1>1, <1>2, <1>4 DEF Parts, n

Skips(part) == part \in {"", "."}

Climbs(done, part) == part = ".." /\ done # <<>> /\ done[Len(done)] # ".."

\* What one part does: nothing, take the last part away, or be added.
LEMMA CleanPartCases ==
    ASSUME NEW done \in Parts, NEW part \in Part
    PROVE  /\ CleanPart(done, part) \in Parts
           /\ Skips(part) => CleanPart(done, part) = done
           /\ Climbs(done, part) =>
                CleanPart(done, part) = IF done = <<Root>> THEN done
                                        ELSE SubSeq(done, 1, Len(done) - 1)
           /\ ~Skips(part) /\ ~Climbs(done, part) =>
                CleanPart(done, part) = Append(done, part)
<1> DEFINE c == CleanPart(done, part)
<1>1. done = <<>> \/ SubSeq(done, 1, Len(done) - 1) \in Parts
  BY Shorter
<1>2. Append(done, part) \in Parts
  BY Longer
<1>3. CASE Skips(part)
  <2>1. c = done /\ ~Climbs(done, part)
    BY <1>3 DEF CleanPart, Skips, Climbs
  <2> QED BY <1>3, <2>1
<1>4. CASE Climbs(done, part)
  <2>1. c = (IF done = <<Root>> THEN done ELSE SubSeq(done, 1, Len(done) - 1)) /\ ~Skips(part)
    BY <1>4 DEF CleanPart, Skips, Climbs, Last, Front
  <2>2. done # <<>>
    BY <1>4 DEF Climbs
  <2> HIDE DEF c
  <2>3. c \in Parts
    BY <1>1, <2>1, <2>2
  <2> QED BY <1>4, <2>1, <2>3 DEF c
<1>5. CASE ~Skips(part) /\ ~Climbs(done, part)
  <2>1. c = Append(done, part)
    BY <1>5 DEF CleanPart, Skips, Climbs, Last
  <2> QED BY <1>2, <1>5, <2>1
<1> QED BY <1>3, <1>4, <1>5

\* filepath.Clean, part by part.
CleanRun(m, path) ==
    /\ m \in [0..Len(path) -> Parts]
    /\ m[0] = <<>>
    /\ \A k \in 1..Len(path) : m[k] = CleanPart(m[k-1], path[k])

\* Clean is what its run ends with.
LEMMA CleanRuns ==
    ASSUME NEW q \in Parts
    PROVE  \E m : CleanRun(m, q) /\ Clean(q) = m[Len(q)]
<1> DEFINE n == Len(q)
           g == [p \in Parts \X (1..n) |-> CleanPart(p[1], q[p[2]])]
           IsIter(it) ==
             it = [s \in SUBSET DOMAIN q |->
                     IF s = {} THEN <<>> ELSE CleanPart(it[s \ {Max(s)}], q[Max(s)])]
           iter == CHOOSE it : IsIter(it)
<1>1. n \in Nat /\ DOMAIN q = 1..n /\ \A i \in 1..n : q[i] \in Part
  BY DEF Parts
<1>2. IsStep(g, <<>>, n, Parts)
  <2>1. \A p \in Parts \X (1..n) : CleanPart(p[1], q[p[2]]) \in Parts
    <3> TAKE p \in Parts \X (1..n)
    <3>1. p[1] \in Parts /\ q[p[2]] \in Part
      BY <1>1
    <3> QED BY <3>1, CleanPartCases
  <2>2. <<>> \in Parts
    BY DEF Parts
  <2> QED BY <2>1, <2>2 DEF IsStep
<1>3. PICK f : Folds(f, g, <<>>, n, Parts)
  <2> DEFINE b == <<>>
  <2>1. IsStep(g, b, n, Parts)
    BY <1>2
  <2> HIDE DEF g, n, b
  <2>2. \E f : Folds(f, g, b, n, Parts)
    BY <1>1, <2>1, FoldExists
  <2> QED BY <2>2 DEF b
<1>4. IsIter(f)
  <2>1. f \in [SUBSET (1..n) -> Parts]
    BY <1>3 DEF Folds
  <2>2. ASSUME NEW s \in SUBSET (1..n)
        PROVE  f[s] = IF s = {} THEN <<>> ELSE CleanPart(f[s \ {Max(s)}], q[Max(s)])
    <3>1. f[s] = IF s = {} THEN <<>> ELSE g[<<f[s \ {Max(s)}], Max(s)>>]
      <4> HIDE DEF g
      <4> QED BY <1>3 DEF Folds
    <3>2. CASE s = {}
      BY <3>1, <3>2
    <3>3. CASE s # {}
      <4> DEFINE top == Max(s)
      <4>1. top \in 1..n
        <5> HIDE DEF n, g
        <5>1. Max(s) \in s
          BY <1>1, <3>3, MaxUpTo
        <5> QED BY <5>1
      <4> HIDE DEF top
      <4>2. f[s \ {top}] \in Parts
        BY <2>1
      <4>3. g[<<f[s \ {top}], top>>] = CleanPart(f[s \ {top}], q[top])
        BY <4>1, <4>2
      <4> HIDE DEF g
      <4> QED BY <3>1, <3>3, <4>3 DEF top
    <3> QED BY <3>2, <3>3
  <2> HIDE DEF g, n
  <2> QED BY <1>1, <2>1, <2>2
<1>5. IsIter(iter)
  <2> HIDE DEF IsIter
  <2> QED BY <1>4
<1>6. Clean(q) = iter[1..n]
  <2>1. Clean(q) = iter[DOMAIN q]
    BY DEF Clean, FoldLeft, MapThenFoldSet
  <2> QED BY <1>1, <2>1
<1> HIDE DEF iter, g
<1> DEFINE m == [k \in 0..n |-> iter[1..k]]
<1>7. m[0] = <<>>
  <2>1. 1..0 = {} /\ 1..0 \in SUBSET DOMAIN q
    OBVIOUS
  <2>2. iter[1..0] = <<>>
    BY <1>5, <2>1
  <2>3. 0 \in 0..n
    BY <1>1
  <2> QED BY <2>2, <2>3
<1>8. ASSUME NEW k \in 1..n PROVE m[k] = CleanPart(m[k-1], q[k])
  <2> DEFINE s == 1..k
  <2>1. k-1 \in 0..n /\ k \in 0..n /\ k \in Nat /\ k \in s /\ s \in SUBSET (1..n)
    BY <1>1
  <2>2. Max(s) = k /\ s \ {k} = 1..(k-1) /\ s # {}
    <3>1. k \in Nat \ {0}
      BY <2>1
    <3> QED BY <3>1, MaxRange, Zenon
  <2>3. iter[s] = IF s = {} THEN <<>> ELSE CleanPart(iter[s \ {Max(s)}], q[Max(s)])
    <3> HIDE DEF s
    <3> QED BY <1>1, <1>5, <2>1
  <2>4. iter[s] = CleanPart(iter[1..(k-1)], q[k])
    <3> HIDE DEF s
    <3> QED BY <2>2, <2>3
  <2>5. m[k] = iter[s] /\ m[k-1] = iter[1..(k-1)]
    BY <2>1
  <2> HIDE DEF m, s
  <2> QED BY <2>4, <2>5
<1>9. m[n] = iter[1..n]
  BY <1>1
<1> HIDE DEF IsIter
<1>10. m \in [0..n -> Parts]
  <2> DEFINE K == {k \in 0..n : m[k] \in Parts}
  <2>0. m = [k \in 0..n |-> m[k]]
    OBVIOUS
  <2> HIDE DEF m
  <2>1. 0 \in K
    <3>1. <<>> \in Parts
      BY DEF Parts
    <3> QED BY <1>1, <1>7, <3>1
  <2>2. ASSUME NEW k \in 0..n-1, k \in K PROVE k+1 \in K
    <3>1. k+1 \in 1..n /\ k+1 \in 0..n /\ (k+1) - 1 = k /\ q[k+1] \in Part
      BY <1>1
    <3>2. m[k+1] = CleanPart(m[k], q[k+1])
      BY <1>8, <3>1
    <3> QED BY <2>2, <3>1, <3>2, CleanPartCases
  <2> HIDE DEF K
  <2>3. Inductive(K, n)
    BY <2>1, <2>2 DEF Inductive
  <2>4. \A k \in 0..n : k \in K
    BY <1>1, <2>3, UpTo
  <2>5. \A k \in 0..n : m[k] \in Parts
    BY <2>4 DEF K
  <2> QED BY <2>0, <2>5
<1>11. CleanRun(m, q)
  <2> HIDE DEF m
  <2> QED BY <1>7, <1>8, <1>10 DEF CleanRun
<1> HIDE DEF m
<1> QED BY <1>6, <1>9, <1>11

\* Cleaning adds no part.
LEMMA CleanInPath ==
    ASSUME NEW path \in Path
    PROVE  Clean(path) \in Path
<1> DEFINE n == Len(path)
           OnlyFirst(p) == p \in Parts /\ \A i \in 2..Len(p) : p[i] # Root
<1>1. n \in Nat /\ path \in Parts /\ \A i \in 1..n : path[i] \in Part
  BY DEF Path, Parts, Part
<1>2. PICK m : CleanRun(m, path) /\ Clean(path) = m[n]
  BY <1>1, CleanRuns
<1> DEFINE K == {k \in 0..n : OnlyFirst(m[k]) /\ (k = 0 => m[k] = <<>>)}
<1>3. 0 \in K
  BY <1>1, <1>2 DEF CleanRun, Parts
<1>4. ASSUME NEW k \in 0..n-1, k \in K PROVE k+1 \in K
  <2> DEFINE d == m[k]
             e == path[k+1]
             c == CleanPart(d, e)
  <2>1. k+1 \in 1..n /\ k+1 \in 0..n /\ (k+1) - 1 = k /\ k+1 # 0
    BY <1>1
  <2>2. m[k+1] = c /\ e \in Part /\ OnlyFirst(d) /\ (k = 0 => d = <<>>)
    BY <1>1, <1>2, <1>4, <2>1 DEF CleanRun
  <2>3. k # 0 => e # Root
    BY <1>1, <2>1 DEF Path
  <2> HIDE DEF d, e
  <2>4. c = d \/ c = Append(d, e) \/ (d # <<>> /\ c = SubSeq(d, 1, Len(d) - 1))
    BY <2>2, CleanPartCases DEF Climbs
  <2>5. c \in Parts
    BY <2>2, CleanPartCases
  <2>6. ASSUME c = Append(d, e) PROVE OnlyFirst(c)
    <3>1. /\ d \in Parts /\ Len(d) \in Nat /\ \A i \in 2..Len(d) : d[i] # Root
          /\ Len(c) = Len(d) + 1 /\ c[Len(d) + 1] = e
          /\ \A i \in 1..Len(d) : c[i] = d[i]
      BY <2>2, <2>6, Longer
    <3>2. ASSUME NEW i \in 2..Len(c) PROVE c[i] # Root
      <4>1. CASE i \in 2..Len(d)
        BY <3>1, <4>1
      <4>2. CASE i \notin 2..Len(d)
        <5>1. i = Len(d) + 1 /\ Len(d) # 0
          BY <3>1, <4>2
        <5>2. k # 0
          BY <2>2, <5>1
        <5> QED BY <2>3, <3>1, <5>1, <5>2
      <4> QED BY <4>1, <4>2
    <3> QED BY <2>5, <3>2
  <2>7. ASSUME d # <<>>, c = SubSeq(d, 1, Len(d) - 1) PROVE OnlyFirst(c)
    BY <2>2, <2>5, <2>7 DEF Parts
  <2>8. OnlyFirst(c)
    BY <2>2, <2>4, <2>6, <2>7
  <2> QED BY <2>1, <2>2, <2>8
<1>5. n \in K
  <2> HIDE DEF K
  <2>1. Inductive(K, n)
    BY <1>3, <1>4 DEF Inductive
  <2> QED BY <1>1, <2>1, UpTo
<1> QED BY <1>2, <1>5 DEF Path, Parts, Part

\* A clean absolute path.
Plain(part) == part \notin {"", ".", "..", Root}

Abs(d) ==
    /\ d \in Parts
    /\ d # <<>>
    /\ d[1] = Root
    /\ \A i \in 2..Len(d) : Plain(d[i])

\* An absolute path, cleaned, goes down from the root and nowhere else.
LEMMA CleanAbs ==
    ASSUME NEW path \in Path, IsAbs(path)
    PROVE  Abs(Clean(path))
<1> DEFINE n == Len(path)
<1>1. /\ n \in Nat /\ path \in Parts /\ \A i \in 1..n : path[i] \in Part
      /\ 1 \in 1..n /\ path[1] = Root
  BY DEF Path, Parts, Part, IsAbs
<1>2. PICK m : CleanRun(m, path) /\ Clean(path) = m[n]
  BY <1>1, CleanRuns
<1> DEFINE K == {k \in 0..n : k = 0 \/ Abs(m[k])}
<1>3. 0 \in K
  BY <1>1
<1>4. ASSUME NEW k \in 0..n-1, k \in K PROVE k+1 \in K
  <2> DEFINE d == m[k]
             e == path[k+1]
             c == CleanPart(d, e)
  <2>1. k+1 \in 1..n /\ k+1 \in 0..n /\ (k+1) - 1 = k
    BY <1>1
  <2>2. m[k+1] = c /\ e \in Part
    BY <1>1, <1>2, <2>1 DEF CleanRun
  <2>3. CASE k = 0
    <3>1. d = <<>> /\ e = Root
      BY <1>1, <1>2, <2>3 DEF CleanRun
    <3>2. c = <<Root>>
      BY <3>1 DEF CleanPart, Root
    <3> HIDE DEF c
    <3>3. Abs(c)
      <4>1. Len(<<Root>>) = 1 /\ <<Root>> \in Parts
        BY <1>1, <3>1 DEF Parts
      <4>2. \A i : i \notin 2..1
        OBVIOUS
      <4> QED BY <3>2, <4>1, <4>2 DEF Abs, Parts
    <3> USE DEF c
    <3> QED BY <2>1, <2>2, <3>3
  <2>4. CASE k # 0
    <3>1. Abs(d) /\ e # Root
      BY <1>1, <1>4, <2>1, <2>4 DEF Path
    <3> HIDE DEF d, e
    <3>2. d \in Parts /\ d # <<>> /\ Len(d) \in Nat /\ Len(d) >= 1 /\ d[Len(d)] # ".."
      <4>0. d \in Parts /\ d # <<>>
        BY <3>1 DEF Abs
      <4>1. d \in Parts /\ d # <<>> /\ Len(d) \in Nat /\ Len(d) >= 1
        <5>1. Len(d) \in Nat \ {0}
          BY <4>0, Shorter, Zenon
        <5> QED BY <4>0, <5>1
      <4>2. Len(d) = 1 \/ Len(d) \in 2..Len(d)
        <5>1. \A x \in Nat : x >= 1 => x = 1 \/ x \in 2..x
          OBVIOUS
        <5> QED BY <4>1, <5>1, Zenon
      <4>3. d[1] # ".." /\ \A i \in 2..Len(d) : d[i] # ".."
        BY <3>1 DEF Abs, Plain, Root
      <4> QED BY <4>1, <4>2, <4>3
    <3>3. c \in Parts
      BY <2>2, <3>2, CleanPartCases
    <3>4. \/ c = d
          \/ c = SubSeq(d, 1, Len(d) - 1) /\ d # <<Root>>
          \/ c = Append(d, e) /\ Plain(e)
      <4>1. CASE Skips(e) \/ Climbs(d, e)
        BY <2>2, <3>2, <4>1, CleanPartCases
      <4>2. CASE ~Skips(e) /\ ~Climbs(d, e)
        <5>1. Plain(e)
          BY <3>1, <3>2, <4>2 DEF Plain, Skips, Climbs
        <5>2. c = Append(d, e)
          BY <2>2, <3>2, <4>2, CleanPartCases
        <5> QED BY <5>1, <5>2
      <4> QED BY <4>1, <4>2
    <3>5. ASSUME c = SubSeq(d, 1, Len(d) - 1), d # <<Root>> PROVE Abs(c)
      <4>1. Len(d) >= 2
        <5>1. Len(d) = 1 => d = <<Root>>
          <6>1. Len(d) = 1 => d = <<d[1]>>
            BY <3>2, Shorter, Zenon
          <6> QED BY <3>1, <6>1 DEF Abs
        <5>2. Len(d) # 1
          BY <3>5, <5>1, Zenon
        <5>3. \A x \in Nat : x >= 1 /\ x # 1 => x >= 2
          OBVIOUS
        <5> QED BY <3>2, <5>2, <5>3, Zenon
      <4>2. Len(c) = Len(d) - 1 /\ \A i \in 1..Len(d)-1 : c[i] = d[i]
        BY <3>2, <3>5, Shorter
      <4>3. c # <<>> /\ c[1] = Root
        BY <3>1, <3>2, <4>1, <4>2 DEF Abs
      <4> QED BY <3>1, <3>2, <3>3, <4>2, <4>3 DEF Abs
    <3>6. ASSUME c = Append(d, e), Plain(e) PROVE Abs(c)
      <4>1. /\ Len(c) = Len(d) + 1 /\ c[Len(d) + 1] = e
            /\ \A i \in 1..Len(d) : c[i] = d[i]
        BY <2>2, <3>2, <3>6, Longer
      <4>2. c # <<>> /\ c[1] = Root
        BY <3>1, <3>2, <4>1 DEF Abs
      <4>3. ASSUME NEW i \in 2..Len(c) PROVE Plain(c[i])
        <5>1. i = Len(d) + 1 \/ (i \in 2..Len(d) /\ i \in 1..Len(d))
          BY <3>2, <4>1
        <5> QED BY <3>1, <3>6, <4>1, <5>1 DEF Abs
      <4> QED BY <3>3, <4>2, <4>3 DEF Abs
    <3>7. Abs(c)
      BY <3>1, <3>4, <3>5, <3>6
    <3> QED BY <2>1, <2>2, <3>7
  <2> QED BY <2>3, <2>4
<1>5. n \in K
  <2> HIDE DEF K
  <2>1. Inductive(K, n)
    BY <1>3, <1>4 DEF Inductive
  <2> QED BY <1>1, <2>1, UpTo
<1> QED BY <1>1, <1>2, <1>5

\* What happens to the end of a path happens to it beneath a directory.
LEMMA Joined ==
    ASSUME NEW d \in Parts, NEW s \in Parts
    PROVE  /\ d \o s \in Parts
           /\ Len(d) \in Nat /\ Len(s) \in Nat /\ Len(d \o s) = Len(d) + Len(s)
           /\ \A i \in 1..Len(d) : (d \o s)[i] = d[i]
           /\ \A i \in 1..Len(s) : (d \o s)[Len(d) + i] = s[i]
BY DEF Parts

\* Adding a part to the end of a joined path.
LEMMA AppendJoined ==
    ASSUME NEW d \in Parts, NEW s \in Parts, NEW e \in Part
    PROVE  Append(d \o s, e) = d \o Append(s, e)
<1> DEFINE a == Append(d \o s, e)
           b == d \o Append(s, e)
           n == Len(d)
           k == Len(s)
<1>0. n \in Nat /\ k \in Nat
  BY Joined, Zenon
<1>1. d \o s \in Parts /\ Append(s, e) \in Parts
  BY Joined, Longer, Zenon
<1>2. /\ a \in Parts /\ Len(a) = n + k + 1
      /\ \A i \in 1..n+k : a[i] = (d \o s)[i]
      /\ a[n+k+1] = e
  <2>1. Len(d \o s) = n + k
    BY Joined, Zenon
  <2> QED BY <1>1, <2>1, Longer
<1>3. /\ b \in Parts /\ Len(b) = n + (k + 1)
      /\ \A i \in 1..n : b[i] = d[i]
      /\ \A i \in 1..k+1 : b[n+i] = Append(s, e)[i]
  <2>1. Len(Append(s, e)) = k + 1
    BY Longer
  <2> DEFINE t == Append(s, e)
  <2>2. t \in Parts /\ Len(t) = k + 1
    BY <1>1, <2>1
  <2> HIDE DEF t
  <2>3. /\ d \o t \in Parts /\ Len(d \o t) = n + Len(t)
        /\ \A i \in 1..n : (d \o t)[i] = d[i]
        /\ \A i \in 1..Len(t) : (d \o t)[n+i] = t[i]
    BY <2>2, Joined, Zenon
  <2>4. /\ d \o t \in Parts /\ Len(d \o t) = n + (k + 1)
        /\ \A i \in 1..n : (d \o t)[i] = d[i]
        /\ \A i \in 1..k+1 : (d \o t)[n+i] = t[i]
    BY <2>2, <2>3, Zenon
  <2> QED BY <2>4 DEF t
<1>4. ASSUME NEW i \in 1..n+k+1 PROVE a[i] = b[i]
  <2>1. CASE i \in 1..n
    BY <1>0, <1>2, <1>3, <2>1, Joined
  <2>2. CASE i \notin 1..n /\ i # n+k+1
    <3> DEFINE j == i - n
    <3>1. j \in 1..k /\ j \in 1..k+1 /\ i = n + j /\ i \in 1..n+k
      BY <1>0, <2>2
    <3> HIDE DEF j
    <3>2. b[i] = Append(s, e)[j] /\ Append(s, e)[j] = s[j]
      BY <1>3, <3>1, Longer
    <3>3. a[i] = (d \o s)[i] /\ (d \o s)[i] = s[j]
      BY <1>2, <3>1, Joined
    <3> QED BY <3>2, <3>3
  <2>3. CASE i = n+k+1
    <3>1. k+1 \in 1..k+1 /\ i = n + (k+1)
      BY <1>0, <2>3
    <3>2. b[i] = Append(s, e)[k+1] /\ Append(s, e)[k+1] = e
      BY <1>3, <3>1, Longer
    <3> QED BY <1>2, <2>3, <3>2
  <2> QED BY <2>1, <2>2, <2>3
<1>5. Len(a) = n+k+1 /\ Len(b) = n+k+1
  BY <1>0, <1>2, <1>3
<1> HIDE DEF a, b, n, k
<1>6. a = b
  BY <1>2, <1>3, <1>4, <1>5, SeqEqual DEF Parts
<1> QED BY <1>6 DEF a, b

\* Taking the last part of a joined path away.
LEMMA FrontJoined ==
    ASSUME NEW d \in Parts, NEW s \in Parts, s # <<>>
    PROVE  /\ (d \o s)[Len(d \o s)] = s[Len(s)]
           /\ SubSeq(d \o s, 1, Len(d \o s) - 1) = d \o SubSeq(s, 1, Len(s) - 1)
<1> DEFINE n == Len(d)
           k == Len(s)
           f == SubSeq(s, 1, k - 1)
           a == SubSeq(d \o s, 1, Len(d \o s) - 1)
           b == d \o f
<1>1. f \in Parts /\ k \in Nat \ {0} /\ Len(f) = k - 1 /\ \A i \in 1..k-1 : f[i] = s[i]
  BY Shorter, Zenon
<1>2. /\ d \o s \in Parts /\ n \in Nat /\ Len(d \o s) = n + k
      /\ \A i \in 1..n : (d \o s)[i] = d[i]
      /\ \A i \in 1..k : (d \o s)[n + i] = s[i]
  BY Joined, Zenon
<1>3. /\ a \in Parts /\ Len(a) = Len(d \o s) - 1
      /\ \A i \in 1..Len(d \o s)-1 : a[i] = (d \o s)[i]
  <2>1. d \o s # <<>>
    BY <1>1, <1>2
  <2> QED BY <1>2, <2>1, Shorter, Zenon
<1>4. /\ b \in Parts /\ Len(b) = n + (k - 1)
      /\ \A i \in 1..n : b[i] = d[i]
      /\ \A i \in 1..k-1 : b[n + i] = f[i]
  <2> HIDE DEF f
  <2>1. /\ d \o f \in Parts /\ Len(d \o f) = n + Len(f)
        /\ \A i \in 1..n : (d \o f)[i] = d[i]
        /\ \A i \in 1..Len(f) : (d \o f)[n + i] = f[i]
    BY <1>1, Joined, Zenon
  <2> QED BY <1>1, <2>1
<1> DEFINE u == d \o s
<1> HIDE DEF a, b, f, n, k, u
<1>10. Len(u) = n+k /\ \A i \in 1..n+k-1 : a[i] = u[i]
  <2>1. Len(u) = n+k /\ \A i \in 1..Len(u)-1 : a[i] = u[i]
    BY <1>2, <1>3 DEF u
  <2>0. n \in Nat /\ k \in Nat
    BY <1>1, <1>2
  <2>2. Len(u) - 1 = n+k-1
    BY <2>0, <2>1
  <2>3. \A i \in 1..n+k-1 : i \in 1..Len(u)-1
    BY <2>2
  <2> QED BY <2>1, <2>3, Zenon
<1>5. ASSUME NEW i \in 1..n+k-1 PROVE a[i] = b[i]
  <2>1. CASE i \in 1..n
    BY <1>2, <1>4, <1>10, <2>1 DEF u
  <2>2. CASE i \notin 1..n
    <3> DEFINE j == i - n
    <3>1. j \in 1..k /\ j \in 1..k-1 /\ i = n + j
      BY <1>1, <1>2, <2>2
    <3> HIDE DEF j
    <3>2. a[i] = s[j]
      BY <1>2, <1>10, <3>1 DEF u
    <3>3. b[i] = s[j]
      BY <1>1, <1>4, <3>1
    <3> QED BY <3>2, <3>3
  <2> QED BY <2>1, <2>2
<1>6. Len(a) = n+k-1 /\ Len(b) = n+k-1
  BY <1>1, <1>2, <1>3, <1>4
<1>7. a = b
  BY <1>3, <1>4, <1>5, <1>6, SeqEqual DEF Parts
<1>8. k \in 1..k
  BY <1>1
<1>9. (d \o s)[n + k] = s[k]
  BY <1>2, <1>8
<1> QED BY <1>2, <1>7, <1>9 DEF a, b, f, k

\* Going through a clean directory leads to it.
LEMMA CleanThrough ==
    ASSUME NEW d, Abs(d), NEW q \in Parts, NEW m, CleanRun(m, d \o q)
    PROVE  m[Len(d)] = d
<1> DEFINE n == Len(d)
           p == d \o q
<1>1. /\ d \in Parts /\ n \in Nat /\ d[1] = Root /\ \A i \in 2..n : Plain(d[i])
      /\ Len(p) = n + Len(q) /\ Len(q) \in Nat /\ p \in Parts /\ d # <<>>
      /\ \A i \in 1..n : p[i] = d[i]
  BY Joined, Zenon DEF Abs
<1>2. n \in Nat \ {0} /\ \A i \in 1..n : d[i] \in Part
  BY <1>1 DEF Parts
<1> DEFINE Same(k) == Len(m[k]) = k /\ \A i \in 1..k : m[k][i] = d[i]
           K == {k \in 0..n : Same(k)}
<1>3. m[0] = <<>> /\ m \in [0..Len(p) -> Parts]
      /\ \A k \in 1..Len(p) : m[k] = CleanPart(m[k-1], p[k])
  BY DEF CleanRun
<1> HIDE DEF p
<1>4. 0 \in K
  BY <1>2, <1>3
<1>5. ASSUME NEW k \in 0..n-1, k \in K PROVE k+1 \in K
  <2> DEFINE c == m[k]
             e == d[k+1]
  <2>1. /\ k+1 \in 1..n /\ k+1 \in 0..n /\ k \in 0..Len(p) /\ k+1 \in 1..Len(p)
        /\ (k+1) - 1 = k /\ k \in Nat
    BY <1>1, <1>2
  <2>2. c \in Parts /\ e \in Part /\ Same(k) /\ m[k+1] = CleanPart(c, e)
    <3>1. p[k+1] = e
      BY <1>1, <2>1
    <3> QED BY <1>2, <1>3, <1>5, <2>1, <3>1
  <2>3. ~Skips(e) /\ ~Climbs(c, e)
    <3>1. CASE k = 0
      <4>1. e = Root
        BY <1>1, <3>1
      <4> QED BY <4>1 DEF Skips, Climbs, Root
    <3>2. CASE k # 0
      <4>1. k+1 \in 2..n
        BY <2>1, <3>2
      <4>2. Plain(e)
        BY <1>1, <4>1
      <4> QED BY <4>2 DEF Plain, Skips, Climbs
    <3> QED BY <3>1, <3>2
  <2> HIDE DEF c, e
  <2>4. m[k+1] = Append(c, e)
    BY <2>2, <2>3, CleanPartCases
  <2>5. /\ Len(m[k+1]) = Len(c) + 1
        /\ \A i \in 1..Len(c) : m[k+1][i] = c[i]
        /\ m[k+1][Len(c)+1] = e
    <3>1. /\ Len(Append(c, e)) = Len(c) + 1
          /\ \A i \in 1..Len(c) : Append(c, e)[i] = c[i]
          /\ Append(c, e)[Len(c)+1] = e
      BY <2>2, Longer, Zenon
    <3> QED BY <2>4, <3>1, Zenon
  <2>6. Len(c) = k /\ \A i \in 1..k : c[i] = d[i]
    BY <2>2 DEF c
  <2>7. Same(k+1)
    <3>1. \A i \in 1..k+1 : i \in 1..k \/ i = k+1
      BY <2>1
    <3> QED BY <2>5, <2>6, <3>1 DEF e
  <2> QED BY <2>1, <2>7
<1>6. n \in K
  <2> HIDE DEF K
  <2>1. Inductive(K, n)
    BY <1>4, <1>5 DEF Inductive
  <2> QED BY <1>1, <2>1, UpTo
<1>7. m[n] \in Parts
  BY <1>1, <1>3
<1>8. Len(m[n]) = n /\ \A i \in 1..n : m[n][i] = d[i]
  BY <1>6
<1> QED BY <1>1, <1>7, <1>8, SeqEqual DEF Parts

\* A relative path that has left the directory it started from, and one that
\* has not.
Out(c) == c # <<>> /\ c[1] = ".."

Low(c) == \A i \in 1..Len(c) : c[i] # ".." /\ c[i] # Root

\* There is no way back.
LEMMA OutStays ==
    ASSUME NEW c \in Parts, NEW e \in Part, Out(c)
    PROVE  Out(CleanPart(c, e))
<1> DEFINE n == Len(c)
<1>1. c # <<>> /\ c[1] = ".."
  BY DEF Out
<1>2. n \in Nat \ {0}
  BY <1>1, Shorter, Zenon
<1>3. CASE Skips(e)
  <2>1. CleanPart(c, e) = c
    BY <1>3, CleanPartCases, Zenon
  <2> QED BY <2>1
<1>4. CASE Climbs(c, e)
  <2> DEFINE f == SubSeq(c, 1, n - 1)
  <2>1. n # 1
    BY <1>1, <1>4 DEF Climbs
  <2>2. f \in Parts /\ Len(f) = n - 1 /\ \A i \in 1..n-1 : f[i] = c[i]
    BY <1>1, Shorter, Zenon
  <2>3. c # <<Root>>
    BY <1>1 DEF Root
  <2>4. CleanPart(c, e) = f
    BY <1>4, <2>3, CleanPartCases, Zenon
  <2> HIDE DEF f, n
  <2>5. 1 \in 1..n-1 /\ Len(f) # 0
    BY <1>2, <2>1, <2>2
  <2>6. f # <<>> /\ f[1] = ".."
    BY <1>1, <2>2, <2>5
  <2> QED BY <2>4, <2>6 DEF Out
<1>5. CASE ~Skips(e) /\ ~Climbs(c, e)
  <2> DEFINE f == Append(c, e)
  <2>1. f # <<>> /\ \A i \in 1..n : f[i] = c[i]
    BY Longer, Zenon
  <2>2. CleanPart(c, e) = f
    BY <1>5, CleanPartCases, Zenon
  <2> HIDE DEF f, n
  <2>3. 1 \in 1..n
    BY <1>2
  <2> QED BY <1>1, <2>1, <2>2, <2>3 DEF Out
<1> QED BY <1>3, <1>4, <1>5

\* A part goes the same way below a directory, or leaves it.
LEMMA LowGoesBelow ==
    ASSUME NEW d, Abs(d), NEW c \in Parts, Low(c), NEW e \in Part, e # Root
    PROVE  \/ Out(CleanPart(c, e))
           \/ /\ Low(CleanPart(c, e))
              /\ CleanPart(d \o c, e) = d \o CleanPart(c, e)
<1> DEFINE n == Len(c)
           p == d \o c
<1>1. /\ d \in Parts /\ p \in Parts /\ Len(d) \in Nat \ {0} /\ n \in Nat
      /\ Len(p) = Len(d) + n
  <2>1. d \in Parts /\ d # <<>>
    BY DEF Abs
  <2> QED BY <2>1, Shorter, Joined, Zenon
<1>2. CASE Skips(e)
  <2>1. CleanPart(c, e) = c /\ CleanPart(p, e) = p
    BY <1>1, <1>2, CleanPartCases, Zenon
  <2> QED BY <2>1
<1>3. CASE e = ".." /\ c = <<>>
  <2>1. ~Skips(e) /\ ~Climbs(c, e)
    BY <1>3 DEF Skips, Climbs
  <2>2. CleanPart(c, e) = Append(c, e)
    BY <2>1, CleanPartCases, Zenon
  <2>3. Append(c, e) = <<"..">>
    BY <1>3
  <2> QED BY <2>2, <2>3 DEF Out
<1>4. CASE e = ".." /\ c # <<>>
  <2> DEFINE f == SubSeq(c, 1, n - 1)
             g == SubSeq(p, 1, Len(p) - 1)
  <2>1. n \in Nat \ {0} /\ f \in Parts /\ Len(f) = n - 1 /\ \A i \in 1..n-1 : f[i] = c[i]
    BY <1>4, Shorter, Zenon
  <2>2. p[Len(p)] = c[n] /\ g = d \o f
    BY <1>1, <1>4, FrontJoined, Zenon
  <2> HIDE DEF f, g, n, p
  <2>3. c[n] # ".." /\ c[1] # Root
    <3>1. n \in 1..n /\ 1 \in 1..n
      BY <2>1
    <3> QED BY <3>1 DEF Low, n
  <2>4. c # <<Root>> /\ p # <<Root>> /\ p # <<>>
    <3>1. Len(p) # 1 /\ Len(p) # 0
      BY <1>1, <2>1
    <3>2. Len(<<Root>>) = 1 /\ <<Root>>[1] = Root /\ Len(<<>>) = 0
      OBVIOUS
    <3> QED BY <2>3, <3>1, <3>2, Zenon
  <2>5. Climbs(c, e) /\ Climbs(p, e)
    BY <1>4, <2>2, <2>3, <2>4 DEF Climbs, n
  <2>6. CleanPart(c, e) = f
    BY <2>4, <2>5, CleanPartCases, Zenon DEF f, n
  <2>7. CleanPart(p, e) = g
    BY <1>1, <2>4, <2>5, CleanPartCases, Zenon DEF g
  <2>8. Low(f)
    <3>1. \A i \in 1..Len(f) : i \in 1..n-1 /\ i \in 1..n
      BY <2>1
    <3> QED BY <2>1, <3>1 DEF Low, n
  <2> QED BY <2>2, <2>6, <2>7, <2>8 DEF p
<1>5. CASE ~Skips(e) /\ e # ".."
  <2> DEFINE f == Append(c, e)
  <2>1. ~Climbs(c, e) /\ ~Climbs(p, e)
    BY <1>5 DEF Climbs
  <2>2. CleanPart(c, e) = f
    BY <1>5, <2>1, CleanPartCases, Zenon
  <2>3. CleanPart(p, e) = Append(p, e)
    BY <1>1, <1>5, <2>1, CleanPartCases, Zenon
  <2>4. Append(p, e) = d \o f
    BY <1>1, AppendJoined, Zenon
  <2>5. Len(f) = n + 1 /\ (\A i \in 1..n : f[i] = c[i]) /\ f[n+1] = e
    BY Longer, Zenon
  <2> HIDE DEF f, n, p
  <2>6. Low(f)
    <3>1. \A i \in 1..Len(f) : i \in 1..n \/ i = n+1
      BY <1>1, <2>5
    <3> QED BY <1>5, <2>5, <3>1 DEF Low, n
  <2> QED BY <2>2, <2>3, <2>4, <2>6 DEF p
<1> QED BY <1>2, <1>3, <1>4, <1>5

\* A region that normalizeCommitRegion accepts leads to the directory beneath
\* the repository that its clean form names.
LEMMA CleanBeneath ==
    ASSUME NEW d, Abs(d), NEW r \in Path, ~BadRegion(r)
    PROVE  Clean(d \o r) = d \o Clean(r) /\ Clean(r) \in Parts
<1> DEFINE n == Len(d)
           l == Len(r)
           p == d \o r
<1>1. /\ d \in Parts /\ r \in Parts /\ p \in Parts /\ n \in Nat /\ l \in Nat
      /\ Len(p) = n + l /\ \A i \in 1..l : p[n + i] = r[i]
  <2>1. d \in Parts /\ r \in Parts
    BY DEF Abs, Path, Parts, Part
  <2> QED BY <2>1, Joined, Zenon
<1>2. \A i \in 1..l : r[i] \in Part /\ r[i] # Root
  <2>1. r # <<>> /\ r[1] # Root
    BY DEF BadRegion, IsAbs, Path
  <2>2. \A i \in 2..l : r[i] # Root
    BY DEF Path
  <2>3. \A i \in 1..l : r[i] \in Part
    BY <1>1 DEF Parts
  <2>4. \A i \in 1..l : i = 1 \/ i \in 2..l
    OBVIOUS
  <2> QED BY <2>1, <2>2, <2>3, <2>4, Zenon
<1>3. PICK s : CleanRun(s, r) /\ Clean(r) = s[l]
  BY <1>1, CleanRuns, Zenon
<1>4. PICK m : CleanRun(m, p) /\ Clean(p) = m[n + l]
  BY <1>1, CleanRuns, Zenon
<1>5. m[n] = d
  BY <1>1, <1>4, CleanThrough, Zenon
<1>6. /\ s \in [0..l -> Parts] /\ s[0] = <<>>
      /\ \A k \in 1..l : s[k] = CleanPart(s[k-1], r[k])
  BY <1>3 DEF CleanRun
<1>7. \A k \in 1..n+l : m[k] = CleanPart(m[k-1], p[k])
  <2> HIDE DEF p
  <2> QED BY <1>1, <1>4 DEF CleanRun
<1> HIDE DEF n, l, p
<1> DEFINE K == {k \in 0..l : Out(s[k]) \/ (Low(s[k]) /\ m[n+k] = d \o s[k])}
<1>8. 0 \in K
  <2>1. n + 0 = n /\ 0 \in 0..l
    BY <1>1
  <2>2. d \o <<>> = d
    BY <1>1 DEF Parts
  <2>3. Low(<<>>)
    BY DEF Low
  <2> QED BY <1>5, <1>6, <2>1, <2>2, <2>3
<1>9. ASSUME NEW k \in 0..l-1, k \in K PROVE k+1 \in K
  <2> DEFINE c == s[k]
             e == r[k+1]
             f == CleanPart(c, e)
  <2>1. /\ k+1 \in 1..l /\ k+1 \in 0..l /\ (k+1)-1 = k /\ k \in 0..l
        /\ n+(k+1) \in 1..n+l /\ (n+(k+1))-1 = n+k
    BY <1>1
  <2>2. c \in Parts /\ e \in Part /\ e # Root /\ s[k+1] = f
    <3>1. s[k+1] = CleanPart(s[(k+1)-1], r[k+1])
      BY <1>6, <2>1, Zenon
    <3> QED BY <1>2, <1>6, <2>1, <3>1
  <2>3. m[n+(k+1)] = CleanPart(m[n+k], e)
    <3>1. m[n+(k+1)] = CleanPart(m[(n+(k+1))-1], p[n+(k+1)])
      BY <1>7, <2>1, Zenon
    <3>2. p[n+(k+1)] = r[k+1]
      BY <1>1, <2>1, Zenon
    <3> QED BY <2>1, <3>1, <3>2
  <2>4. Out(c) \/ (Low(c) /\ m[n+k] = d \o c)
    BY <1>9
  <2> HIDE DEF c, e, f
  <2>5. Out(f) \/ (Low(f) /\ m[n+(k+1)] = d \o f)
    <3>1. CASE Out(c)
      BY <2>2, <3>1, OutStays, Zenon DEF f
    <3>2. CASE Low(c) /\ m[n+k] = d \o c
      <4>1. m[n+(k+1)] = CleanPart(d \o c, e)
        BY <2>3, <3>2
      <4>2. Out(f) \/ (Low(f) /\ CleanPart(d \o c, e) = d \o f)
        BY <2>2, <3>2, LowGoesBelow, Zenon DEF f
      <4> QED BY <4>1, <4>2, Zenon
    <3> QED BY <2>4, <3>1, <3>2
  <2> QED BY <2>1, <2>2, <2>5
<1>10. l \in K
  <2> HIDE DEF K
  <2>1. Inductive(K, l)
    BY <1>8, <1>9 DEF Inductive
  <2> QED BY <1>1, <2>1, UpTo
<1>11. ~Out(s[l])
  <2>1. Head(Clean(r)) # ".."
    BY DEF BadRegion
  <2>2. s[l] \in Parts
    BY <1>1, <1>6
  <2> QED BY <1>3, <2>1, <2>2 DEF Out, Parts
<1>12. s[l] \in Parts
  BY <1>1, <1>6
<1> QED BY <1>3, <1>4, <1>10, <1>11, <1>12 DEF p

\* One path is beneath another: the other is longer and begins with it.
LEMMA BeneathIs ==
    ASSUME NEW s \in Parts, NEW t \in Parts
    PROVE  Beneath(s, t) <=> Len(s) < Len(t) /\ \A i \in 1..Len(s) : s[i] = t[i]
<1> DEFINE n == Len(s)
           l == Len(t)
           a == SubSeq(s, 1, n)
           b == SubSeq(t, 1, n)
<1>1. n \in Nat /\ l \in Nat /\ \A i \in 1..n : s[i] \in Part
  BY DEF Parts
<1>2. a = s
  BY SubSeqFull DEF Parts
<1>3. ASSUME n <= l
      PROVE  b \in Parts /\ Len(b) = n /\ \A i \in 1..n : b[i] = t[i]
  BY <1>1, <1>3 DEF Parts
<1>4. ASSUME n <= l PROVE a = b <=> \A i \in 1..n : s[i] = t[i]
  <2>1. (\A i \in 1..n : s[i] = t[i]) => s = b
    BY <1>3, <1>4, SeqEqual DEF Parts
  <2> HIDE DEF a, b
  <2> QED BY <1>2, <1>3, <1>4, <2>1
<1>5. ASSUME n = l, \A i \in 1..n : s[i] = t[i] PROVE s = t
  BY <1>5, SeqEqual DEF Parts
<1>6. n # l => s # t
  OBVIOUS
<1> HIDE DEF a, b
<1>7. Beneath(s, t) <=> n <= l /\ a = b /\ s # t
  BY DEF Beneath, IsStrictPrefix, IsPrefix, a, b
<1> HIDE DEF n, l
<1>8. n < l <=> n <= l /\ n # l
  BY <1>1
<1> DEFINE same == \A i \in 1..n : s[i] = t[i]
<1> HIDE DEF same
<1>9. n <= l => (a = b <=> same)
  BY <1>4 DEF same
<1>10. n = l /\ same => s = t
  BY <1>5 DEF same
<1>11. Beneath(s, t) <=> n < l /\ same
  BY <1>6, <1>7, <1>8, <1>9, <1>10
<1> QED BY <1>11 DEF n, l, same

\* What is beneath a directory of a directory.
LEMMA BeneathJoined ==
    ASSUME NEW d \in Parts, NEW c \in Parts, NEW p \in Parts
    PROVE  Beneath(d \o c, d \o p) <=> Beneath(c, p)
<1> DEFINE n == Len(d)
           a == d \o c
           b == d \o p
<1>1. /\ a \in Parts /\ b \in Parts /\ n \in Nat /\ Len(c) \in Nat /\ Len(p) \in Nat
      /\ Len(a) = n + Len(c) /\ Len(b) = n + Len(p)
      /\ \A i \in 1..n : a[i] = d[i] /\ b[i] = d[i]
      /\ \A i \in 1..Len(c) : a[n+i] = c[i]
      /\ \A i \in 1..Len(p) : b[n+i] = p[i]
  BY Joined, Zenon
<1>2. Beneath(a, b) <=> Len(a) < Len(b) /\ \A i \in 1..Len(a) : a[i] = b[i]
  BY <1>1, BeneathIs, Zenon
<1>3. Beneath(c, p) <=> Len(c) < Len(p) /\ \A i \in 1..Len(c) : c[i] = p[i]
  BY BeneathIs, Zenon
<1> HIDE DEF a, b, n
<1>4. Len(a) < Len(b) <=> Len(c) < Len(p)
  BY <1>1
<1>5. ASSUME Len(c) < Len(p)
      PROVE  (\A i \in 1..Len(a) : a[i] = b[i]) <=> \A i \in 1..Len(c) : c[i] = p[i]
  <2>1. ASSUME \A i \in 1..Len(a) : a[i] = b[i], NEW j \in 1..Len(c) PROVE c[j] = p[j]
    <3>1. n+j \in 1..Len(a) /\ j \in 1..Len(p)
      BY <1>1, <1>5
    <3> QED BY <1>1, <2>1, <3>1
  <2>2. ASSUME \A i \in 1..Len(c) : c[i] = p[i], NEW i \in 1..Len(a) PROVE a[i] = b[i]
    <3>1. CASE i \in 1..n
      BY <1>1, <3>1
    <3>2. CASE i \notin 1..n
      <4>1. PICK j \in 1..Len(c) : i = n+j
        <5>1. i - n \in 1..Len(c) /\ i = n + (i - n)
          BY <1>1, <3>2
        <5> QED BY <5>1
      <4>2. j \in 1..Len(p)
        BY <1>1, <1>5
      <4> QED BY <1>1, <2>2, <4>1, <4>2
    <3> QED BY <3>1, <3>2
  <2> QED BY <2>1, <2>2
<1>6. Beneath(a, b) <=> Beneath(c, p)
  BY <1>2, <1>3, <1>4, <1>5
<1> QED BY <1>6 DEF a, b

----------------------------------------------------------------------------
(* Layers *)

\* Where a value is the first that is set.
FirstSet(values, unset, n, k) ==
    k \in 1..n /\ values[k] # unset /\ \A j \in 1..k-1 : values[j] = unset

\* coalesce returns the first value that is set, if one is.
LEMMA CoalesceIs ==
    ASSUME NEW n \in Nat, NEW values, DOMAIN values = 1..n, NEW unset
    PROVE  \/ (\A k \in 1..n : values[k] = unset) /\ Coalesce(values, unset) = unset
           \/ \E k \in 1..n : FirstSet(values, unset, n, k) /\ Coalesce(values, unset) = values[k]
<1> DEFINE set == {k \in DOMAIN values : values[k] # unset}
<1>1. CASE set = {}
  BY <1>1 DEF Coalesce
<1>2. CASE set # {}
  <2>1. set \subseteq Nat
    OBVIOUS
  <2> HIDE DEF set
  <2>2. \E i \in set : \A j \in set : i <= j
    BY <1>2, <2>1, LeastElement
  <2>3. Min(set) \in set /\ \A j \in set : Min(set) <= j
    BY <2>2 DEF Min
  <2> DEFINE k == Min(set)
  <2>4. k \in 1..n /\ values[k] # unset
    BY <2>3 DEF set
  <2>5. ASSUME NEW j \in 1..k-1 PROVE values[j] = unset
    <3>1. j \in 1..n /\ ~(k <= j)
      BY <2>4
    <3>2. j \notin set
      BY <2>3, <3>1
    <3> QED BY <3>1, <3>2 DEF set
  <2>6. Coalesce(values, unset) = values[k]
    BY <1>2 DEF Coalesce, set
  <2> HIDE DEF k
  <2> QED BY <2>4, <2>5, <2>6 DEF FirstSet
<1> QED BY <1>1, <1>2

\* There is one first.
LEMMA FirstIsOne ==
    ASSUME NEW n \in Nat, NEW values, NEW unset, NEW k, NEW m,
           FirstSet(values, unset, n, k), FirstSet(values, unset, n, m)
    PROVE  k = m
<1>1. k \in 1..n /\ m \in 1..n /\ values[k] # unset /\ values[m] # unset
  BY DEF FirstSet
<1>2. k \notin 1..m-1 /\ m \notin 1..k-1
  BY <1>1 DEF FirstSet
<1> QED BY <1>1, <1>2

\* Three layers.
Three(ls) == DOMAIN ls = 1..3 /\ \A k \in 1..3 : ls[k] \in Layer

Policy(ls) == [k \in 1..3 |-> ls[k].policy]
Regional(ls) == [k \in 1..3 |-> ls[k].regions]

\* A setting is coalesced over the layers.
LEMMA SettingsIs ==
    ASSUME NEW ls, Three(ls)
    PROVE  /\ Setting(ls, "policy", Unset) = Coalesce(Policy(ls), Unset)
           /\ Setting(ls, "regions", <<>>) = Coalesce(Regional(ls), <<>>)
BY DEF Setting, Three, Policy, Regional

\* The policy and the regions of a configuration that is not refused.
LEMMA SettingsOf ==
    ASSUME NEW ls, Three(ls), ~Refused(ls)
    PROVE  /\ PolicyOf(ls) \in Policies
           /\ Setting(ls, "regions", <<>>) \in Seq(Path)
           /\ \/ (\A k \in 1..3 : ls[k].policy = Unset) /\ PolicyOf(ls) = "none"
              \/ \E k \in 1..3 : FirstSet(Policy(ls), Unset, 3, k) /\ PolicyOf(ls) = ls[k].policy
           /\ \/ (\A k \in 1..3 : ls[k].regions = <<>>) /\ Setting(ls, "regions", <<>>) = <<>>
              \/ \E k \in 1..3 : /\ FirstSet(Regional(ls), <<>>, 3, k)
                                 /\ Setting(ls, "regions", <<>>) = ls[k].regions
<1> DEFINE p == Coalesce(Policy(ls), Unset)
           r == Coalesce(Regional(ls), <<>>)
<1>1. Setting(ls, "policy", Unset) = p /\ Setting(ls, "regions", <<>>) = r
  BY SettingsIs
<1>2. /\ DOMAIN Policy(ls) = 1..3 /\ DOMAIN Regional(ls) = 1..3
      /\ \A k \in 1..3 : Policy(ls)[k] = ls[k].policy /\ Regional(ls)[k] = ls[k].regions
  BY DEF Policy, Regional
<1>3. \/ (\A k \in 1..3 : ls[k].policy = Unset) /\ p = Unset
      \/ \E k \in 1..3 : FirstSet(Policy(ls), Unset, 3, k) /\ p = ls[k].policy
  <2> DEFINE v == Policy(ls)
             n == 3
             u == Unset
  <2>1. n \in Nat /\ DOMAIN v = 1..n /\ \A k \in 1..n : v[k] = ls[k].policy
    BY <1>2
  <2> HIDE DEF v, n, u
  <2>2. \/ (\A k \in 1..n : v[k] = u) /\ Coalesce(v, u) = u
        \/ \E k \in 1..n : FirstSet(v, u, n, k) /\ Coalesce(v, u) = v[k]
    BY <2>1, CoalesceIs, Zenon
  <2>3. \/ (\A k \in 1..n : ls[k].policy = u) /\ Coalesce(v, u) = u
        \/ \E k \in 1..n : FirstSet(v, u, n, k) /\ Coalesce(v, u) = ls[k].policy
    BY <2>1, <2>2, Zenon
  <2> QED BY <2>3 DEF v, n, u
<1>4. \/ (\A k \in 1..3 : ls[k].regions = <<>>) /\ r = <<>>
      \/ \E k \in 1..3 : FirstSet(Regional(ls), <<>>, 3, k) /\ r = ls[k].regions
  <2> DEFINE v == Regional(ls)
             n == 3
             u == <<>>
  <2>1. n \in Nat /\ DOMAIN v = 1..n /\ \A k \in 1..n : v[k] = ls[k].regions
    BY <1>2
  <2> HIDE DEF v, n, u
  <2>2. \/ (\A k \in 1..n : v[k] = u) /\ Coalesce(v, u) = u
        \/ \E k \in 1..n : FirstSet(v, u, n, k) /\ Coalesce(v, u) = v[k]
    BY <2>1, CoalesceIs, Zenon
  <2>3. \/ (\A k \in 1..n : ls[k].regions = u) /\ Coalesce(v, u) = u
        \/ \E k \in 1..n : FirstSet(v, u, n, k) /\ Coalesce(v, u) = ls[k].regions
    BY <2>1, <2>2, Zenon
  <2> QED BY <2>3 DEF v, n, u
<1>5. PolicyOf(ls) = (IF p = Unset THEN "none" ELSE p) /\ PolicyOf(ls) # "bad"
  BY <1>1 DEF PolicyOf, Refused
<1>6. r \in Seq(Path)
  <2>1. \A k \in 1..3 : ls[k].regions \in Seq(Path)
    BY DEF Three, Layer
  <2>2. <<>> \in Seq(Path)
    OBVIOUS
  <2> HIDE DEF r
  <2> QED BY <1>4, <2>1, <2>2
<1> HIDE DEF p, r
<1>7. \A k \in 1..3 : ls[k].policy \in Policies \union {Unset, "bad"}
  BY DEF Three, Layer
<1>8. \A k \in 1..3 : FirstSet(Policy(ls), Unset, 3, k) => ls[k].policy # Unset
  BY <1>2 DEF FirstSet
<1>9. \/ (\A k \in 1..3 : ls[k].policy = Unset) /\ PolicyOf(ls) = "none"
      \/ \E k \in 1..3 : FirstSet(Policy(ls), Unset, 3, k) /\ PolicyOf(ls) = ls[k].policy
  BY <1>3, <1>5, <1>8
<1>10. PolicyOf(ls) \in Policies
  BY <1>5, <1>7, <1>8, <1>9 DEF Policies
<1> QED BY <1>1, <1>4, <1>6, <1>9, <1>10

\* The same, as the directories Resolve keeps.
LEMMA RegionsOf ==
    ASSUME NEW q \in Seq(Path)
    PROVE  /\ [i \in DOMAIN q |-> Clean(q[i])] \in Seq(Path)
           /\ DOMAIN q = 1..Len(q) /\ Len(q) \in Nat /\ \A i \in 1..Len(q) : q[i] \in Path
<1>1. DOMAIN q = 1..Len(q) /\ Len(q) \in Nat /\ \A i \in 1..Len(q) : q[i] \in Path
  OBVIOUS
<1> DEFINE c == [i \in 1..Len(q) |-> Clean(q[i])]
<1>2. \A i \in 1..Len(q) : Clean(q[i]) \in Path
  BY <1>1, CleanInPath
<1>3. c \in [1..Len(q) -> Path]
  BY <1>2
<1> HIDE DEF c
<1>4. c \in Seq(Path)
  BY <1>1, <1>3
<1> QED BY <1>1, <1>4 DEF c

----------------------------------------------------------------------------
(* Directories *)

LEMMA PathIsParts == Path \subseteq Parts
BY DEF Path, Parts, Part

\* A path that begins with one and goes on with parts other than "/".
LEMMA PathJoined ==
    ASSUME NEW d \in Path, NEW q \in Parts, \A i \in 1..Len(q) : q[i] # Root
    PROVE  d \o q \in Path
<1> DEFINE p == d \o q
           n == Len(d)
<1>1. d \in Parts
  BY PathIsParts
<1>2. /\ p \in Parts /\ n \in Nat /\ Len(q) \in Nat /\ Len(p) = n + Len(q)
      /\ \A i \in 1..n : p[i] = d[i]
      /\ \A i \in 1..Len(q) : p[n + i] = q[i]
  BY <1>1, Joined, Zenon
<1>3. \A i \in 2..n : d[i] # Root
  BY DEF Path
<1> HIDE DEF p, n
<1>4. ASSUME NEW i \in 2..Len(p) PROVE p[i] # Root
  <2>1. CASE i \in 2..n
    <3>1. i \in 1..n
      BY <2>1
    <3> QED BY <1>2, <1>3, <2>1, <3>1
  <2>2. CASE i \notin 2..n
    <3>1. i - n \in 1..Len(q) /\ i = n + (i - n)
      BY <1>2, <2>2
    <3> QED BY <1>2, <3>1
  <2> QED BY <2>1, <2>2
<1>5. p \in Path
  BY <1>2, <1>4 DEF Path, Parts, Part
<1> QED BY <1>5 DEF p

\* Where ExpandPath leads is a path.
LEMMA ExpandIsPath ==
    ASSUME NEW path \in Path
    PROVE  Expand(path) \in Path
<1>1. CASE path # <<>> /\ Head(path) = "~"
  <2> DEFINE q == Tail(path)
  <2>1. path \in Parts
    BY PathIsParts
  <2>2. q \in Parts /\ Len(q) = Len(path) - 1 /\ \A i \in 1..Len(q) : q[i] = path[i+1]
    BY <1>1, <2>1, HeadTailProperties, Zenon DEF Parts
  <2>3. Len(path) \in Nat \ {0} /\ \A i \in 2..Len(path) : path[i] # Root
    BY <1>1 DEF Path
  <2> HIDE DEF q
  <2>4. \A i \in 1..Len(q) : q[i] # Root
    <3> TAKE i \in 1..Len(q)
    <3>1. i+1 \in 2..Len(path)
      BY <2>2, <2>3
    <3> QED BY <2>2, <2>3, <3>1
  <2>5. Home \o q \in Path
    BY <2>2, <2>4, PathJoined, PathsAssumption
  <2>6. Clean(Home \o q) \in Path
    BY <2>5, CleanInPath
  <2> QED BY <1>1, <2>6 DEF Expand, q
<1>2. CASE ~(path # <<>> /\ Head(path) = "~")
  BY <1>2 DEF Expand
<1> QED BY <1>1, <1>2

\* The directory a path leads to is clean and absolute.
LEMMA DirIsAbs ==
    ASSUME NEW path \in Path
    PROVE  Abs(Dir(path))
<1>1. CASE IsAbs(path)
  BY <1>1, CleanAbs DEF Dir
<1>2. CASE ~IsAbs(path)
  <2>1. path \in Parts
    BY PathIsParts
  <2>2. \A i \in 1..Len(path) : path[i] # Root
    <3>1. \A i \in 2..Len(path) : path[i] # Root
      BY DEF Path
    <3>2. \A i \in 1..Len(path) : i = 1 \/ i \in 2..Len(path)
      OBVIOUS
    <3>3. 1 \in 1..Len(path) => path[1] # Root
      BY <1>2, <2>1 DEF IsAbs, Parts
    <3> QED BY <3>1, <3>2, <3>3, Zenon
  <2>3. Cwd \in Path /\ Cwd \in Parts /\ IsAbs(Cwd)
    BY PathsAssumption, PathIsParts
  <2>4. Cwd \o path \in Path
    BY <2>1, <2>2, <2>3, PathJoined
  <2>5. IsAbs(Cwd \o path)
    <3> DEFINE p == Cwd \o path
    <3>1. Cwd # <<>> /\ Cwd[1] = Root
      BY <2>3 DEF IsAbs, Parts
    <3>2. /\ Len(Cwd) \in Nat \ {0} /\ Len(path) \in Nat /\ p \in Parts
          /\ Len(p) = Len(Cwd) + Len(path)
          /\ \A i \in 1..Len(Cwd) : p[i] = Cwd[i]
      BY <2>1, <2>3, <3>1, Joined, Shorter, Zenon
    <3> HIDE DEF p
    <3>3. 1 \in 1..Len(Cwd) /\ Len(p) # 0
      BY <3>2
    <3>4. p # <<>> /\ p[1] = Root
      BY <3>1, <3>2, <3>3
    <3> QED BY <3>2, <3>4 DEF IsAbs, Parts, p
  <2>6. Dir(path) = Clean(Cwd \o path)
    BY <1>2 DEF Dir
  <2> QED BY <2>4, <2>5, <2>6, CleanAbs
<1> QED BY <1>1, <1>2

----------------------------------------------------------------------------
(* The agents a daemon starts with *)

\* An entry that is not skipped.
Accepted(entry) ==
    /\ entry \in Entry
    /\ Dir(Expand(entry.path)) \in disk.git
    /\ ~Refused(LayersOf(entry))

\* An agent is what its entry resolves to.
AgentsResolved ==
    \A i \in DOMAIN agents :
        Accepted(agents[i].entry) /\ agents[i] = Resolve(agents[i].entry)

\* An accepted entry has three layers, one of them its directory's own.
LEMMA LayersAreThree ==
    ASSUME disk \in Disk, NEW entry, Accepted(entry)
    PROVE  Three(LayersOf(entry))
<1> DEFINE dir == Dir(Expand(entry.path))
<1>1. dir \in Dirs /\ entry.layer \in Layer /\ disk.defaults \in Layer
  BY DEF Accepted, Disk, Entry
<1>2. disk.local[dir] \in Layer
  BY <1>1 DEF Disk
<1>3. Blank \in Layer /\ [Blank EXCEPT !.policy = "none"] \in Layer
  <2>1. <<>> \in Path /\ <<>> \in Seq(Path) /\ <<>> \in Seq({"good", "bad"})
    BY DEF Path
  <2>2. [l \in Lists |-> <<>>] \in [Lists -> Seq({"good", "bad"})]
    BY <2>1
  <2> QED BY <2>1, <2>2 DEF Blank, Layer, Unset, Policies
<1>4. Local(dir) \in Layer
  <2> HIDE DEF dir
  <2> QED BY <1>2, <1>3 DEF Local
<1> QED BY <1>1, <1>4 DEF LayersOf, Three

\* What an accepted entry resolves to is a repository.
LEMMA ResolveTyped ==
    ASSUME disk \in Disk, NEW entry, Accepted(entry)
    PROVE  /\ Resolve(entry) \in Resolved
           /\ Resolve(entry).entry = entry
<1> DEFINE layers  == LayersOf(entry)
           path    == Expand(entry.path)
           two     == SubSeq(layers, 1, 2)
           name    == Setting(two, "name", <<>>)
           regions == Setting(layers, "regions", <<>>)
           shown   == IF name # <<>> THEN name ELSE Base(path)
           clean   == [i \in DOMAIN regions |-> Clean(regions[i])]
           policy  == PolicyOf(layers)
<1>1. Three(layers) /\ ~Refused(layers)
  BY LayersAreThree DEF Accepted
<1>2. policy \in Policies /\ regions \in Seq(Path)
  <2> HIDE DEF layers
  <2> QED BY <1>1, SettingsOf
<1>3. clean \in Seq(Path)
  <2> HIDE DEF regions
  <2> QED BY <1>2, RegionsOf
<1>4. path \in Path
  BY ExpandIsPath DEF Accepted, Entry
<1>5. name \in Path
  <2>1. DOMAIN two = 1..2 /\ \A k \in 1..2 : two[k] \in Layer
    BY <1>1 DEF LayersOf, Three
  <2> DEFINE v == [k \in DOMAIN two |-> two[k]["name"]]
             n == 2
             u == <<>>
  <2>2. n \in Nat /\ DOMAIN v = 1..n /\ \A k \in 1..n : v[k] \in Path
    BY <2>1 DEF Layer
  <2>3. name = Coalesce(v, u)
    BY DEF Setting
  <2>4. u \in Path
    BY DEF Path
  <2> HIDE DEF v, n, u, name
  <2> QED BY <2>2, <2>3, <2>4, CoalesceIs
<1>6. Base(path) \in Path \union {<<".">>}
  <2> DEFINE named == {i \in DOMAIN path : path[i] # ""}
             last  == path[Max(named)]
  <2>1. CASE named = {}
    <3>1. Base(path) = <<".">>
      BY <2>1 DEF Base
    <3> QED BY <3>1
  <2>2. CASE named # {}
    <3> HIDE DEF path
    <3>1. /\ Len(path) \in Nat /\ DOMAIN path = 1..Len(path)
          /\ \A i \in 1..Len(path) : path[i] \in Part
      BY <1>4 DEF Path, Part
    <3>2. named \in SUBSET (1..Len(path))
      BY <3>1
    <3> HIDE DEF named
    <3>3. Max(named) \in named
      BY <2>2, <3>1, <3>2, MaxUpTo
    <3>4. last \in Part
      BY <3>1, <3>2, <3>3
    <3>5. Base(path) = <<last>>
      BY <2>2 DEF Base, named
    <3> HIDE DEF last
    <3>6. <<last>> \in Seq(Part) /\ Len(<<last>>) = 1
      BY <3>4
    <3> QED BY <3>5, <3>6 DEF Path, Part
  <2> QED BY <2>1, <2>2
<1>7. shown \in Path \union {<<".">>}
  <2> HIDE DEF name, path
  <2> QED BY <1>5, <1>6
<1>8. entry \in Entry /\ (name # <<>>) \in BOOLEAN
  BY DEF Accepted
<1>9. Resolve(entry) = [path |-> path, name |-> shown, explicitName |-> name # <<>>,
                        policy |-> policy, regions |-> clean, entry |-> entry]
  BY DEF Resolve
<1> HIDE DEF layers, path, name, regions, shown, clean, policy
<1> QED BY <1>2, <1>3, <1>4, <1>7, <1>8, <1>9 DEF Resolved

\* What the program selects is what the configuration asks for.
LEMMA SelectedIsAsked ==
    ASSUME disk \in Disk, NEW entry, Accepted(entry), NEW path \in Path
    PROVE  Asks(entry, path) <=> Inside(path, Resolve(entry).policy, Resolve(entry).regions)
<1> DEFINE dir     == Dir(Expand(entry.path))
           layers  == <<disk.local[dir], entry.layer, disk.defaults>>
           policy  == PolicyOf(LayersOf(entry))
           regions == Setting(LayersOf(entry), "regions", <<>>)
           clean   == [i \in DOMAIN regions |-> Clean(regions[i])]
           leads   == \E region \in Range(regions) : Beneath(Dir(dir \o region), dir \o path)
           first(k, has(_)) == has(k) /\ \A j \in 1..k-1 : ~has(j)
           hasPolicy(k)  == layers[k].policy # Unset
           hasRegions(k) == layers[k].regions # <<>>
           leadsOf(m) == \E region \in Range(layers[m].regions) :
                            Beneath(Dir(dir \o region), dir \o path)
<1>1. Resolve(entry).policy = policy /\ Resolve(entry).regions = clean
  BY DEF Resolve
<1>2. Three(LayersOf(entry)) /\ ~Refused(LayersOf(entry))
  BY LayersAreThree DEF Accepted
<1>3. Asks(entry, path) <=>
        /\ dir \notin disk.malformed
        /\ \E k \in 1..3 :
             /\ first(k, hasPolicy)
             /\ \/ layers[k].policy = "all"
                \/ /\ layers[k].policy = "regions"
                   /\ \E m \in 1..3 : first(m, hasRegions) /\ leadsOf(m)
  BY DEF Asks
<1>4. CASE dir \in disk.malformed
  <2>1. ~Asks(entry, path)
    BY <1>3, <1>4
  <2>2. LayersOf(entry)[1].policy = "none"
    BY <1>4 DEF LayersOf, Local, Blank
  <2> DEFINE ls == LayersOf(entry)
  <2> HIDE DEF ls
  <2>3. policy = "none"
    <3>1. /\ Three(ls) /\ ~Refused(ls) /\ policy = PolicyOf(ls) /\ ls[1].policy = "none"
      BY <1>2, <2>2 DEF ls
    <3> HIDE DEF policy
    <3>2. \/ (\A k \in 1..3 : ls[k].policy = Unset)
          \/ \E k \in 1..3 : FirstSet(Policy(ls), Unset, 3, k) /\ PolicyOf(ls) = ls[k].policy
      BY <3>1, SettingsOf
    <3>3. 1 \in 1..3 /\ ls[1].policy # Unset
      BY <3>1 DEF Unset
    <3>4. PICK k \in 1..3 : FirstSet(Policy(ls), Unset, 3, k) /\ PolicyOf(ls) = ls[k].policy
      BY <3>2, <3>3
    <3>5. Policy(ls)[1] = ls[1].policy
      BY DEF Policy
    <3>6. 1 \notin 1..k-1
      BY <3>3, <3>4, <3>5 DEF FirstSet
    <3>7. k = 1
      BY <3>4, <3>6
    <3> QED BY <3>1, <3>4, <3>7
  <2>4. ~Inside(path, policy, clean)
    <3> HIDE DEF policy, clean
    <3> QED BY <2>3 DEF Inside
  <2> QED BY <1>1, <2>1, <2>4
<1>5. CASE dir \notin disk.malformed
  <2>1. LayersOf(entry) = layers
    BY <1>5 DEF LayersOf, Local
  <2>2. Three(layers) /\ ~Refused(layers)
    BY <1>2, <2>1
  <2>3. policy = PolicyOf(layers) /\ regions = Setting(layers, "regions", <<>>)
    BY <2>1
  <2> DEFINE leads2 == \E i \in DOMAIN clean : Beneath(clean[i], path)
  <2>4. leads <=> leads2
    <3>1. Abs(dir)
      <4>1. entry.path \in Path
        BY DEF Accepted, Entry
      <4> QED BY <4>1, ExpandIsPath, DirIsAbs
    <3>2. \A i \in DOMAIN regions : ~BadRegion(regions[i])
      <4> HIDE DEF layers
      <4> QED BY <2>2, <2>3 DEF Refused
    <3>3. regions \in Seq(Path)
      <4> HIDE DEF layers, regions
      <4> QED BY <2>2, <2>3, SettingsOf
    <3> HIDE DEF dir, regions, layers
    <3>4. DOMAIN regions = 1..Len(regions) /\ \A i \in 1..Len(regions) : regions[i] \in Path
      BY <3>3
    <3>5. ASSUME NEW i \in DOMAIN regions
          PROVE  Beneath(Dir(dir \o regions[i]), dir \o path) <=> Beneath(Clean(regions[i]), path)
      <4> DEFINE r == regions[i]
      <4>1. r \in Path /\ ~BadRegion(r) /\ dir \in Parts /\ path \in Parts /\ r \in Parts
        BY <3>1, <3>2, <3>4, PathIsParts DEF Abs
      <4> HIDE DEF r
      <4>2. Clean(dir \o r) = dir \o Clean(r) /\ Clean(r) \in Parts
        BY <3>1, <4>1, CleanBeneath
      <4>3. IsAbs(dir \o r)
        <5> DEFINE p == dir \o r
        <5>1. dir # <<>> /\ dir[1] = Root
          BY <3>1 DEF Abs
        <5>2. /\ Len(dir) \in Nat \ {0} /\ Len(r) \in Nat /\ p \in Parts
              /\ Len(p) = Len(dir) + Len(r)
              /\ \A j \in 1..Len(dir) : p[j] = dir[j]
          BY <4>1, <5>1, Joined, Shorter, Zenon
        <5> HIDE DEF p
        <5>3. 1 \in 1..Len(dir) /\ Len(p) # 0
          BY <5>2
        <5>4. p # <<>> /\ p[1] = Root
          BY <5>1, <5>2, <5>3
        <5> QED BY <5>2, <5>4 DEF IsAbs, Parts, p
      <4>4. Dir(dir \o r) = dir \o Clean(r)
        BY <4>2, <4>3 DEF Dir
      <4>5. Beneath(dir \o Clean(r), dir \o path) <=> Beneath(Clean(r), path)
        BY <4>1, <4>2, BeneathJoined
      <4>6. Beneath(Dir(dir \o r), dir \o path) <=> Beneath(Clean(r), path)
        BY <4>4, <4>5
      <4> QED BY <4>6 DEF r
    <3>6. leads <=> \E i \in DOMAIN regions : Beneath(Dir(dir \o regions[i]), dir \o path)
      BY DEF Range
    <3>7. leads2 <=> \E i \in DOMAIN regions : Beneath(Clean(regions[i]), path)
      OBVIOUS
    <3> HIDE DEF leads, leads2
    <3> QED BY <3>5, <3>6, <3>7
  <2>5. ASSUME NEW m \in 1..3, regions = layers[m].regions PROVE leadsOf(m) <=> leads
    BY <2>5
  <2>6. \/ (\A k \in 1..3 : layers[k].policy = Unset) /\ policy = "none"
        \/ \E k \in 1..3 : FirstSet(Policy(layers), Unset, 3, k) /\ policy = layers[k].policy
    <3> HIDE DEF layers
    <3> QED BY <2>2, <2>3, SettingsOf
  <2>7. \/ (\A k \in 1..3 : layers[k].regions = <<>>) /\ regions = <<>>
        \/ \E k \in 1..3 : FirstSet(Regional(layers), <<>>, 3, k) /\ regions = layers[k].regions
    <3> HIDE DEF layers
    <3> QED BY <2>2, <2>3, SettingsOf
  <2>8. policy \in Policies /\ (policy = "regions" => regions # <<>>)
    <3> HIDE DEF layers
    <3> QED BY <2>2, <2>3, SettingsOf DEF Refused
  <2> HIDE DEF dir, policy, regions, layers, leads, leads2, leadsOf
  <2>9. \A k \in 1..3 : first(k, hasPolicy) <=> FirstSet(Policy(layers), Unset, 3, k)
    BY DEF FirstSet, Policy
  <2>10. \A m \in 1..3 : first(m, hasRegions) <=> FirstSet(Regional(layers), <<>>, 3, m)
    <3> DEFINE u == <<>>
               v == Regional(layers)
    <3>1. \A j \in 1..3 : v[j] = layers[j].regions
      BY DEF Regional
    <3> HIDE DEF u, v
    <3>2. \A m \in 1..3 : \A j \in 1..m-1 : j \in 1..3
      OBVIOUS
    <3>3. \A m \in 1..3 : (layers[m].regions # u /\ \A j \in 1..m-1 : ~(layers[j].regions # u))
                            <=> FirstSet(v, u, 3, m)
      BY <3>1, <3>2, Zenon DEF FirstSet
    <3> QED BY <3>3 DEF u, v
  <2>11. Asks(entry, path) <=>
           \E k \in 1..3 :
             /\ FirstSet(Policy(layers), Unset, 3, k)
             /\ \/ layers[k].policy = "all"
                \/ /\ layers[k].policy = "regions"
                   /\ \E m \in 1..3 : FirstSet(Regional(layers), <<>>, 3, m) /\ leadsOf(m)
    BY <1>3, <1>5, <2>9, <2>10
  <2>12. Inside(path, policy, clean) <=> policy = "all" \/ (policy = "regions" /\ leads2)
    BY DEF Inside, leads2
  <2>13. CASE \A k \in 1..3 : layers[k].policy = Unset
    <3>1. policy = "none"
      BY <2>6, <2>13 DEF FirstSet, Policy
    <3>2. ~ \E k \in 1..3 : FirstSet(Policy(layers), Unset, 3, k)
      BY <2>13 DEF FirstSet, Policy
    <3>3. ~Asks(entry, path)
      BY <2>11, <3>2
    <3> QED BY <1>1, <2>12, <3>1, <3>3
  <2>14. ASSUME NEW k \in 1..3, FirstSet(Policy(layers), Unset, 3, k), policy = layers[k].policy
         PROVE  Asks(entry, path) <=> Inside(path, policy, clean)
    <3>1. \A j \in 1..3 : FirstSet(Policy(layers), Unset, 3, j) => j = k
      BY <2>14, FirstIsOne, 3 \in Nat
    <3>2. Asks(entry, path) <=>
             \/ policy = "all"
             \/ /\ policy = "regions"
                /\ \E m \in 1..3 : FirstSet(Regional(layers), <<>>, 3, m) /\ leadsOf(m)
      BY <2>11, <2>14, <3>1
    <3>3. ASSUME policy = "regions"
          PROVE  (\E m \in 1..3 : FirstSet(Regional(layers), <<>>, 3, m) /\ leadsOf(m))
                   <=> leads
      <4>1. PICK m \in 1..3 : FirstSet(Regional(layers), <<>>, 3, m) /\ regions = layers[m].regions
        BY <2>7, <2>8, <3>3
      <4>2. \A j \in 1..3 : FirstSet(Regional(layers), <<>>, 3, j) => j = m
        BY <4>1, FirstIsOne, 3 \in Nat
      <4> QED BY <2>5, <4>1, <4>2
    <3> QED BY <2>4, <2>12, <3>2, <3>3
  <2> QED BY <1>1, <2>6, <2>13, <2>14
<1> QED BY <1>4, <1>5

\* It is so when the daemon starts, and after every step of its start.
LEMMA InitTyped == Init => TypeOK /\ AgentsResolved
<1> SUFFICES ASSUME Init PROVE TypeOK /\ AgentsResolved
  OBVIOUS
<1>1. disk \in Disk
  BY DisksAssumption DEF Init
<1>2. rest = <<>> /\ agents = <<>> /\ outcome = "loading"
  BY DEF Init
<1>3. \A S : <<>> \in Seq(S)
  OBVIOUS
<1>4. DOMAIN <<>> = {}
  OBVIOUS
<1> QED BY <1>1, <1>2, <1>3, <1>4 DEF TypeOK, AgentsResolved

\* The disk is read, never written: what an entry resolves to stays.
LEMMA ResolvedStays ==
    ASSUME disk' = disk, NEW entry
    PROVE  /\ Accepted(entry)' <=> Accepted(entry)
           /\ Resolve(entry)' = Resolve(entry)
<1>1. LayersOf(entry)' = LayersOf(entry)
  BY DEF LayersOf, Local
<1>2. Resolve(entry)' = Resolve(entry)
  BY <1>1 DEF Resolve
<1>3. Refused(LayersOf(entry))' <=> Refused(LayersOf(entry))
  BY <1>1
<1> QED BY <1>2, <1>3 DEF Accepted

LEMMA NextTyped == TypeOK /\ AgentsResolved /\ [Next]_vars => (TypeOK /\ AgentsResolved)'
<1> SUFFICES ASSUME TypeOK, AgentsResolved, [Next]_vars PROVE (TypeOK /\ AgentsResolved)'
  OBVIOUS
<1>0. /\ disk \in Disk /\ disk.repos \in Seq(Entry)
      /\ outcome \in {"loading", "resolving", "running", "failed"}
      /\ rest \in Seq(Range(disk.repos)) /\ agents \in Seq(Resolved)
      /\ \A i \in DOMAIN agents :
           Accepted(agents[i].entry) /\ agents[i] = Resolve(agents[i].entry)
  BY DEF TypeOK, AgentsResolved, Disk
<1>1. ASSUME disk' = disk, agents' = agents PROVE AgentsResolved'
  BY <1>0, <1>1, ResolvedStays DEF AgentsResolved
<1>2. CASE Load
  <2>1. disk' = disk /\ agents' = agents /\ outcome' \in {"resolving", "failed"}
    BY <1>2 DEF Load
  <2>2. rest' = disk.repos \/ rest' = <<>>
    BY <1>2 DEF Load
  <2>3. rest' \in Seq(Range(disk.repos))
    <3>1. disk.repos \in Seq(Range(disk.repos))
      BY <1>0, SeqOfRange
    <3>2. <<>> \in Seq(Range(disk.repos))
      OBVIOUS
    <3> QED BY <2>2, <3>1, <3>2
  <2> QED BY <1>0, <1>1, <2>1, <2>3 DEF TypeOK
<1>3. CASE Consider
  <2> DEFINE entry == Head(rest)
             a == Resolve(entry)
  <2>1. disk' = disk /\ outcome' = outcome /\ rest' = Tail(rest) /\ rest # <<>>
    BY <1>3 DEF Consider
  <2>2. entry \in Entry /\ rest' \in Seq(Range(disk.repos))
    <3>1. Range(disk.repos) \subseteq Entry
      BY <1>0, RangeOfSeq
    <3>2. entry \in Range(disk.repos) /\ Tail(rest) \in Seq(Range(disk.repos))
      BY <1>0, <2>1, HeadTailProperties, Zenon
    <3> QED BY <2>1, <3>1, <3>2
  <2>3. agents' = agents \/ (Accepted(entry) /\ agents' = Append(agents, a))
    BY <1>3, <2>2 DEF Consider, Accepted
  <2> HIDE DEF entry
  <2>4. CASE agents' = agents
    BY <1>0, <1>1, <2>1, <2>2, <2>4 DEF TypeOK
  <2>5. CASE Accepted(entry) /\ agents' = Append(agents, a)
    <3>1. a \in Resolved /\ a.entry = entry
      BY <1>0, <2>5, ResolveTyped
    <3> HIDE DEF a
    <3>2. /\ agents' \in Seq(Resolved) /\ Len(agents) \in Nat
          /\ DOMAIN agents = 1..Len(agents) /\ DOMAIN agents' = 1..Len(agents) + 1
          /\ \A i \in 1..Len(agents) : agents'[i] = agents[i]
          /\ agents'[Len(agents) + 1] = a
      BY <1>0, <2>5, <3>1
    <3>3. ASSUME NEW i \in DOMAIN agents'
          PROVE  Accepted(agents'[i].entry) /\ agents'[i] = Resolve(agents'[i].entry)
      <4>1. CASE i \in DOMAIN agents
        BY <1>0, <3>2, <4>1
      <4>2. CASE i \notin DOMAIN agents
        <5>1. agents'[i] = a
          BY <3>2, <4>2
        <5> QED BY <2>5, <3>1, <5>1 DEF a
      <4> QED BY <4>1, <4>2
    <3>4. AgentsResolved'
      BY <2>1, <3>3, ResolvedStays DEF AgentsResolved
    <3> QED BY <1>0, <2>1, <2>2, <3>2, <3>4 DEF TypeOK
  <2> QED BY <2>3, <2>4, <2>5
<1>4. CASE Validate
  <2>1. disk' = disk /\ agents' = agents /\ rest' = rest /\ outcome' \in {"running", "failed"}
    BY <1>4 DEF Validate
  <2> QED BY <1>0, <1>1, <2>1 DEF TypeOK
<1>5. CASE UNCHANGED vars
  <2>1. disk' = disk /\ agents' = agents /\ rest' = rest /\ outcome' = outcome
    BY <1>5 DEF vars
  <2> QED BY <1>0, <1>1, <2>1 DEF TypeOK
<1> QED BY <1>2, <1>3, <1>4, <1>5 DEF Next

LEMMA AlwaysResolved == Spec => [](TypeOK /\ AgentsResolved)
BY InitTyped, NextTyped, PTL DEF Spec

\* What NewContainer makes of any configuration is well-formed: a daemon runs
\* agents with a policy that is one of the three and regions that are paths,
\* whatever was mistyped or left unset in the layers.
THEOREM RepoConfigTypeCorrect == Spec => []TypeOK
BY AlwaysResolved, PTL

----------------------------------------------------------------------------
(* Reading git's status *)

\* The loop of parseStatus, field by field.
Nothing == [entries |-> <<>>, expectOld |-> FALSE]

ReadRun(m, q, n) ==
    /\ m[0] = Nothing
    /\ \A k \in 1..n : m[k] = ReadField(m[k-1], q[k])

\* The loop ends with what parseStatus returns.
LEMMA ReadRuns ==
    ASSUME NEW n \in Nat, NEW q, DOMAIN q = 1..n
    PROVE  \E m : ReadRun(m, q, n) /\ parseStatus(q) = m[n].entries
<1> DEFINE V == {q[k][j] : k \in 1..n, j \in 1..3} \union {<<>>}
           E == [X : V, Y : V, Path : V, OldPath : V]
           S == {s \in [entries : Seq(E), expectOld : BOOLEAN] :
                    s.expectOld => s.entries # <<>>}
           g == [p \in S \X (1..n) |-> ReadField(p[1], q[p[2]])]
           b == Nothing
           IsIter(it) ==
             it = [s \in SUBSET DOMAIN q |->
                     IF s = {} THEN Nothing ELSE ReadField(it[s \ {Max(s)}], q[Max(s)])]
           iter == CHOOSE it : IsIter(it)
<1>1. ASSUME NEW s \in S, NEW k \in 1..n PROVE ReadField(s, q[k]) \in S
  <2> DEFINE field == q[k]
             es == s.entries
  <2>1. /\ es \in Seq(E) /\ s.expectOld \in BOOLEAN /\ s.expectOld => es # <<>>
        /\ s = [entries |-> es, expectOld |-> s.expectOld]
    OBVIOUS
  <2>2. field[1] \in V /\ field[2] \in V /\ field[3] \in V /\ <<>> \in V
    <3>1. 1 \in 1..3 /\ 2 \in 1..3 /\ 3 \in 1..3
      OBVIOUS
    <3> QED BY <3>1
  <2> HIDE DEF V, field, es
  <2>3. CASE s.expectOld
    <3> DEFINE last == [Last(es) EXCEPT !.OldPath = field[1]]
               front == Front(es)
    <3>1. es # <<>> /\ Last(es) \in E
      <4> HIDE DEF E
      <4> QED BY <2>1, <2>3 DEF Last
    <3>2. last \in E
      BY <2>2, <3>1
    <3>3. front \in Seq(E)
      <4> HIDE DEF E
      <4> QED BY <2>1, <3>1 DEF Front
    <3> HIDE DEF E, last, front
    <3>4. Append(front, last) \in Seq(E) /\ Append(front, last) # <<>>
      BY <3>2, <3>3
    <3>5. ReadField(s, field) = [entries |-> Append(front, last), expectOld |-> FALSE]
      BY <2>3 DEF ReadField, last, front, es
    <3> QED BY <3>4, <3>5 DEF field
  <2>4. CASE ~s.expectOld /\ field \in {<<>>, <<"##">>}
    <3>1. ReadField(s, field) = s
      BY <2>4 DEF ReadField
    <3> QED BY <3>1 DEF field
  <2>5. CASE ~s.expectOld /\ field \notin {<<>>, <<"##">>}
    <3> DEFINE new == [X |-> field[1], Y |-> field[2], Path |-> field[3], OldPath |-> <<>>]
               two == IsTwoPathStatus(field[1], field[2])
    <3>1. new \in E
      BY <2>2
    <3>2. ReadField(s, field) = [entries |-> Append(es, new), expectOld |-> two]
      BY <2>5 DEF ReadField, es
    <3>3. two \in BOOLEAN
      BY DEF IsTwoPathStatus
    <3> HIDE DEF E, new, two
    <3>4. Append(es, new) \in Seq(E) /\ Append(es, new) # <<>>
      BY <2>1, <3>1
    <3> QED BY <3>2, <3>3, <3>4 DEF field
  <2> QED BY <2>1, <2>3, <2>4, <2>5
<1>2. b \in S
  BY DEF Nothing
<1> HIDE DEF S
<1>3. IsStep(g, b, n, S)
  <2>1. \A p \in S \X (1..n) : ReadField(p[1], q[p[2]]) \in S
    BY <1>1
  <2> QED BY <1>2, <2>1 DEF IsStep
<1>4. PICK f : Folds(f, g, b, n, S)
  <2> HIDE DEF g, b
  <2> QED BY <1>3, FoldExists
<1>5. IsIter(f)
  <2>1. f \in [SUBSET (1..n) -> S]
    BY <1>4 DEF Folds
  <2>2. ASSUME NEW s \in SUBSET (1..n)
        PROVE  f[s] = IF s = {} THEN Nothing ELSE ReadField(f[s \ {Max(s)}], q[Max(s)])
    <3>1. f[s] = IF s = {} THEN Nothing ELSE g[<<f[s \ {Max(s)}], Max(s)>>]
      <4> HIDE DEF g
      <4> QED BY <1>4 DEF Folds
    <3>2. CASE s = {}
      BY <3>1, <3>2
    <3>3. CASE s # {}
      <4> DEFINE top == Max(s)
      <4>1. top \in 1..n
        <5> HIDE DEF g
        <5>1. Max(s) \in s
          BY <3>3, MaxUpTo
        <5> QED BY <5>1
      <4> HIDE DEF top
      <4>2. f[s \ {top}] \in S
        BY <2>1
      <4>3. g[<<f[s \ {top}], top>>] = ReadField(f[s \ {top}], q[top])
        BY <4>1, <4>2
      <4> HIDE DEF g
      <4> QED BY <3>1, <3>3, <4>3 DEF top
    <3> QED BY <3>2, <3>3
  <2> HIDE DEF g
  <2> QED BY <2>1, <2>2
<1>6. IsIter(iter)
  <2> HIDE DEF IsIter
  <2> QED BY <1>5
<1>7. parseStatus(q) = iter[1..n].entries
  <2>1. parseStatus(q) = iter[DOMAIN q].entries
    BY DEF parseStatus, FoldLeft, MapThenFoldSet, Nothing
  <2> QED BY <2>1
<1> HIDE DEF iter, g
<1> DEFINE m == [k \in 0..n |-> iter[1..k]]
<1>8. m[0] = Nothing
  <2>1. 1..0 = {} /\ 1..0 \in SUBSET DOMAIN q
    OBVIOUS
  <2>2. iter[1..0] = Nothing
    BY <1>6, <2>1
  <2> QED BY <2>2
<1>9. ASSUME NEW k \in 1..n PROVE m[k] = ReadField(m[k-1], q[k])
  <2> DEFINE s == 1..k
  <2>1. k-1 \in 0..n /\ k \in 0..n /\ k \in Nat /\ k \in s /\ s \in SUBSET (1..n)
    OBVIOUS
  <2>2. Max(s) = k /\ s \ {k} = 1..(k-1) /\ s # {}
    <3>1. k \in Nat \ {0}
      BY <2>1
    <3> QED BY <3>1, MaxRange, Zenon
  <2>3. iter[s] = IF s = {} THEN Nothing ELSE ReadField(iter[s \ {Max(s)}], q[Max(s)])
    <3> HIDE DEF s
    <3> QED BY <1>6, <2>1
  <2>4. iter[s] = ReadField(iter[1..(k-1)], q[k])
    <3> HIDE DEF s
    <3> QED BY <2>2, <2>3
  <2>5. m[k] = iter[s] /\ m[k-1] = iter[1..(k-1)]
    BY <2>1
  <2> HIDE DEF m, s
  <2> QED BY <2>4, <2>5
<1>10. m[n] = iter[1..n]
  OBVIOUS
<1> HIDE DEF m, IsIter
<1> QED BY <1>7, <1>8, <1>9, <1>10 DEF ReadRun

\* The entry that a change is read as.
Letters == {" ", "M", "?", "R", "C"}

StatusEntry == [X : Letters, Y : Letters, Path : Path, OldPath : Path]

EntryOf(change) ==
    [X |-> CASE change.kind = "edit" -> " " [] change.kind = "new" -> "?"
             [] change.kind = "rename" -> "R" [] change.kind = "copy" -> "C",
     Y |-> CASE change.kind = "edit" -> "M" [] change.kind = "new" -> "?"
             [] change.kind = "rename" -> " " [] change.kind = "copy" -> " ",
     Path |-> change.path,
     OldPath |-> IF change.kind \in {"rename", "copy"} THEN change.from ELSE <<>>]

\* An entry by the kind of its change.
LEMMA EntryOfCases ==
    ASSUME NEW change \in Change
    PROVE  /\ EntryOf(change) \in StatusEntry
           /\ EntryOf(change).Path = change.path
           /\ change.kind = "edit" =>
                EntryOf(change).X = " " /\ EntryOf(change).Y = "M"
                /\ EntryOf(change).OldPath = <<>>
           /\ change.kind = "new" =>
                EntryOf(change).X = "?" /\ EntryOf(change).Y = "?"
                /\ EntryOf(change).OldPath = <<>>
           /\ change.kind = "rename" =>
                EntryOf(change).X = "R" /\ EntryOf(change).Y = " "
                /\ EntryOf(change).OldPath = change.from
           /\ change.kind = "copy" =>
                EntryOf(change).X = "C" /\ EntryOf(change).Y = " "
                /\ EntryOf(change).OldPath = change.from
           /\ change.kind \in {"edit", "new", "rename", "copy"}
           /\ change.path \in Path /\ change.from \in Path
           /\ change.kind = "rename" => change.from # <<>>
<1>1. <<>> \in Path
  BY DEF Path
<1>2. /\ change.path \in Path /\ change.from \in Path
      /\ change.kind \in {"edit", "new", "rename", "copy"}
      /\ change.kind = "rename" => change.from # <<>>
  BY DEF Change
<1> QED BY <1>1, <1>2 DEF EntryOf, StatusEntry, Letters

\* Both ends of an entry, and whether it was tracked, are those of the change.
LEMMA EntryTouches ==
    ASSUME NEW change \in Change
    PROVE  /\ Endpoints(EntryOf(change)) = Touched(change)
           /\ IsTracked(EntryOf(change)) <=> change.kind # "new"
           /\ Touched(change) \subseteq Path
<1> DEFINE e == EntryOf(change)
<1>1. /\ e.Path = change.path
      /\ change.kind = "edit" => e.X = " " /\ e.Y = "M" /\ e.OldPath = <<>>
      /\ change.kind = "new" => e.X = "?" /\ e.Y = "?" /\ e.OldPath = <<>>
      /\ change.kind = "rename" => e.X = "R" /\ e.Y = " " /\ e.OldPath = change.from
      /\ change.kind = "copy" => e.X = "C" /\ e.Y = " " /\ e.OldPath = change.from
      /\ change.kind \in {"edit", "new", "rename", "copy"}
      /\ change.path \in Path /\ change.from \in Path
      /\ change.kind = "rename" => change.from # <<>>
  BY EntryOfCases
<1> HIDE DEF e
<1>2. Endpoints(e) = Touched(change)
  BY <1>1 DEF Endpoints, Touched
<1>3. IsTracked(e) <=> change.kind # "new"
  BY <1>1 DEF IsTracked
<1>4. Touched(change) \subseteq Path
  BY <1>1 DEF Touched
<1> QED BY <1>2, <1>3, <1>4 DEF e

\* What is appended is the last, and the rest stays.
LEMMA FrontOfAppend ==
    ASSUME NEW T, NEW q \in Seq(T), NEW x \in T
    PROVE  Front(Append(q, x)) = q /\ Last(Append(q, x)) = x
<1> DEFINE a == Append(q, x)
           n == Len(q)
           f == SubSeq(a, 1, n)
<1>1. /\ a \in Seq(T) /\ n \in Nat /\ Len(a) = n + 1 /\ a[n+1] = x
      /\ \A i \in 1..n : a[i] = q[i] /\ a[i] \in T
  OBVIOUS
<1>2. Len(a) - 1 = n
  BY <1>1
<1> HIDE DEF a, n
<1>3. f \in Seq(T) /\ Len(f) = n /\ \A i \in 1..n : f[i] = a[i]
  BY <1>1
<1> HIDE DEF f
<1>4. f = q
  BY <1>1, <1>3, SeqEqual DEF n
<1> QED BY <1>1, <1>2, <1>4 DEF Front, Last, a, f

\* The fields of a change are read as its entry.
LEMMA ReadPrinted ==
    ASSUME NEW change \in Change, NEW es \in Seq(StatusEntry)
    PROVE  LET s == [entries |-> es, expectOld |-> FALSE]
               t == [entries |-> Append(es, EntryOf(change)), expectOld |-> FALSE]
               p == Printed(change)
           IN  \/ Len(p) = 1 /\ ReadField(s, p[1]) = t
               \/ Len(p) = 2 /\ ReadField(ReadField(s, p[1]), p[2]) = t
<1> DEFINE s == [entries |-> es, expectOld |-> FALSE]
           e == EntryOf(change)
           t == [entries |-> Append(es, e), expectOld |-> FALSE]
           p == Printed(change)
           bare == [e EXCEPT !.OldPath = <<>>]
           field == <<e.X, e.Y, e.Path>>
<1>1. e \in StatusEntry
  BY EntryOfCases
<1>2. bare = [X |-> e.X, Y |-> e.Y, Path |-> e.Path, OldPath |-> <<>>] /\ bare \in StatusEntry
  <2>1. <<>> \in Path
    BY DEF Path
  <2> HIDE DEF e
  <2> QED BY <1>1, <2>1 DEF StatusEntry
<1>3. field \notin {<<>>, <<"##">>}
  <2>1. Len(field) = 3 /\ Len(<<>>) = 0 /\ Len(<<"##">>) = 1
    OBVIOUS
  <2> HIDE DEF field
  <2>2. Len(field) # 0 /\ Len(field) # 1
    BY <2>1
  <2> QED BY <2>1, <2>2, Zenon
<1>4. ReadField(s, field) = [entries |-> Append(es, bare), expectOld |-> IsTwoPathStatus(e.X, e.Y)]
  <2> HIDE DEF e, bare
  <2>1. field[1] = e.X /\ field[2] = e.Y /\ field[3] = e.Path
    OBVIOUS
  <2> HIDE DEF field
  <2> QED BY <1>2, <1>3, <2>1 DEF ReadField
<1>5. CASE change.kind \in {"edit", "new"}
  <2>1. p = <<field>>
    BY <1>5, EntryOfCases DEF Printed
  <2>2. ~IsTwoPathStatus(e.X, e.Y) /\ e.OldPath = <<>>
    BY <1>5, EntryOfCases DEF IsTwoPathStatus
  <2>3. bare = e
    <3> HIDE DEF e
    <3> QED BY <1>1, <2>2 DEF StatusEntry
  <2> HIDE DEF p, field, bare, e
  <2>4. IsTwoPathStatus(e.X, e.Y) = FALSE
    BY <2>2 DEF IsTwoPathStatus
  <2>5. ReadField(s, field) = t
    BY <1>4, <2>3, <2>4
  <2>6. Len(p) = 1 /\ p[1] = field
    BY <2>1
  <2> HIDE DEF s, t
  <2> QED BY <2>5, <2>6 DEF s, t, p, e
<1>6. CASE change.kind \in {"rename", "copy"}
  <2>1. p = <<field, <<change.from>>>>
    BY <1>6, EntryOfCases DEF Printed
  <2>2. IsTwoPathStatus(e.X, e.Y) /\ e.OldPath = change.from
    BY <1>6, EntryOfCases DEF IsTwoPathStatus
  <2>3. [bare EXCEPT !.OldPath = change.from] = e
    <3> HIDE DEF e
    <3> QED BY <1>1, <2>2 DEF StatusEntry
  <2> DEFINE r == [entries |-> Append(es, bare), expectOld |-> TRUE]
  <2> HIDE DEF p, field, bare, e
  <2>4. IsTwoPathStatus(e.X, e.Y) = TRUE
    BY <2>2 DEF IsTwoPathStatus
  <2>5. ReadField(s, field) = r
    BY <1>4, <2>4
  <2>6. Front(Append(es, bare)) = es /\ Last(Append(es, bare)) = bare
    BY <1>2, FrontOfAppend
  <2> DEFINE old == <<change.from>>
  <2>7. old[1] = change.from
    OBVIOUS
  <2> HIDE DEF old
  <2>8. ReadField(r, old) = t
    BY <2>3, <2>6, <2>7 DEF ReadField
  <2>9. Len(p) = 2 /\ p[1] = field /\ p[2] = old
    BY <2>1 DEF old
  <2> HIDE DEF s, t, r
  <2>10. Len(p) = 2 /\ ReadField(ReadField(s, p[1]), p[2]) = t
    BY <2>5, <2>8, <2>9
  <2> QED BY <2>10 DEF s, t, p, e
<1> QED BY <1>5, <1>6, EntryOfCases

\* What git prints fits in one type.
Fields == {Printed(change)[k] : change \in Change, k \in 1..2} \union {<<"##">>, <<>>}

Texts == Seq(Fields)

LEMMA TextsJoined ==
    ASSUME NEW p \in Texts, NEW q \in Texts
    PROVE  /\ p \o q \in Texts
           /\ Len(p) \in Nat /\ Len(q) \in Nat /\ Len(p \o q) = Len(p) + Len(q)
           /\ \A i \in 1..Len(p) : (p \o q)[i] = p[i]
           /\ \A i \in 1..Len(q) : (p \o q)[Len(p) + i] = q[i]
BY DEF Texts

LEMMA PrintedTyped ==
    ASSUME NEW change \in Change
    PROVE  Printed(change) \in Seq(Fields)
<1> DEFINE p == Printed(change)
           a == p[1]
           b == p[2]
<1>1. a \in Fields /\ b \in Fields
  <2>1. 1 \in 1..2 /\ 2 \in 1..2
    OBVIOUS
  <2> QED BY <2>1 DEF Fields
<1>2. p = <<a>> \/ p = <<a, b>>
  BY EntryOfCases DEF Printed
<1> HIDE DEF p, a, b
<1>3. <<a>> \in Seq(Fields) /\ <<a, b>> \in Seq(Fields)
  BY <1>1
<1>4. p \in Seq(Fields)
  BY <1>2, <1>3
<1> QED BY <1>4 DEF p

\* One entry for every change, in their order.
ReadsAs(s, changes, i) ==
    \E es \in Seq(StatusEntry) :
        /\ s = [entries |-> es, expectOld |-> FALSE]
        /\ Len(es) = i
        /\ \A j \in 1..i : es[j] = EntryOf(changes[j])

\* parseStatus gives back the changes that git prints.
LEMMA ParsesChanges ==
    ASSUME NEW changes \in Seq(Change)
    PROVE  \E es \in Seq(StatusEntry) :
              /\ parseStatus(StatusText(changes)) = es
              /\ Len(es) = Len(changes)
              /\ \A j \in 1..Len(changes) : es[j] = EntryOf(changes[j])
<1> DEFINE n == Len(changes)
           qs == [i \in DOMAIN changes |-> Printed(changes[i])]
           flat == FlattenSeq(qs)
           head == <<<<"##">>>>
           tail == <<<<>>>>
           q == head \o flat \o tail
<1>1. n \in Nat /\ DOMAIN changes = 1..n /\ \A i \in 1..n : changes[i] \in Change
  OBVIOUS
<1>2. Pieces(qs, n, Fields) /\ \A i \in 1..n : qs[i] = Printed(changes[i])
  <2>1. \A i \in 1..n : qs[i] = Printed(changes[i]) /\ qs[i] \in Seq(Fields)
    BY <1>1, PrintedTyped
  <2>2. DOMAIN qs = 1..n /\ qs \in [1..n -> Seq(Fields)]
    BY <1>1, <2>1
  <2> HIDE DEF qs, n
  <2>3. qs \in Seq(Seq(Fields)) /\ Len(qs) = n
    BY <1>1, <2>2
  <2>4. n = 0 => qs = <<>>
    BY <2>3
  <2> QED BY <1>1, <2>1, <2>3, <2>4 DEF Pieces
<1> HIDE DEF qs, n
<1>3. PICK f : Flattens(f, qs, n, Fields) /\ flat = f[n]
  BY <1>2, FlattenSteps
<1>4. \A i \in 0..n : /\ f[i] \in Seq(Fields) /\ Len(f[i]) \in Nat
                      /\ Len(f[i]) <= Len(flat)
                      /\ \A k \in 1..Len(f[i]) : flat[k] = f[i][k]
  <2>1. \A i \in 0..n : f[i] \in Seq(Fields)
    BY <1>3 DEF Flattens
  <2>2. \A i \in 0..n : Len(f[i]) \in Nat
    BY <2>1
  <2> HIDE DEF flat
  <2>3. \A i \in 0..n : Len(f[i]) <= Len(flat) /\ \A k \in 1..Len(f[i]) : flat[k] = f[i][k]
    BY <1>2, <1>3, FlattenGrows
  <2> QED BY <2>1, <2>2, <2>3
<1> DEFINE l == Len(flat)
<1>5. flat \in Seq(Fields) /\ l \in Nat
  BY <1>1, <1>3, <1>4
<1> HIDE DEF flat
<1>6. /\ DOMAIN q = 1..l+2 /\ q[1] = <<"##">> /\ q[l+2] = <<>>
      /\ \A k \in 1..l : q[1+k] = flat[k]
  <2>1. <<"##">> \in Fields /\ <<>> \in Fields
    BY DEF Fields
  <2>2. head \in Texts /\ tail \in Texts /\ Len(head) = 1 /\ Len(tail) = 1
        /\ head[1] = <<"##">> /\ tail[1] = <<>>
    BY <2>1 DEF Texts
  <2> HIDE DEF head, tail, l
  <2>0. flat \in Texts
    BY <1>5 DEF Texts
  <2> DEFINE p == head \o flat
  <2>3. /\ p \in Texts /\ Len(p) = 1 + l /\ p[1] = head[1]
        /\ \A k \in 1..l : p[1+k] = flat[k]
    <3>1. /\ p \in Texts /\ Len(p) = Len(head) + Len(flat)
          /\ \A k \in 1..Len(head) : p[k] = head[k]
          /\ \A k \in 1..Len(flat) : p[Len(head)+k] = flat[k]
      BY <2>0, <2>2, TextsJoined, Zenon
    <3>2. 1 \in 1..1
      OBVIOUS
    <3> HIDE DEF p
    <3> QED BY <2>2, <3>1, <3>2 DEF l
  <2> HIDE DEF p
  <2>4. /\ p \o tail \in Texts /\ Len(p \o tail) = 1 + l + 1
        /\ \A k \in 1..1+l : (p \o tail)[k] = p[k]
        /\ (p \o tail)[1+l+1] = tail[1]
    <3> DEFINE r == p \o tail
    <3>1. /\ r \in Texts /\ Len(r) = Len(p) + Len(tail)
          /\ \A k \in 1..Len(p) : r[k] = p[k]
          /\ \A k \in 1..Len(tail) : r[Len(p)+k] = tail[k]
      BY <2>2, <2>3, TextsJoined, Zenon
    <3>2. 1 \in 1..1
      OBVIOUS
    <3> HIDE DEF r
    <3>3. r \in Texts /\ Len(r) = 1 + l + 1 /\ \A k \in 1..1+l : r[k] = p[k]
      BY <2>2, <2>3, <3>1
    <3>4. r[1+l+1] = tail[1]
      BY <2>2, <2>3, <3>1, <3>2
    <3> QED BY <3>3, <3>4 DEF r
  <2>5. DOMAIN (p \o tail) = 1..l+2 /\ l+2 = 1+l+1 /\ 1 \in 1..1+l
        /\ \A k \in 1..l : 1+k \in 1..1+l
    BY <1>5, <2>4 DEF Texts
  <2> QED BY <2>2, <2>3, <2>4, <2>5 DEF p
<1>7. parseStatus(StatusText(changes)) = parseStatus(q)
  BY DEF StatusText, flat, qs
<1> HIDE DEF q
<1>8. PICK m : ReadRun(m, q, l+2) /\ parseStatus(q) = m[l+2].entries
  <2> HIDE DEF l
  <2>1. l+2 \in Nat
    BY <1>5
  <2> QED BY <1>6, <2>1, ReadRuns
<1> HIDE DEF l
<1>9. m[0] = Nothing /\ \A k \in 1..l+2 : m[k] = ReadField(m[k-1], q[k])
  BY <1>8 DEF ReadRun
<1>10. m[1] = Nothing
  <2>1. 1 \in 1..l+2 /\ 1-1 = 0
    BY <1>5
  <2>2. m[1] = ReadField(m[0], <<"##">>)
    BY <1>6, <1>9, <2>1
  <2>3. ReadField(Nothing, <<"##">>) = Nothing
    BY DEF ReadField, Nothing
  <2> QED BY <1>9, <2>2, <2>3
<1> DEFINE K == {i \in 0..n : ReadsAs(m[1+Len(f[i])], changes, i)}
<1>11. 0 \in K
  <2>1. Len(f[0]) = 0
    BY <1>3 DEF Flattens
  <2>2. 1+0 = 1 /\ <<>> \in Seq(StatusEntry) /\ Len(<<>>) = 0 /\ \A j : j \notin 1..0
    OBVIOUS
  <2>3. ReadsAs(Nothing, changes, 0)
    BY <2>2 DEF ReadsAs, Nothing
  <2>4. 0 \in 0..n
    BY <1>1
  <2> QED BY <1>10, <2>1, <2>2, <2>3, <2>4
<1>12. ASSUME NEW i \in 0..n-1, i \in K PROVE i+1 \in K
  <2> DEFINE t == i+1
             p == qs[t]
             a == Len(f[i])
             b == Len(f[t])
             e == EntryOf(changes[t])
  <2>1. t \in 1..n /\ t \in 0..n /\ t-1 = i /\ i \in 0..n
    BY <1>1
  <2>2. ReadsAs(m[1+a], changes, i)
    BY <1>12
  <2> HIDE DEF t
  <2>3. changes[t] \in Change /\ p = Printed(changes[t]) /\ p \in Seq(Fields)
    BY <1>1, <1>2, <2>1, PrintedTyped
  <2>4. f[t] = f[i] \o p /\ f[i] \in Seq(Fields)
    BY <1>3, <1>4, <2>1 DEF Flattens
  <2> HIDE DEF p
  <2>5. b = a + Len(p) /\ \A k \in 1..Len(p) : f[t][a+k] = p[k]
    <3> DEFINE g == f[i]
               h == g \o p
    <3>1. g \in Texts /\ p \in Texts /\ a = Len(g) /\ b = Len(h) /\ f[t] = h
      BY <2>3, <2>4 DEF Texts
    <3> HIDE DEF g, a, b
    <3>2. Len(h) = Len(g) + Len(p) /\ \A k \in 1..Len(p) : h[Len(g) + k] = p[k]
      BY <3>1, TextsJoined, Zenon
    <3> QED BY <3>1, <3>2, Zenon
  <2>6. a \in Nat /\ b \in Nat /\ Len(p) \in Nat /\ b <= l
    BY <1>4, <2>1, <2>3 DEF l
  <2> HIDE DEF a, b
  <2>7. ASSUME NEW k \in 1..Len(p)
        PROVE  /\ 1+(a+k) \in 1..l+2 /\ (1+(a+k))-1 = a+k
               /\ m[1+(a+k)] = ReadField(m[a+k], p[k])
    <3>1. a+k \in 1..b /\ a+k \in 1..l /\ 1+(a+k) \in 1..l+2 /\ (1+(a+k))-1 = a+k
      BY <1>5, <2>5, <2>6
    <3>2. flat[a+k] = p[k]
      BY <1>4, <2>1, <2>5, <3>1 DEF b
    <3>3. q[1+(a+k)] = p[k]
      BY <1>6, <3>1, <3>2
    <3> QED BY <1>9, <3>1, <3>3
  <2>8. PICK es \in Seq(StatusEntry) :
          /\ m[1+a] = [entries |-> es, expectOld |-> FALSE]
          /\ Len(es) = i
          /\ \A j \in 1..i : es[j] = EntryOf(changes[j])
    BY <2>2 DEF ReadsAs
  <2> DEFINE s == [entries |-> es, expectOld |-> FALSE]
             r == [entries |-> Append(es, e), expectOld |-> FALSE]
  <2>9. \/ Len(p) = 1 /\ ReadField(s, p[1]) = r
        \/ Len(p) = 2 /\ ReadField(ReadField(s, p[1]), p[2]) = r
    BY <2>3, ReadPrinted
  <2>10. m[1+a] = s
    BY <2>8
  <2> HIDE DEF s, r
  <2>11. m[1+b] = r
    <3>1. CASE Len(p) = 1 /\ ReadField(s, p[1]) = r
      <4>1. 1 \in 1..Len(p) /\ a+1 = 1+a /\ 1+b = 1+(a+1)
        BY <2>5, <2>6, <3>1
      <4>2. m[1+(a+1)] = ReadField(m[a+1], p[1])
        BY <2>7, <4>1
      <4> QED BY <2>10, <3>1, <4>1, <4>2
    <3>2. CASE Len(p) = 2 /\ ReadField(ReadField(s, p[1]), p[2]) = r
      <4>1. 1 \in 1..Len(p) /\ 2 \in 1..Len(p) /\ a+1 = 1+a /\ a+2 = 1+(a+1) /\ 1+b = 1+(a+2)
        BY <2>5, <2>6, <3>2
      <4>2. m[1+(a+1)] = ReadField(m[a+1], p[1]) /\ m[1+(a+2)] = ReadField(m[a+2], p[2])
        BY <2>7, <4>1
      <4> QED BY <2>10, <3>2, <4>1, <4>2
    <3> QED BY <2>9, <3>1, <3>2
  <2>12. ReadsAs(r, changes, t)
    <3> DEFINE es2 == Append(es, e)
    <3>1. e \in StatusEntry
      BY <2>3, EntryOfCases
    <3> HIDE DEF e
    <3>2. es2 \in Seq(StatusEntry) /\ Len(es2) = i + 1 /\ es2[i+1] = e
          /\ \A j \in 1..i : es2[j] = es[j]
      <4> HIDE DEF K
      <4> QED BY <2>8, <3>1
    <3>3. r = [entries |-> es2, expectOld |-> FALSE]
      BY DEF r
    <3> HIDE DEF es2
    <3>4. i+1 = t /\ \A j \in 1..t : j \in 1..i \/ j = t
      BY <2>1 DEF t
    <3>5. \A j \in 1..t : es2[j] = EntryOf(changes[j])
      BY <2>8, <3>2, <3>4 DEF e
    <3> QED BY <3>2, <3>3, <3>4, <3>5 DEF ReadsAs
  <2>13. t \in K
    BY <2>1, <2>11, <2>12 DEF b
  <2> QED BY <2>13 DEF t
<1>13. ReadsAs(m[1+l], changes, n)
  <2>1. n \in K
    <3> HIDE DEF K
    <3>1. Inductive(K, n)
      BY <1>11, <1>12 DEF Inductive
    <3> QED BY <1>1, <3>1, UpTo
  <2>2. Len(f[n]) = l
    BY <1>3 DEF l
  <2> QED BY <2>1, <2>2
<1>14. PICK es \in Seq(StatusEntry) :
         /\ m[1+l] = [entries |-> es, expectOld |-> FALSE]
         /\ Len(es) = n
         /\ \A j \in 1..n : es[j] = EntryOf(changes[j])
  BY <1>13 DEF ReadsAs
<1>15. m[l+2] = m[1+l]
  <2>1. l+2 \in 1..l+2 /\ (l+2)-1 = 1+l
    BY <1>5
  <2>2. m[l+2] = ReadField(m[1+l], <<>>)
    BY <1>6, <1>9, <2>1
  <2>3. \A s : ~s.expectOld => ReadField(s, <<>>) = s
    BY DEF ReadField
  <2> QED BY <1>14, <2>2, <2>3
<1>16. parseStatus(StatusText(changes)) = es
  BY <1>7, <1>8, <1>14, <1>15
<1> QED BY <1>14, <1>16 DEF n

----------------------------------------------------------------------------
(* Parting the changes *)

\* What partitionStatus finds in the entries of a tree's changes.
LEMMA PartedIs ==
    ASSUME NEW changes \in Seq(Change), NEW agent
    PROVE  LET parted  == Parted(agent, changes)
               touched == TouchedBy(changes)
               in(p)   == Inside(p, agent.policy, agent.regions)
           IN  /\ parted.hasSelectedChanges <=> \E p \in touched : in(p)
               /\ parted.regions = {region \in Range(agent.regions) :
                                      agent.policy = "regions" /\ \E p \in touched : Beneath(region, p)}
               /\ parted.unselectedPaths = {p \in touched : ~in(p)}
               /\ parted.hasTrackedUnselected <=>
                    \E j \in DOMAIN changes :
                       changes[j].kind # "new" /\ \E p \in Touched(changes[j]) : ~in(p)
               /\ touched \subseteq Path
<1> DEFINE n == Len(changes)
           parted == Parted(agent, changes)
           touched == TouchedBy(changes)
           in(p) == Inside(p, agent.policy, agent.regions)
<1>1. DOMAIN changes = 1..n /\ \A j \in 1..n : changes[j] \in Change
  OBVIOUS
<1>2. PICK es \in Seq(StatusEntry) :
        /\ parseStatus(StatusText(changes)) = es
        /\ Len(es) = n
        /\ \A j \in 1..n : es[j] = EntryOf(changes[j])
  BY ParsesChanges
<1>3. DOMAIN es = 1..n
  BY <1>2
<1> HIDE DEF n
<1>4. \A j \in 1..n : /\ Endpoints(es[j]) = Touched(changes[j])
                      /\ IsTracked(es[j]) <=> changes[j].kind # "new"
                      /\ Touched(changes[j]) \subseteq Path
  BY <1>1, <1>2, EntryTouches
<1> DEFINE ends == UNION {Endpoints(es[j]) : j \in DOMAIN es}
<1>5. ends = touched
  <2>1. /\ ends = UNION {Endpoints(es[j]) : j \in 1..n}
        /\ touched = UNION {Touched(changes[j]) : j \in 1..n}
    BY <1>1, <1>3 DEF TouchedBy
  <2> HIDE DEF ends, touched
  <2> QED BY <1>4, <2>1
<1>6. touched \subseteq Path
  BY <1>1, <1>4 DEF TouchedBy
<1>7. parted = Partition(es, agent.policy, agent.regions)
  BY <1>2 DEF Parted
<1> HIDE DEF parted
<1>8. /\ parted.hasSelectedChanges <=> \E p \in ends : in(p)
      /\ parted.regions = {region \in Range(agent.regions) :
                             agent.policy = "regions" /\ \E p \in ends : Beneath(region, p)}
      /\ parted.unselectedPaths = {p \in ends : ~in(p)}
      /\ parted.hasTrackedUnselected <=>
           \E j \in DOMAIN es : IsTracked(es[j]) /\ \E p \in Endpoints(es[j]) : ~in(p)
  BY <1>7 DEF Partition
<1> HIDE DEF ends, touched, in
<1>9. parted.hasTrackedUnselected <=>
        \E j \in DOMAIN changes :
           changes[j].kind # "new" /\ \E p \in Touched(changes[j]) : ~in(p)
  BY <1>1, <1>3, <1>4, <1>8
<1>10. /\ parted.hasSelectedChanges <=> \E p \in touched : in(p)
       /\ parted.regions = {region \in Range(agent.regions) :
                             agent.policy = "regions" /\ \E p \in touched : Beneath(region, p)}
       /\ parted.unselectedPaths = {p \in touched : ~in(p)}
  BY <1>5, <1>8
<1> QED BY <1>6, <1>9, <1>10 DEF parted, touched, in

\* A cycle commits what is inside.
LEMMA CommittedIs ==
    ASSUME NEW changes \in Seq(Change), NEW agent
    PROVE  Committed(agent, changes) =
             {p \in TouchedBy(changes) : Inside(p, agent.policy, agent.regions)}
<1> DEFINE parted == Parted(agent, changes)
           touched == TouchedBy(changes)
           in(p) == Inside(p, agent.policy, agent.regions)
<1>1. Committed(agent, changes) =
        {p \in touched : /\ parted.hasSelectedChanges
                         /\ \/ agent.policy = "all"
                            \/ \E region \in parted.regions : Beneath(region, p)}
  BY DEF Committed
<1>2. /\ parted.hasSelectedChanges <=> \E p \in touched : in(p)
      /\ parted.regions = {region \in Range(agent.regions) :
                             agent.policy = "regions" /\ \E p \in touched : Beneath(region, p)}
  BY PartedIs
<1>3. \A p : in(p) <=> \/ agent.policy = "all"
                       \/ /\ agent.policy = "regions"
                          /\ \E region \in Range(agent.regions) : Beneath(region, p)
  BY DEF Inside, Range
<1> HIDE DEF parted, touched, in
<1>4. ASSUME NEW p \in touched
      PROVE  in(p) <=> /\ parted.hasSelectedChanges
                       /\ \/ agent.policy = "all"
                          \/ \E region \in parted.regions : Beneath(region, p)
  BY <1>2, <1>3
<1>5. Committed(agent, changes) = {p \in touched : in(p)}
  BY <1>1, <1>4
<1> QED BY <1>5 DEF touched, in

\* What becomes of a tree's changes, for an agent that was resolved from an
\* accepted entry.
LEMMA AcceptedSelects ==
    ASSUME disk \in Disk, NEW i \in DOMAIN agents, NEW changes \in Trees,
           Accepted(agents[i].entry), agents[i] = Resolve(agents[i].entry)
    PROVE  LET asked(path) == Asks(agents[i].entry, path)
               touched == TouchedBy(changes)
               parted  == Parted(agents[i], changes)
           IN  /\ Committed(agents[i], changes) = {p \in touched : asked(p)}
               /\ parted.unselectedPaths = {p \in touched : ~asked(p)}
               /\ parted.hasTrackedUnselected <=>
                    \E j \in DOMAIN changes :
                       /\ changes[j].kind # "new"
                       /\ \E p \in Touched(changes[j]) : ~asked(p)
<1> DEFINE agent == agents[i]
           entry == agents[i].entry
           asked(p) == Asks(entry, p)
           in(p) == Inside(p, agent.policy, agent.regions)
           touched == TouchedBy(changes)
           parted == Parted(agent, changes)
<1>1. changes \in Seq(Change)
  BY TreesAssumption
<1>2. \A p \in Path : asked(p) <=> in(p)
  <2>1. \A p \in Path : asked(p) <=> Inside(p, Resolve(entry).policy, Resolve(entry).regions)
    BY SelectedIsAsked
  <2> QED BY <2>1
<1>3. /\ touched \subseteq Path
      /\ parted.unselectedPaths = {p \in touched : ~in(p)}
      /\ parted.hasTrackedUnselected <=>
           \E j \in DOMAIN changes :
              changes[j].kind # "new" /\ \E p \in Touched(changes[j]) : ~in(p)
  BY <1>1, PartedIs
<1>4. Committed(agent, changes) = {p \in touched : in(p)}
  BY <1>1, CommittedIs
<1>5. \A j \in DOMAIN changes : Touched(changes[j]) \subseteq Path
  BY <1>1, EntryTouches
<1> HIDE DEF agent, touched, parted, asked, in
<1>6. Committed(agent, changes) = {p \in touched : asked(p)}
  BY <1>2, <1>3, <1>4
<1>7. parted.unselectedPaths = {p \in touched : ~asked(p)}
  BY <1>2, <1>3
<1>8. parted.hasTrackedUnselected <=>
        \E j \in DOMAIN changes :
           changes[j].kind # "new" /\ \E p \in Touched(changes[j]) : ~asked(p)
  BY <1>2, <1>3, <1>5
<1> QED BY <1>6, <1>7, <1>8 DEF agent, touched, parted, asked

\* For any layers, regions and changes: what a cycle commits, what it reports as
\* left out, and whether it pauses pulls, are what the configuration asks for
\* (config.Resolve, parseStatus and partitionStatus together).
THEOREM SelectionIsAsAsked == Spec => []SelectsAsAsked
<1>1. ASSUME TypeOK, AgentsResolved PROVE SelectsAsAsked
  <2>1. disk \in Disk
    BY <1>1 DEF TypeOK
  <2>2. \A i \in DOMAIN agents :
          Accepted(agents[i].entry) /\ agents[i] = Resolve(agents[i].entry)
    BY <1>1 DEF AgentsResolved
  <2> QED BY <2>1, <2>2, AcceptedSelects DEF SelectsAsAsked
<1>2. TypeOK /\ AgentsResolved => SelectsAsAsked
  BY <1>1
<1> QED BY <1>2, AlwaysResolved, PTL

----------------------------------------------------------------------------
(* Identifiers *)

\* A daemon that runs has passed validateRepoIdentifiers, and its agents are
\* the ones that did.
Validated == outcome = "running" => ~Clash

LEMMA InitValidated == Init => Validated
BY DEF Init, Validated

LEMMA NextValidated == Validated /\ [Next]_vars => Validated'
<1> SUFFICES ASSUME Validated, [Next]_vars PROVE Validated'
  OBVIOUS
<1>1. CASE Load \/ Consider
  <2>1. outcome' # "running"
    BY <1>1 DEF Load, Consider
  <2> QED BY <2>1 DEF Validated
<1>2. CASE Validate
  <2>1. agents' = agents /\ (outcome' = "running" => ~Clash)
    BY <1>2 DEF Validate
  <2> QED BY <2>1 DEF Validated, Clash
<1>3. CASE UNCHANGED vars
  BY <1>3 DEF Validated, Clash, vars
<1> QED BY <1>1, <1>2, <1>3 DEF Next

LEMMA AlwaysValidated == Spec => []Validated
BY InitValidated, NextValidated, PTL DEF Spec

\* Agents that do not clash are found by their paths and explicit names.
LEMMA FoundByIdentifier ==
    ASSUME ~Clash, NEW i \in DOMAIN agents
    PROVE  /\ Matches(agents[i].path) = {i}
           /\ agents[i].explicitName =>
                \/ Matches(agents[i].name) = {i}
                \/ \E j \in DOMAIN agents \ {i} : agents[j].path = agents[i].name
<1>1. {j \in DOMAIN agents : agents[j].path = agents[i].path} = {i}
  BY DEF Clash
<1>2. Matches(agents[i].path) = {i}
  BY <1>1 DEF Matches
<1>3. ASSUME agents[i].explicitName,
             ~ \E j \in DOMAIN agents \ {i} : agents[j].path = agents[i].name
      PROVE  Matches(agents[i].name) = {i}
  <2>1. {j \in DOMAIN agents :
           agents[j].explicitName /\ agents[j].name = agents[i].name} = {i}
    BY <1>3 DEF Clash
  <2>2. CASE agents[i].path = agents[i].name
    BY <1>2, <2>2
  <2>3. CASE agents[i].path # agents[i].name
    <3>1. {j \in DOMAIN agents : agents[j].path = agents[i].name} = {}
      BY <1>3, <2>3
    <3> QED BY <2>1, <3>1 DEF Matches
  <2> QED BY <2>2, <2>3
<1> QED BY <1>2, <1>3

\* Paths and explicit names are identifiers, whatever was configured.
THEOREM IdentifiersAreStable == Spec => []IdentifiersHold
<1>1. Validated => IdentifiersHold
  BY FoundByIdentifier DEF Validated, IdentifiersHold
<1> QED BY <1>1, AlwaysValidated, PTL
===============================================================================
