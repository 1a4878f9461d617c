------------------------- MODULE HoldoutConfigProofs -------------------------
(***************************************************************************)
(* Theorems about holdout windows: about the clock, for every resolved     *)
(* list of windows; and about HoldoutConfig, for every configuration and   *)
(* any number of entries in it.  The day has any length.                   *)
(***************************************************************************)
EXTENDS HoldoutConfig, SequenceFacts

----------------------------------------------------------------------------
(* The clock *)

\* The minute of a day is within the day, and midnight is not before the
\* origin of time.
LEMMA MinuteRange ==
    ASSUME NEW t \in Nat
    PROVE  /\ MinuteOf(t) \in 0..Day-1
           /\ DayStart(t) \in Nat
           /\ t = DayStart(t) + MinuteOf(t)
<1>1. t % Day \in 0..Day-1
  BY DayAssumption
<1>2. t % Day <= t
  BY DayAssumption
<1> QED
  BY <1>1, <1>2, DayAssumption DEF MinuteOf, DayStart

\* A set of indices that is not empty has a first one.
LEMMA FirstIsLeast ==
    ASSUME NEW I, I \subseteq Nat, I # {}
    PROVE  First(I) \in I /\ \A j \in I : First(I) <= j
<1>1. \E i \in I : \A j \in I : i <= j
  BY LeastElement
<1> QED BY <1>1 DEF First

\* Minutes shift with the instant inside the day and start over the next day.
LEMMA MinuteShift ==
    ASSUME NEW t \in Nat, NEW u \in Nat, t <= u
    PROVE  /\ u < DayStart(t) + Day => MinuteOf(u) = u - DayStart(t)
           /\ u >= DayStart(t) + Day /\ u < DayStart(t) + Day + Day
                => MinuteOf(u) = u - DayStart(t) - Day
<1> DEFINE q == t \div Day
<1>1. q \in Nat /\ t = Day * q + (t % Day) /\ t % Day \in 0..Day-1
  BY DayAssumption
<1>2. DayStart(t) = Day * q
  BY <1>1, DayAssumption DEF DayStart, MinuteOf
<1>3. ASSUME NEW m \in 0..Day-1, NEW k \in Nat
      PROVE  (Day * k + m) % Day = m
  BY DayAssumption
<1>4. u < DayStart(t) + Day => MinuteOf(u) = u - DayStart(t)
  <2> SUFFICES ASSUME u < DayStart(t) + Day PROVE u % Day = u - DayStart(t)
    BY DEF MinuteOf
  <2>1. u - DayStart(t) \in 0..Day-1
    BY <1>1, <1>2, DayAssumption
  <2>2. u = Day * q + (u - DayStart(t))
    BY <1>1, <1>2, DayAssumption
  <2> QED BY <1>1, <1>3, <2>1, <2>2
<1>5. ASSUME u >= DayStart(t) + Day, u < DayStart(t) + Day + Day
      PROVE  MinuteOf(u) = u - DayStart(t) - Day
  <2>1. u - DayStart(t) - Day \in 0..Day-1
    BY <1>1, <1>2, <1>5, DayAssumption
  <2>2. u = Day * (q + 1) + (u - DayStart(t) - Day)
    BY <1>1, <1>2, DayAssumption
  <2>3. (Day * (q + 1) + (u - DayStart(t) - Day)) % Day = u - DayStart(t) - Day
    BY <1>1, <1>3, <2>1
  <2> QED BY <2>2, <2>3 DEF MinuteOf
<1> QED
  BY <1>4, <1>5

\* Inside a window, the instant it ends is ahead and the window holds until
\* then.
LEMMA ActiveUntilHolds ==
    ASSUME NEW ws, Resolved(ws), NEW t \in Nat, ActiveAt(ws, t)
    PROVE  /\ ActiveUntil(ws, t) \in Nat
           /\ ActiveUntil(ws, t) > t
           /\ ActiveUntil(ws, t) <= DayStart(t) + Day
           /\ \A u \in t..ActiveUntil(ws, t)-1 : ActiveAt(ws, u)
<1> DEFINE I == {j \in DOMAIN ws : Covers(ws[j], t)}
           i == First(I)
<1>1. i \in DOMAIN ws /\ Covers(ws[i], t)
  <2>1. I \subseteq Nat /\ I # {}
    BY DEF Resolved, ActiveAt
  <2>2. i \in I
    <3> HIDE DEF I
    <3> QED BY <2>1, FirstIsLeast
  <2> QED BY <2>2
<1>2. ws[i] \in Window
  BY <1>1 DEF Resolved
<1>3. ActiveUntil(ws, t) = DayStart(t) + ws[i].end
  BY DEF ActiveUntil
<1> HIDE DEF i
<1>4. MinuteOf(t) \in 0..Day-1 /\ DayStart(t) \in Nat
      /\ t = DayStart(t) + MinuteOf(t)
  BY MinuteRange
<1>5. ws[i].start \in 0..Day-1 /\ ws[i].end \in 0..Day
      /\ ws[i].start <= MinuteOf(t) /\ MinuteOf(t) < ws[i].end
  BY <1>1, <1>2 DEF Window, Covers
<1>6. ASSUME NEW u \in t..ActiveUntil(ws, t)-1
      PROVE  ActiveAt(ws, u)
  <2>1. u \in Nat /\ t <= u /\ u < DayStart(t) + Day
    BY <1>3, <1>4, <1>5, DayAssumption
  <2>2. MinuteOf(u) = u - DayStart(t)
    BY <2>1, MinuteShift
  <2>3. ws[i].start <= MinuteOf(u) /\ MinuteOf(u) < ws[i].end
    BY <1>3, <1>4, <1>5, <2>1, <2>2
  <2> QED BY <1>1, <2>3 DEF ActiveAt, Covers
<1> QED
  BY <1>3, <1>4, <1>5, <1>6, DayAssumption

\* The scheduler never sleeps through a boundary: the transition it waits for
\* is ahead of it, and the verdict of holdoutStatusAt is the same at every
\* instant before (nextHoldoutTransitionAfter, agent.go:1152-1172).
THEOREM NextTransitionIsFirst ==
    ASSUME NEW ws, Resolved(ws), ws # <<>>, NEW t \in Nat
    PROVE  NextTransition(ws, t) \in Nat /\ MissesNoBoundary(ws, t)
<1>1. MinuteOf(t) \in 0..Day-1 /\ DayStart(t) \in Nat
      /\ t = DayStart(t) + MinuteOf(t)
  BY MinuteRange
<1>2. \A i \in DOMAIN ws : ws[i].start \in 0..Day-1 /\ ws[i].end \in 0..Day
                            /\ ws[i].start <= ws[i].end
  <2> SUFFICES ASSUME NEW i \in DOMAIN ws
               PROVE  ws[i] \in Window /\ ws[i].start <= ws[i].end
    BY DEF Window
  <2> QED BY DEF Resolved
<1>3. CASE ActiveAt(ws, t)
  <2>1. NextTransition(ws, t) = ActiveUntil(ws, t)
    BY <1>3 DEF NextTransition
  <2> QED BY <1>3, <2>1, ActiveUntilHolds DEF MissesNoBoundary
<1>4. CASE ~ActiveAt(ws, t) /\ Later(ws, t) # {}
  <2> DEFINE n == First(Later(ws, t))
  <2>1. n \in Later(ws, t) /\ \A j \in Later(ws, t) : n <= j
    <3>1. Later(ws, t) \subseteq Nat
      BY DEF Later, Resolved
    <3> QED BY <1>4, <3>1, FirstIsLeast
  <2>2. NextTransition(ws, t) = DayStart(t) + ws[n].start
    BY <1>4 DEF NextTransition
  <2> HIDE DEF n
  <2>3. n \in DOMAIN ws /\ ws[n].start > MinuteOf(t)
    BY <2>1 DEF Later
  <2>4. ASSUME NEW u \in t..(DayStart(t) + ws[n].start - 1)
        PROVE  ~ActiveAt(ws, u)
    <3>1. u \in Nat /\ t <= u /\ u < DayStart(t) + Day
      BY <1>1, <1>2, <2>3, DayAssumption
    <3>2. MinuteOf(u) = u - DayStart(t)
      BY <3>1, MinuteShift
    <3>3. SUFFICES ASSUME NEW j \in DOMAIN ws, Covers(ws[j], u) PROVE FALSE
      BY DEF ActiveAt
    <3>4. ws[j].start <= MinuteOf(u) /\ MinuteOf(u) < ws[j].end
      BY <3>3 DEF Covers
    <3>5. CASE ws[j].start > MinuteOf(t)
      <4>1. n <= j
        BY <2>1, <3>5 DEF Later
      <4>2. n = j \/ ws[n].end < ws[j].start
        BY <2>3, <4>1 DEF Resolved
      <4> QED
        BY <1>1, <1>2, <2>3, <3>1, <3>2, <3>4, <4>2, DayAssumption
    <3>6. CASE ws[j].start <= MinuteOf(t)
      <4>1. MinuteOf(t) < ws[j].end
        BY <1>1, <1>2, <3>1, <3>2, <3>4, DayAssumption
      <4> QED BY <1>4, <3>6, <4>1 DEF ActiveAt, Covers
    <3> QED BY <1>1, <1>2, <3>5, <3>6, DayAssumption
  <2> QED
    BY <1>1, <1>2, <1>4, <2>2, <2>3, <2>4, DayAssumption DEF MissesNoBoundary
<1>5. CASE ~ActiveAt(ws, t) /\ Later(ws, t) = {}
  <2>1. NextTransition(ws, t) = DayStart(t) + Day + ws[1].start
    BY <1>5 DEF NextTransition
  <2>2. 1 \in DOMAIN ws
    BY DEF Resolved
  <2>3. ASSUME NEW u \in t..(DayStart(t) + Day + ws[1].start - 1)
        PROVE  ~ActiveAt(ws, u)
    <3>1. u \in Nat /\ t <= u /\ u < DayStart(t) + Day + Day
      BY <1>1, <1>2, <2>2, DayAssumption
    <3>3. SUFFICES ASSUME NEW j \in DOMAIN ws, Covers(ws[j], u) PROVE FALSE
      BY DEF ActiveAt
    <3>4. ws[j].start <= MinuteOf(u) /\ MinuteOf(u) < ws[j].end
      BY <3>3 DEF Covers
    <3>5. CASE u < DayStart(t) + Day
      <4>1. MinuteOf(u) = u - DayStart(t)
        BY <3>1, <3>5, MinuteShift
      <4>2. ws[j].start <= MinuteOf(t)
        BY <1>1, <1>2, <1>5 DEF Later
      <4>3. MinuteOf(t) < ws[j].end
        BY <1>1, <1>2, <3>1, <3>4, <4>1, DayAssumption
      <4> QED BY <1>5, <4>2, <4>3 DEF ActiveAt, Covers
    <3>6. CASE u >= DayStart(t) + Day
      <4>1. MinuteOf(u) = u - DayStart(t) - Day
        BY <3>1, <3>6, MinuteShift
      <4>2. j = 1 \/ ws[1].end < ws[j].start
        BY <2>2 DEF Resolved
      <4>3. MinuteOf(u) < ws[1].start
        BY <1>1, <1>2, <2>2, <3>1, <4>1, DayAssumption
      <4>4. ws[1].start <= ws[j].start
        BY <1>2, <2>2, <4>2
      <4> QED BY <1>1, <1>2, <2>2, <3>1, <3>4, <4>1, <4>3, <4>4, DayAssumption
    <3> QED BY <1>1, <3>1, <3>5, <3>6, DayAssumption
  <2> QED
    BY <1>1, <1>2, <1>5, <2>1, <2>2, <2>3, DayAssumption DEF MissesNoBoundary
<1> QED
  BY <1>3, <1>4, <1>5

----------------------------------------------------------------------------
(* Splitting *)

\* A window that does not wrap around; [0, 0] is one.
Piece == {w \in Window : w.start <= w.end}

\* The pieces of an entry cover the minutes it asks for.
LEMMA SplitCovers ==
    ASSUME NEW e \in Entry, ~Invalid(e)
    PROVE  /\ Split(e) \in Seq(Piece)
           /\ \A t \in Nat : Asks(e, t) <=> \E w : In(w, Split(e)) /\ Covers(w, t)
<1>1. e.start \in 0..Day-1 /\ e.end \in 0..Day-1 /\ e.start # e.end
  BY DEF Entry, Invalid
<1>2. \A t \in Nat : MinuteOf(t) \in 0..Day-1
  BY MinuteRange
<1>3. CASE e.end > e.start
  <2> DEFINE v == [start |-> e.start, end |-> e.end]
  <2>1. v \in Piece /\ v.start = e.start /\ v.end = e.end
    BY <1>1, <1>3, DayAssumption DEF Piece, Window
  <2> HIDE DEF v
  <2>2. Split(e) = <<v>>
    BY <1>3 DEF Split, v
  <2>3. Split(e) \in Seq(Piece)
    BY <2>1, <2>2
  <2>4. \A w : In(w, Split(e)) <=> w = v
    BY <2>2 DEF In
  <2>5. \A t : Asks(e, t) <=> Covers(v, t)
    BY <1>1, <1>3, <2>1 DEF Asks, Covers
  <2> QED BY <2>3, <2>4, <2>5
<1>4. CASE ~(e.end > e.start)
  <2> DEFINE u == [start |-> 0, end |-> e.end]
             v == [start |-> e.start, end |-> Day]
  <2>1. /\ u \in Piece /\ u.start = 0 /\ u.end = e.end
        /\ v \in Piece /\ v.start = e.start /\ v.end = Day
    BY <1>1, DayAssumption DEF Piece, Window
  <2> HIDE DEF u, v
  <2>2. Split(e) = <<u, v>>
    BY <1>4 DEF Split, u, v
  <2>3. Split(e) \in Seq(Piece)
    BY <2>1, <2>2
  <2>4. \A w : In(w, Split(e)) <=> w = u \/ w = v
    BY <2>2 DEF In
  <2>5. \A t \in Nat : Asks(e, t) <=> Covers(u, t) \/ Covers(v, t)
    BY <1>1, <1>2, <1>4, <2>1, DayAssumption DEF Asks, Covers
  <2> QED BY <2>3, <2>4, <2>5
<1> QED BY <1>3, <1>4

----------------------------------------------------------------------------
(* Sorting *)

\* Sorted orders the windows it is given.
LEMMA SortedOrders ==
    ASSUME NEW ws \in Seq(Piece)
    PROVE  /\ Sorted(ws) \in Seq(Piece)
           /\ Len(Sorted(ws)) = Len(ws)
           /\ \A w : In(w, Sorted(ws)) <=> In(w, ws)
           /\ \A i, j \in 1..Len(ws) : i < j => Sorted(ws)[i].start <= Sorted(ws)[j].start
<1> DEFINE n == Len(ws)
           InOrder(p) == \A i, j \in 1..n : i < j => ~Before(ws[p[j]], ws[p[i]])
           order == CHOOSE p \in Bijection(1..n, 1..n) : InOrder(p)
           R == {r \in Piece \X Piece : ~Before(r[2], r[1])}
<1>1. n \in Nat /\ DOMAIN ws = 1..n /\ \A i \in 1..n : ws[i] \in Piece
  OBVIOUS
<1>2. \A v, w \in Piece : <<v, w>> \in R <=> ~Before(w, v)
  OBVIOUS
<1>3. \A v \in Piece : v.start \in Nat /\ v.end \in Nat
  BY DayAssumption DEF Piece, Window
<1>4. \E p \in Bijection(1..n, 1..n) : InOrder(p)
  <2>1. /\ \A v, w \in Piece : <<v, w>> \in R \/ <<w, v>> \in R
        /\ \A u, v, w \in Piece : <<u, v>> \in R /\ <<v, w>> \in R => <<u, w>> \in R
    BY <1>2, <1>3 DEF Before
  <2> HIDE DEF R
  <2>2. PICK p \in Bijection(1..n, 1..n) :
           \A i, j \in 1..n : i < j => <<ws[p[i]], ws[p[j]]>> \in R
    BY <2>1, SortExists
  <2>3. \A i \in 1..n : p[i] \in 1..n
    BY <2>2 DEF Bijection, Injection
  <2> QED BY <1>1, <1>2, <2>2, <2>3
<1>5. order \in Bijection(1..n, 1..n) /\ InOrder(order)
  BY <1>4
<1>6. Sorted(ws) = [i \in 1..n |-> ws[order[i]]]
  BY <1>1 DEF Sorted
<1> HIDE DEF order
<1>7. /\ \A i \in 1..n : order[i] \in 1..n
      /\ \A k \in 1..n : \E i \in 1..n : order[i] = k
  BY <1>5 DEF Bijection, Injection, Surjection
<1>8. Sorted(ws) \in Seq(Piece) /\ Len(Sorted(ws)) = n
  BY <1>1, <1>6, <1>7
<1>9. \A w : In(w, Sorted(ws)) <=> In(w, ws)
  <2> DEFINE s == Sorted(ws)
  <2>1. Len(s) = n /\ \A i \in 1..n : s[i] = ws[order[i]]
    BY <1>6, <1>8
  <2> HIDE DEF s
  <2>2. ASSUME NEW w, In(w, s) PROVE In(w, ws)
    <3>1. PICK i \in 1..n : ws[order[i]] = w
      BY <2>1, <2>2 DEF In
    <3> QED BY <1>7, <3>1 DEF In
  <2>3. ASSUME NEW w, In(w, ws) PROVE In(w, s)
    <3>1. PICK k \in 1..n : ws[k] = w
      BY <2>3 DEF In
    <3>2. PICK i \in 1..n : order[i] = k
      BY <1>7
    <3>3. s[i] = w /\ i \in 1..Len(s)
      BY <2>1, <3>1, <3>2
    <3> QED BY <3>3 DEF In
  <2> QED BY <2>2, <2>3 DEF s
<1>10. ASSUME NEW i \in 1..n, NEW j \in 1..n, i < j
       PROVE  Sorted(ws)[i].start <= Sorted(ws)[j].start
  <2>1. ~Before(ws[order[j]], ws[order[i]])
    BY <1>5, <1>10
  <2>2. ws[order[i]] \in Piece /\ ws[order[j]] \in Piece
    BY <1>1, <1>7
  <2>3. ws[order[i]].start <= ws[order[j]].start
    BY <1>3, <2>1, <2>2 DEF Before
  <2> QED BY <1>6, <2>3
<1> QED BY <1>8, <1>9, <1>10

----------------------------------------------------------------------------
(* Merging *)

Merged == {m \in Seq(Piece) : m # <<>>}

\* What MergeInto makes of merged windows, said without a LET.
LEMMA MergeIntoCases ==
    ASSUME NEW m \in Merged, NEW w \in Piece
    PROVE  /\ Len(m) \in Nat \ {0} /\ m[Len(m)] \in Piece
           /\ MergeInto(m, w) \in Merged
           /\ w.start <= m[Len(m)].end =>
                /\ Len(MergeInto(m, w)) = Len(m)
                /\ \A i \in 1..Len(m)-1 : MergeInto(m, w)[i] = m[i]
                /\ MergeInto(m, w)[Len(m)].start = m[Len(m)].start
                /\ MergeInto(m, w)[Len(m)].end =
                     IF m[Len(m)].end <= w.end THEN w.end ELSE m[Len(m)].end
           /\ ~(w.start <= m[Len(m)].end) =>
                /\ Len(MergeInto(m, w)) = Len(m) + 1
                /\ \A i \in 1..Len(m) : MergeInto(m, w)[i] = m[i]
                /\ MergeInto(m, w)[Len(m)+1] = w
<1> DEFINE n == Len(m)
           last == m[n]
<1>1. n \in Nat \ {0} /\ m \in Seq(Piece) /\ last \in Piece
  BY DEF Merged
<1>2. /\ last.start \in 0..Day-1 /\ last.end \in 0..Day /\ last.start <= last.end
      /\ w.start \in 0..Day-1 /\ w.end \in 0..Day /\ w.start <= w.end
  BY <1>1 DEF Piece, Window
<1>3. CASE w.start <= last.end
  <2> DEFINE top == IF last.end <= w.end THEN w.end ELSE last.end
  <2>1. Max({last.end, w.end}) = top
    <3> DEFINE s == {last.end, w.end}
    <3>1. top \in s /\ \A x \in s : top >= x
      BY <1>2, DayAssumption
    <3>2. \A x, y \in s : x >= y /\ y >= x => x = y
      BY <1>2, DayAssumption
    <3> HIDE DEF s, top
    <3>3. Max(s) \in s /\ \A x \in s : Max(s) >= x
      BY <3>1 DEF Max
    <3>4. Max(s) = top
      BY <3>1, <3>2, <3>3
    <3> QED BY <3>4 DEF s
  <2> DEFINE new == [last EXCEPT !.end = top]
  <2>2. new \in Piece /\ new.start = last.start /\ new.end = top
    <3>1. last \in Window
      BY <1>1 DEF Piece
    <3>2. top \in 0..Day /\ last.start <= top
      BY <1>2, DayAssumption
    <3> HIDE DEF top
    <3>3. new \in Window /\ new.start = last.start /\ new.end = top
      BY <3>1, <3>2 DEF Window
    <3> QED BY <3>2, <3>3 DEF Piece
  <2>3. MergeInto(m, w) = [m EXCEPT ![n] = new]
    <3>1. MergeInto(m, w) = [m EXCEPT ![n].end = Max({last.end, w.end})]
      BY <1>3 DEF MergeInto
    <3> QED BY <2>1, <3>1
  <2> HIDE DEF new, top
  <2>4. /\ [m EXCEPT ![n] = new] \in Seq(Piece)
        /\ Len([m EXCEPT ![n] = new]) = n
        /\ [m EXCEPT ![n] = new][n] = new
        /\ \A i \in 1..n-1 : [m EXCEPT ![n] = new][i] = m[i]
    BY <1>1, <2>2
  <2>5. MergeInto(m, w) \in Merged
    <3> DEFINE r == MergeInto(m, w)
    <3>1. r \in Seq(Piece) /\ Len(r) = n
      BY <2>3, <2>4
    <3> HIDE DEF r
    <3>2. r \in Merged
      BY <1>1, <3>1 DEF Merged
    <3> QED BY <3>2 DEF r
  <2> QED BY <1>1, <1>3, <2>2, <2>3, <2>4, <2>5 DEF top
<1>4. CASE ~(w.start <= last.end)
  <2>1. MergeInto(m, w) = Append(m, w)
    BY <1>4 DEF MergeInto
  <2>2. /\ Append(m, w) \in Seq(Piece) /\ Len(Append(m, w)) = n+1
        /\ Append(m, w)[n+1] = w
        /\ \A i \in 1..n : Append(m, w)[i] = m[i]
    BY <1>1
  <2>3. MergeInto(m, w) \in Merged
    BY <1>1, <2>1, <2>2 DEF Merged
  <2> QED BY <1>1, <1>4, <2>1, <2>2, <2>3
<1> QED BY <1>3, <1>4

\* One more window in order: the merged ones stay resolved, begin no later
\* than it, and cover what they did and what it covers.
LEMMA MergeIntoCovers ==
    ASSUME NEW m \in Merged, Resolved(m), NEW w \in Piece,
           m[Len(m)].start <= w.start
    PROVE  /\ Resolved(MergeInto(m, w))
           /\ MergeInto(m, w)[Len(MergeInto(m, w))].start <= w.start
           /\ \A t \in Nat :
                 ActiveAt(MergeInto(m, w), t) <=> ActiveAt(m, t) \/ Covers(w, t)
<1> DEFINE n == Len(m)
           last == m[n]
           r == MergeInto(m, w)
<1>1. n \in Nat \ {0} /\ last \in Piece /\ r \in Merged
  BY MergeIntoCases
<1>2. /\ \A i \in 1..n : m[i] \in Piece /\ DOMAIN m = 1..n
      /\ \A i, j \in 1..n : i < j => m[i].end < m[j].start
  BY DEF Resolved, Merged
<1>3. \A v \in Piece : /\ v \in Window /\ v.start \in 0..Day-1 /\ v.end \in 0..Day
                       /\ v.start <= v.end /\ v.start \in Int /\ v.end \in Int
  BY DayAssumption DEF Piece, Window
<1>4. r \in Seq(Piece) /\ r \in Seq(Window) /\ DOMAIN r = 1..Len(r)
  <2>1. r \in Seq(Piece)
    BY <1>1 DEF Merged
  <2> HIDE DEF r
  <2> QED BY <1>3, <2>1
<1>5. CASE w.start <= last.end
  <2>1. /\ Len(r) = n
        /\ \A i \in 1..n-1 : r[i] = m[i]
        /\ r[n].start = last.start
        /\ r[n].end = IF last.end <= w.end THEN w.end ELSE last.end
    BY <1>5, MergeIntoCases
  <2>2. r[n] \in Piece
    BY <1>1, <1>4, <2>1
  <2> HIDE DEF r
  <2>3. \A i \in 1..n : r[i].start <= r[i].end
    <3>1. \A i \in 1..n : r[i] \in Piece
      BY <1>4, <2>1
    <3> QED BY <1>3, <3>1
  <2>4. ASSUME NEW i \in 1..n, NEW j \in 1..n, i < j PROVE r[i].end < r[j].start
    <3>1. i \in 1..n-1 /\ r[i].end = m[i].end
      BY <1>1, <2>1, <2>4
    <3>2. r[j].start = m[j].start
      <4>1. j \in 1..n-1 \/ j = n
        BY <1>1
      <4> QED BY <2>1, <4>1
    <3> QED BY <1>2, <2>4, <3>1, <3>2
  <2>5. Resolved(r)
    BY <1>4, <2>1, <2>3, <2>4 DEF Resolved
  <2>6. \A t \in Nat : Covers(r[n], t) <=> Covers(last, t) \/ Covers(w, t)
    <3> TAKE t \in Nat
    <3>1. MinuteOf(t) \in Int
      BY MinuteRange
    <3> QED BY <1>1, <1>3, <1>5, <2>1, <3>1 DEF Covers
  <2>7. \A t \in Nat : ActiveAt(r, t) <=> ActiveAt(m, t) \/ Covers(w, t)
    <3>1. \A i \in 1..n : i \in 1..n-1 \/ i = n
      BY <1>1
    <3>2. n \in 1..n /\ \A i \in 1..n-1 : i \in 1..n
      BY <1>1
    <3> QED BY <1>2, <1>4, <2>1, <2>6, <3>1, <3>2 DEF ActiveAt
  <2>8. r[Len(r)].start <= w.start
    BY <2>1
  <2> QED BY <2>5, <2>7, <2>8 DEF r
<1>6. CASE ~(w.start <= last.end)
  <2>1. /\ Len(r) = n+1
        /\ \A i \in 1..n : r[i] = m[i]
        /\ r[n+1] = w
    BY <1>6, MergeIntoCases
  <2> HIDE DEF r
  <2>3. \A i \in 1..n+1 : r[i].start <= r[i].end
    <3>1. \A i \in 1..n+1 : r[i] \in Piece
      BY <1>4, <2>1
    <3> QED BY <1>3, <3>1
  <2>4. ASSUME NEW i \in 1..n+1, NEW j \in 1..n+1, i < j PROVE r[i].end < r[j].start
    <3>1. i \in 1..n /\ r[i].end = m[i].end
      BY <1>1, <2>1, <2>4
    <3>2. CASE j \in 1..n
      BY <1>2, <2>1, <2>4, <3>1, <3>2
    <3>3. CASE j = n+1
      <4>1. r[j].start = w.start /\ last.end < w.start
        BY <1>1, <1>3, <1>6, <2>1, <3>3
      <4>2. i = n \/ m[i].end < last.start
        BY <1>1, <1>2, <3>1
      <4>3. m[i].end \in Int /\ last.start \in Int /\ last.end \in Int /\ w.start \in Int
            /\ last.start <= last.end
        BY <1>1, <1>2, <1>3, <3>1
      <4> QED BY <3>1, <4>1, <4>2, <4>3
    <3> QED BY <1>1, <3>2, <3>3
  <2>5. Resolved(r)
    BY <1>4, <2>1, <2>3, <2>4 DEF Resolved
  <2>7. \A t \in Nat : ActiveAt(r, t) <=> ActiveAt(m, t) \/ Covers(w, t)
    <3>1. \A i \in 1..n+1 : i \in 1..n \/ i = n+1
      BY <1>1
    <3>2. n+1 \in 1..n+1 /\ \A i \in 1..n : i \in 1..n+1
      BY <1>1
    <3> QED BY <1>2, <1>4, <2>1, <3>1, <3>2 DEF ActiveAt
  <2>8. r[Len(r)].start <= w.start
    BY <1>3, <2>1
  <2> QED BY <2>5, <2>7, <2>8 DEF r
<1> QED BY <1>5, <1>6

\* The loop of mergeHoldoutWindows, window by window.
MergeRun(m, b, q) ==
    /\ m[0] = b
    /\ \A k \in 1..Len(q) : m[k] = MergeInto(m[k-1], q[k])

\* FoldLeft runs it.
LEMMA MergeRuns ==
    ASSUME NEW b \in Merged, NEW q \in Seq(Piece)
    PROVE  \E m : MergeRun(m, b, q) /\ FoldLeft(MergeInto, b, q) = m[Len(q)]
<1> DEFINE n == Len(q)
           g == [p \in Merged \X (1..n) |-> MergeInto(p[1], q[p[2]])]
           IsIter(it) ==
             it = [s \in SUBSET DOMAIN q |->
                     IF s = {} THEN b ELSE MergeInto(it[s \ {Max(s)}], q[Max(s)])]
           iter == CHOOSE it : IsIter(it)
<1>1. n \in Nat /\ DOMAIN q = 1..n /\ \A i \in 1..n : q[i] \in Piece
  OBVIOUS
<1>2. IsStep(g, b, n, Merged)
  <2>1. ASSUME NEW p \in Merged \X (1..n) PROVE MergeInto(p[1], q[p[2]]) \in Merged
    <3>1. p[1] \in Merged /\ q[p[2]] \in Piece
      BY <1>1
    <3> QED BY <3>1, MergeIntoCases
  <2>2. g \in [Merged \X (1..n) -> Merged]
    BY <2>1
  <2> QED BY <2>2 DEF IsStep
<1>3. PICK f : Folds(f, g, b, n, Merged)
  <2> HIDE DEF g, n
  <2> QED BY <1>1, <1>2, FoldExists
<1>4. IsIter(f)
  <2>1. f \in [SUBSET (1..n) -> Merged]
    BY <1>3 DEF Folds
  <2>2. ASSUME NEW s \in SUBSET (1..n)
        PROVE  f[s] = IF s = {} THEN b ELSE MergeInto(f[s \ {Max(s)}], q[Max(s)])
    <3>1. f[s] = IF s = {} THEN b ELSE g[<<f[s \ {Max(s)}], Max(s)>>]
      <4> HIDE DEF g
      <4> QED BY <1>3 DEF Folds
    <3>2. CASE s = {}
      BY <3>1, <3>2
    <3>3. CASE s # {}
      <4> DEFINE top == Max(s)
      <4>1. top \in 1..n
        <5> HIDE DEF n, g
        <5>1. Max(s) \in s
          BY <1>1, <3>3, MaxUpTo
        <5> QED BY <5>1
      <4> HIDE DEF top
      <4>2. f[s \ {top}] \in Merged
        BY <2>1
      <4>3. g[<<f[s \ {top}], top>>] = MergeInto(f[s \ {top}], q[top])
        BY <4>1, <4>2
      <4> HIDE DEF g
      <4> QED BY <3>1, <3>3, <4>3 DEF top
    <3> QED BY <3>2, <3>3
  <2> HIDE DEF g, n
  <2> QED BY <1>1, <2>1, <2>2
<1>5. IsIter(iter)
  <2> HIDE DEF IsIter
  <2> QED BY <1>4
<1>6. FoldLeft(MergeInto, b, q) = iter[1..n]
  <2>1. FoldLeft(MergeInto, b, q) = iter[DOMAIN q]
    BY DEF FoldLeft, MapThenFoldSet
  <2> QED BY <1>1, <2>1
<1> HIDE DEF iter, g
<1> DEFINE m == [k \in 0..n |-> iter[1..k]]
<1>7. m[0] = b
  <2>1. 1..0 = {} /\ 1..0 \in SUBSET DOMAIN q
    OBVIOUS
  <2>2. iter[1..0] = b
    BY <1>5, <2>1
  <2>3. 0 \in 0..n
    BY <1>1
  <2> QED BY <2>2, <2>3
<1>8. ASSUME NEW k \in 1..n PROVE m[k] = MergeInto(m[k-1], q[k])
  <2> DEFINE s == 1..k
  <2>1. k-1 \in 0..n /\ k \in 0..n /\ k \in Nat /\ k \in s /\ s \in SUBSET (1..n)
    BY <1>1
  <2>2. Max(s) = k /\ s \ {k} = 1..(k-1) /\ s # {}
    <3>1. k \in Nat \ {0}
      BY <2>1
    <3> QED BY <3>1, MaxRange, Zenon
  <2>4. iter[s] = IF s = {} THEN b ELSE MergeInto(iter[s \ {Max(s)}], q[Max(s)])
    <3> HIDE DEF s
    <3> QED BY <1>1, <1>5, <2>1
  <2>5. iter[s] = MergeInto(iter[1..(k-1)], q[k])
    <3> HIDE DEF s
    <3> QED BY <2>2, <2>4
  <2>6. m[k] = iter[s] /\ m[k-1] = iter[1..(k-1)]
    BY <2>1
  <2> HIDE DEF m, s
  <2> QED BY <2>5, <2>6
<1>9. m[n] = iter[1..n]
  BY <1>1
<1>10. MergeRun(m, b, q)
  <2> HIDE DEF m
  <2> QED BY <1>7, <1>8 DEF MergeRun
<1> HIDE DEF m
<1> QED BY <1>6, <1>9, <1>10

\* What mergeHoldoutWindows returns is resolved, and covers what it was given.
LEMMA MergeCovers ==
    ASSUME NEW ws \in Seq(Piece)
    PROVE  /\ Resolved(Merge(ws))
           /\ \A t \in Nat : ActiveAt(Merge(ws), t)
                               <=> \E w : In(w, ws) /\ Covers(w, t)
<1>1. CASE ws = <<>>
  <2>1. Merge(ws) = <<>> /\ \A w : ~In(w, ws)
    BY <1>1 DEF Merge, In
  <2>2. Resolved(<<>>) /\ \A t : ~ActiveAt(<<>>, t)
    BY DEF Resolved, ActiveAt
  <2> QED BY <2>1, <2>2
<1>2. CASE ws # <<>>
  <2> DEFINE s == Sorted(ws)
             b == <<Head(s)>>
             q == Tail(s)
             n == Len(q)
  <2>1. /\ s \in Seq(Piece) /\ Len(s) = Len(ws) /\ \A w : In(w, s) <=> In(w, ws)
        /\ \A i, j \in 1..Len(ws) : i < j => s[i].start <= s[j].start
    BY SortedOrders
  <2>2. Merge(ws) = FoldLeft(MergeInto, b, q)
    BY <1>2 DEF Merge
  <2> HIDE DEF s
  <2>3. Len(s) \in Nat \ {0} /\ Len(ws) \in Nat
    BY <1>2, <2>1
  <2>4. /\ q \in Seq(Piece) /\ n \in Nat /\ Len(s) = n+1 /\ b = <<s[1]>>
        /\ \A k \in 1..n : q[k] = s[k+1]
        /\ s[1] \in Piece
    BY <2>1, <2>3
  <2> HIDE DEF b, q, n
  <2>5. b \in Merged /\ Len(b) = 1 /\ b[1] = s[1]
    BY <2>4 DEF Merged
  <2>6. PICK m : MergeRun(m, b, q) /\ FoldLeft(MergeInto, b, q) = m[n]
    BY <2>4, <2>5, MergeRuns DEF n
  <2> DEFINE CoveredTo(k, t) == \E i \in 1..k : Covers(s[i], t)
             Good(k) ==
               /\ m[k] \in Merged /\ Resolved(m[k])
               /\ m[k][Len(m[k])].start <= s[k+1].start
               /\ \A t \in Nat : ActiveAt(m[k], t) <=> CoveredTo(k+1, t)
             K == {k \in 0..n : Good(k)}
  <2> HIDE DEF CoveredTo
  <2>7. Good(0)
    <3>1. m[0] = b
      BY <2>6 DEF MergeRun
    <3>2. s[1] \in Window /\ s[1].start <= s[1].end /\ s[1].start \in Int
      BY <2>4 DEF Piece, Window
    <3>3. Resolved(b)
      BY <2>5, <2>4, <3>2 DEF Resolved
    <3>4. \A t : ActiveAt(b, t) <=> CoveredTo(1, t)
      BY <2>4 DEF ActiveAt, CoveredTo
    <3>5. b[Len(b)].start <= s[1].start
      BY <2>5, <3>2
    <3>6. 0+1 = 1
      OBVIOUS
    <3> QED BY <2>5, <3>1, <3>3, <3>4, <3>5, <3>6
  <2>8. ASSUME NEW k \in 0..n-1, k \in K PROVE k+1 \in K
    <3> DEFINE j == k+1
               w == s[j+1]
    <3>1. /\ j \in 1..n /\ j \in 0..n /\ j-1 = k /\ j+1 \in 1..Len(ws)
          /\ j \in 1..Len(ws) /\ j < j+1
          /\ \A i : i \in 1..(j+1) <=> i \in 1..j \/ i = j+1
      BY <2>1, <2>4
    <3>2. w \in Piece /\ q[j] = w
      <4>1. q[j] = w
        BY <2>4, <3>1
      <4>2. q[j] \in Piece
        BY <2>4, <3>1 DEF n
      <4> QED BY <4>1, <4>2
    <3>3. /\ m[k] \in Merged /\ Resolved(m[k])
          /\ m[k][Len(m[k])].start <= s[j].start
          /\ \A t \in Nat : ActiveAt(m[k], t) <=> CoveredTo(j, t)
      BY <2>8
    <3>4. s[j].start <= w.start
      BY <2>1, <3>1
    <3> HIDE DEF j, w, K
    <3>5. s[j].start \in Int /\ w.start \in Int /\ m[k][Len(m[k])].start \in Int
      <4>1. \A v \in Piece : v.start \in Int
        BY DEF Piece, Window
      <4>2. s[j] \in Piece
        BY <2>1, <3>1
      <4>3. m[k][Len(m[k])] \in Piece
        BY <3>2, <3>3, MergeIntoCases
      <4> QED BY <3>2, <4>1, <4>2, <4>3
    <3>6. m[k][Len(m[k])].start <= w.start
      BY <3>3, <3>4, <3>5
    <3>7. m[j] = MergeInto(m[k], w)
      <4>1. m[j] = MergeInto(m[j-1], q[j])
        BY <2>6, <3>1 DEF MergeRun, n
      <4> QED BY <3>1, <3>2, <4>1
    <3>8. /\ m[j] \in Merged /\ Resolved(m[j])
          /\ m[j][Len(m[j])].start <= w.start
          /\ \A t \in Nat : ActiveAt(m[j], t) <=> ActiveAt(m[k], t) \/ Covers(w, t)
      <4>1. m[j] \in Merged
        BY <3>2, <3>3, <3>7, MergeIntoCases
      <4> QED BY <3>2, <3>3, <3>6, <3>7, <4>1, MergeIntoCovers
    <3>9. \A t : CoveredTo(j+1, t) <=> CoveredTo(j, t) \/ Covers(w, t)
      BY <3>1 DEF CoveredTo, w
    <3>10. Good(j)
      BY <3>3, <3>8, <3>9 DEF w
    <3>11. j \in K
      <4> HIDE DEF Good
      <4> QED BY <3>1, <3>10 DEF K
    <3> QED BY <3>11 DEF j
  <2>9. Good(n)
    <3>1. 0 \in K
      <4> HIDE DEF Good
      <4> QED BY <2>4, <2>7
    <3> HIDE DEF K, Good
    <3>2. Inductive(K, n)
      BY <2>8, <3>1 DEF Inductive
    <3>3. n \in K
      BY <2>4, <3>2, UpTo
    <3> QED BY <3>3 DEF K
  <2>10. \A t \in Nat : ActiveAt(m[n], t) <=> \E w : In(w, ws) /\ Covers(w, t)
    <3>1. \A t : CoveredTo(n+1, t) <=> \E w : In(w, s) /\ Covers(w, t)
      BY <2>4 DEF CoveredTo, In
    <3> QED BY <2>1, <2>9, <3>1
  <2> QED BY <2>2, <2>6, <2>9, <2>10
<1> QED BY <1>1, <1>2

----------------------------------------------------------------------------
(* The layers *)

Asked(t) == \E i \in DOMAIN Chosen : Asks(Chosen[i], t)

AllValid == \A i \in DOMAIN Chosen : ~Invalid(Chosen[i])

\* The windows a repo is loaded with hold it out when its entries ask for it.
LEMMA LoadedWindows ==
    ASSUME layers \in [Layers -> Seq(Entry)], AllValid
    PROVE  LET ws == Merge(FlattenSeq([i \in DOMAIN Chosen |-> Split(Chosen[i])]))
           IN  Resolved(ws) /\ \A t \in Nat : ActiveAt(ws, t) <=> Asked(t)
<1> DEFINE n == Len(Chosen)
           qs == [i \in DOMAIN Chosen |-> Split(Chosen[i])]
           flat == FlattenSeq(qs)
<1>1. Chosen \in Seq(Entry)
  BY DEF Chosen, Layers
<1>2. n \in Nat /\ DOMAIN Chosen = 1..n /\ \A i \in 1..n : Chosen[i] \in Entry
  BY <1>1
<1>3. \A i \in 1..n : qs[i] = Split(Chosen[i]) /\ ~Invalid(Chosen[i])
  BY <1>2 DEF AllValid
<1>4. \A i \in 1..n : /\ qs[i] \in Seq(Piece)
                      /\ \A t \in Nat : Asks(Chosen[i], t)
                                          <=> \E w : In(w, qs[i]) /\ Covers(w, t)
  <2> TAKE i \in 1..n
  <2> HIDE DEF qs
  <2> QED BY <1>2, <1>3, SplitCovers
<1>5. Pieces(qs, n, Piece)
  <2>1. Len(qs) = n
    BY <1>2
  <2>2. n = 0 => qs = <<>>
    BY <1>2
  <2> HIDE DEF qs, n
  <2> QED BY <1>2, <1>4, <2>1, <2>2 DEF Pieces
<1>6. flat \in Seq(Piece) /\ \A w : In(w, flat) <=> \E i \in 1..n : In(w, qs[i])
  <2> HIDE DEF qs, n
  <2> QED BY <1>5, FlattenElements
<1> HIDE DEF flat, qs
<1>7. /\ Resolved(Merge(flat))
      /\ \A t \in Nat : ActiveAt(Merge(flat), t) <=> \E w : In(w, flat) /\ Covers(w, t)
  BY <1>6, MergeCovers
<1>8. \A t \in Nat : Asked(t) <=> \E w : In(w, flat) /\ Covers(w, t)
  <2> HIDE DEF n
  <2> QED BY <1>2, <1>4, <1>6, Zenon DEF Asked
<1> QED BY <1>7, <1>8 DEF flat, qs

----------------------------------------------------------------------------
(* The invariant *)

\* A repo that is loaded was asked nothing invalid and holds out as its entries
\* ask at every instant, not just those the clock has reached.
AtEveryInstant ==
    /\ Resolved(windows)
    /\ outcome = "loaded" =>
          AllValid /\ \A t \in Nat : ActiveAt(windows, t) <=> Asked(t)

HInv == TypeOK /\ AtEveryInstant

LEMMA InitHInv == Init => HInv
<1> SUFFICES ASSUME Init PROVE HInv
  OBVIOUS
<1>1. layers \in [Layers -> Seq(Entry)]
  BY WrittenAssumption DEF Init, Layers
<1>2. windows = <<>> /\ Resolved(<<>>) /\ outcome = "pending"
  BY DEF Init, Resolved
<1>3. now \in 0..Horizon
  BY HorizonAssumption DEF Init
<1> QED BY <1>1, <1>2, <1>3 DEF HInv, TypeOK, AtEveryInstant

LEMMA NextHInv == HInv /\ [Next]_vars => HInv'
<1> SUFFICES ASSUME HInv, [Next]_vars PROVE HInv'
  OBVIOUS
<1> USE DEF HInv
<1>1. CASE Resolve
  <2>1. UNCHANGED <<layers, now>> /\ Chosen' = Chosen
    BY <1>1 DEF Resolve, Chosen
  <2>3. CASE AllValid
    <3> DEFINE ws == Merge(FlattenSeq([i \in DOMAIN Chosen |-> Split(Chosen[i])]))
    <3>1. outcome' = "loaded" /\ windows' = ws
      BY <1>1, <2>3 DEF Resolve, AllValid
    <3>2. Resolved(ws) /\ \A t \in Nat : ActiveAt(ws, t) <=> Asked(t)
      BY <2>3, LoadedWindows DEF TypeOK
    <3> HIDE DEF ws
    <3>3. TypeOK'
      BY <2>1, <3>1, <3>2 DEF TypeOK, Resolved
    <3>4. AtEveryInstant'
      BY <2>1, <2>3, <3>1, <3>2 DEF AtEveryInstant, AllValid, Asked
    <3> QED BY <3>3, <3>4
  <2>4. CASE ~AllValid
    <3>1. outcome' = "refused" /\ windows' = windows
      BY <1>1, <2>4 DEF Resolve, AllValid
    <3> QED BY <2>1, <3>1 DEF TypeOK, AtEveryInstant
  <2> QED BY <2>3, <2>4
<1>2. CASE Tick
  <2>1. UNCHANGED <<layers, outcome, windows>> /\ Chosen' = Chosen
    BY <1>2 DEF Tick, Chosen
  <2>2. now' \in 0..Horizon
    BY <1>2, HorizonAssumption DEF Tick, TypeOK
  <2> QED BY <2>1, <2>2 DEF TypeOK, AtEveryInstant, AllValid, Asked
<1>3. CASE UNCHANGED vars
  <2>1. UNCHANGED <<layers, outcome, windows, now>> /\ Chosen' = Chosen
    BY <1>3 DEF vars, Chosen
  <2> QED BY <2>1 DEF TypeOK, AtEveryInstant, AllValid, Asked
<1> QED BY <1>1, <1>2, <1>3 DEF Next

LEMMA AlwaysHInv == Spec => []HInv
BY InitHInv, NextHInv, PTL DEF Spec

----------------------------------------------------------------------------
(* Theorems *)

\* Resolve and the clock keep every variable in its type; in particular no
\* resolved window leaves the day.
THEOREM HoldoutTypeCorrect == Spec => []TypeOK
BY AlwaysHInv, PTL DEF HInv

\* Whatever entries overlap, nest, touch or cross midnight in whatever order,
\* the agent starts with windows that are sorted, disjoint and apart
\* (config/holdout.go:62-94).
THEOREM LoadedAreResolved == Spec => []LoadedIsResolved
<1>1. HInv => LoadedIsResolved
  BY DEF HInv, AtEveryInstant, LoadedIsResolved
<1> QED BY <1>1, AlwaysHInv, PTL

\* For any number of entries of any length of day, the agent is held out at
\* exactly the instants for which the winning layer asks
\* (config/holdout.go:12-94).
THEOREM HeldOutAsAsked == Spec => []HoldsOutAsAsked
<1>1. HInv => HoldsOutAsAsked
  <2>1. HInv => now \in Nat
    BY HorizonAssumption DEF HInv, TypeOK
  <2> QED BY <2>1 DEF HInv, AtEveryInstant, HoldsOutAsAsked, Asked
<1> QED BY <1>1, AlwaysHInv, PTL

\* Over the windows of any configuration, the scheduler never waits past a
\* boundary (agent.go:1045-1071, 1152-1172).
THEOREM BoundariesAreMet == Spec => []NoBoundaryMissed
<1>1. HInv => NoBoundaryMissed
  <2>1. HInv => now \in Nat
    BY HorizonAssumption DEF HInv, TypeOK
  <2> QED
    BY <2>1, NextTransitionIsFirst DEF HInv, AtEveryInstant, NoBoundaryMissed
<1> QED BY <1>1, AlwaysHInv, PTL
=============================================================================
