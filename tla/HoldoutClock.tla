---------------------------- MODULE HoldoutClock ----------------------------
(***************************************************************************)
(* Daily holdout windows as the agent reads them: the questions            *)
(* internal/agent/agent.go asks of the resolved windows of a repo          *)
(* (holdoutStatusAt and nextHoldoutTransitionAfter).  Time is an integer   *)
(* count of ticks since a midnight; a day is Day ticks long.  The          *)
(* operators take the windows as a parameter, so that the agent can use    *)
(* them for its own configuration and the configuration module can check   *)
(* them for every configuration.                                           *)
(***************************************************************************)
EXTENDS Integers, Sequences

CONSTANT Day    \* ticks from one midnight to the next (minutesPerDay)

ASSUME DayAssumption == Day \in Nat \ {0}

\* ResolvedHoldoutWindow: minutes since midnight, start included, end not.
\* An end of Day is midnight of the next day.
Window == [start : 0..Day-1, end : 0..Day]

\* What mergeHoldoutWindows leaves: sorted, disjoint and not even touching.
\* A window that ends at 00:00 leaves an empty [0, 0] piece behind.
Resolved(ws) ==
    /\ ws \in Seq(Window)
    /\ \A i \in DOMAIN ws : ws[i].start <= ws[i].end
    /\ \A i, j \in DOMAIN ws : i < j => ws[i].end < ws[j].start

MinuteOf(t) == t % Day

DayStart(t) == t - MinuteOf(t)

Covers(w, t) == w.start <= MinuteOf(t) /\ MinuteOf(t) < w.end

\* The windows of ws whose start is still to come today.
Later(ws, t) == {i \in DOMAIN ws : ws[i].start > MinuteOf(t)}

First(I) == CHOOSE i \in I : \A j \in I : i <= j

\* holdoutStatusAt, its verdict: some window of today contains t.
ActiveAt(ws, t) == \E i \in DOMAIN ws : Covers(ws[i], t)

\* holdoutStatusAt, its instant: the end of the first window that contains t.
ActiveUntil(ws, t) ==
    DayStart(t) + ws[First({i \in DOMAIN ws : Covers(ws[i], t)})].end

\* Mutant: tomorrow's first start is counted from today's midnight.
NextTransitionToday(ws, t) ==
    IF ActiveAt(ws, t) THEN ActiveUntil(ws, t)
    ELSE IF Later(ws, t) # {}
      THEN DayStart(t) + ws[First(Later(ws, t))].start
      ELSE DayStart(t) + ws[1].start

\* nextHoldoutTransitionAfter: the end of the window in force, else the next
\* start today, else the first start of tomorrow.  Asked only when ws # <<>>.
NextTransition(ws, t) ==
    IF ActiveAt(ws, t) THEN ActiveUntil(ws, t)
    ELSE IF Later(ws, t) # {}
      THEN DayStart(t) + ws[First(Later(ws, t))].start
      ELSE DayStart(t) + Day + ws[1].start

\* What the scheduler relies on: the transition it waits for lies ahead, and
\* until then nothing changes.
MissesNoBoundary(ws, t) ==
    /\ NextTransition(ws, t) > t
    /\ \A u \in t..NextTransition(ws, t)-1 : ActiveAt(ws, u) <=> ActiveAt(ws, t)
=============================================================================
