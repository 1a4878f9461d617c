---------------------------- MODULE HoldoutConfig ----------------------------
(***************************************************************************)
(* How a repo's holdout windows are resolved (internal/config/holdout.go): *)
(* one layer of configuration wins, its entries are checked, split at      *)
(* midnight, sorted and merged.  The result is what an agent is started    *)
(* with; the clock then runs over it, as the agent reads it                *)
(* (HoldoutClock).                                                         *)
(***************************************************************************)
EXTENDS HoldoutClock, SequencesExt

CONSTANTS
    Written,    \* for each layer, the lists of entries it may hold
    Horizon     \* the clock stops here: bounds the run, not the program

Layers == {"local", "entry", "defaults"}

\* A time that is empty or that parseClockMinute cannot read.
Unreadable == -1

\* HoldoutWindowEntry, its times as minutes since midnight.  A null entry is
\* refused like one without times.
Entry == [start : {Unreadable} \union 0..Day-1,
          end : {Unreadable} \union 0..Day-1]

ASSUME WrittenAssumption ==
    /\ DOMAIN Written = Layers
    /\ \A l \in Layers : Written[l] \subseteq Seq(Entry)
ASSUME HorizonAssumption == Horizon \in Nat

VARIABLES
    layers,     \* the three lists of entries
    outcome,    \* of Resolve: "pending", "loaded" or "refused"
    windows,    \* ResolvedRepo.HoldoutWindows
    now         \* the agent's clock, in ticks since a midnight

vars == <<layers, outcome, windows, now>>

TypeOK ==
    /\ layers \in [Layers -> Seq(Entry)]
    /\ outcome \in {"pending", "loaded", "refused"}
    /\ windows \in Seq(Window)
    /\ now \in 0..Horizon

----------------------------------------------------------------------------

\* Lists replace, they do not merge: the first layer that has any entry.
Chosen ==
    IF layers.local # <<>> THEN layers.local
    ELSE IF layers.entry # <<>> THEN layers.entry ELSE layers.defaults

Invalid(e) ==
    \/ Unreadable \in {e.start, e.end}
    \/ e.start = e.end

\* Mutant: a window that crosses midnight is kept whole.
SplitNever(e) ==
    <<[start |-> e.start,
       end |-> IF e.end > e.start THEN e.end ELSE Day + e.end]>>

\* A window that crosses midnight becomes two, so that none wraps around.
Split(e) ==
    IF e.end > e.start
      THEN <<[start |-> e.start, end |-> e.end]>>
      ELSE <<[start |-> 0, end |-> e.end], [start |-> e.start, end |-> Day]>>

Before(v, w) == v.start < w.start \/ (v.start = w.start /\ v.end < w.end)

\* Mutant: a window that touches the last one is not merged with it.
MergeIntoOverlapOnly(merged, w) ==
    LET last == merged[Len(merged)]
    IN  IF w.start < last.end
          THEN [merged EXCEPT ![Len(merged)].end = Max({last.end, w.end})]
          ELSE Append(merged, w)

\* Mutant: the last window ends where the merged one does, nested or not.
MergeIntoShrinking(merged, w) ==
    IF w.start <= merged[Len(merged)].end
      THEN [merged EXCEPT ![Len(merged)].end = w.end]
      ELSE Append(merged, w)

\* The loop body of mergeHoldoutWindows: extend the last window, or append.
MergeInto(merged, w) ==
    LET last == merged[Len(merged)]
    IN  IF w.start <= last.end
          THEN [merged EXCEPT ![Len(merged)].end = Max({last.end, w.end})]
          ELSE Append(merged, w)

\* sort.Slice: some order in which no window comes before an earlier one.
Sorted(ws) ==
    LET order == CHOOSE p \in Bijection(DOMAIN ws, DOMAIN ws) :
                    \A i, j \in DOMAIN ws : i < j => ~Before(ws[p[j]], ws[p[i]])
    IN  [i \in DOMAIN ws |-> ws[order[i]]]

\* mergeHoldoutWindows
Merge(ws) ==
    IF ws = <<>> THEN <<>>
    ELSE FoldLeft(MergeInto, <<Head(Sorted(ws))>>, Tail(Sorted(ws)))

\* resolveHoldoutWindows
Resolve ==
    /\ outcome = "pending"
    /\ IF \E i \in DOMAIN Chosen : Invalid(Chosen[i])
         THEN outcome' = "refused" /\ UNCHANGED windows
         ELSE /\ outcome' = "loaded"
              /\ windows' = Merge(FlattenSeq([i \in DOMAIN Chosen |->
                                                Split(Chosen[i])]))
    /\ UNCHANGED <<layers, now>>

\* A repo whose configuration is refused is skipped: no agent, no clock.
Tick ==
    /\ outcome = "loaded"
    /\ now < Horizon
    /\ now' = now + 1
    /\ UNCHANGED <<layers, outcome, windows>>

Init ==
    /\ layers \in [local : Written.local, entry : Written.entry,
                  defaults : Written.defaults]
    /\ outcome = "pending"
    /\ windows = <<>>
    /\ now = 0

Next == Resolve \/ Tick

Spec == Init /\ [][Next]_vars

----------------------------------------------------------------------------
(* Properties *)

\* What an entry asks for, said without splitting: from its start round the
\* clock to its end.
Asks(e, t) ==
    IF e.start < e.end
      THEN e.start <= MinuteOf(t) /\ MinuteOf(t) < e.end
      ELSE e.start <= MinuteOf(t) \/ MinuteOf(t) < e.end

\* The windows an agent starts with are sorted, disjoint and apart: what its
\* "first window that contains now" and "first start still to come" rely on
\* (config/holdout.go:62-94, agent.go:1134-1172).
LoadedIsResolved == Resolved(windows)

\* Splitting and merging neither lose nor add a minute: at every instant the
\* agent is held out iff some entry of the winning layer asks for it, also
\* across midnight and where entries touch, nest or overlap
\* (config/holdout.go:12-94).
HoldsOutAsAsked ==
    outcome = "loaded" =>
        (ActiveAt(windows, now) <=> \E i \in DOMAIN Chosen : Asks(Chosen[i], now))

\* Whatever was configured, the scheduler's next transition lies ahead and no
\* window begins or ends before it, with the empty [0, 0] window that an end
\* at 00:00 leaves behind, and over midnight (agent.go:1045-1071, 1152-1172).
NoBoundaryMissed ==
    outcome = "loaded" /\ windows # <<>> => MissesNoBoundary(windows, now)
=============================================================================
