--------------------------- MODULE HoldoutDaylight ---------------------------
(***************************************************************************)
(* The day the clocks go forward.  The agent adds a window's minutes to    *)
(* the instant of midnight (agent.go:1140-1143), which counts elapsed      *)
(* time; the wall clock leaves Skip minutes out at Jump.  HoldoutClock's   *)
(* ticks are elapsed minutes, so its verdict is the agent's; this module   *)
(* adds the wall clock the operator reads.                                 *)
(***************************************************************************)
EXTENDS HoldoutClock

CONSTANTS
    Windows,    \* cfg.HoldoutWindows, Resolved
    Jump,       \* the minute of the day at which the clocks go forward
    Skip        \* by how many minutes; Jump + Skip <= Day

VARIABLES
    elapsed,    \* minutes since this day's midnight
    heldOut     \* holdoutStatusAt's verdict at that instant

vars == <<elapsed, heldOut>>

\* time.Local: what a clock on the wall shows.
WallMinute(m) == IF m < Jump THEN m ELSE m + Skip

Init ==
    /\ elapsed = 0
    /\ heldOut = ActiveAt(Windows, 0)

\* A minute passes and the agent asks again; the day is Skip minutes short.
Tick ==
    /\ elapsed + 1 < Day - Skip
    /\ elapsed' = elapsed + 1
    /\ heldOut' = ActiveAt(Windows, elapsed + 1)

Next == Tick

Spec == Init /\ [][Next]_vars

----------------------------------------------------------------------------

\* What docs/current/configuration.md says of windows: they follow the wall
\* clock across a DST transition rather than holding a fixed duration.
WindowsFollowWallClock ==
    heldOut <=> \E i \in DOMAIN Windows :
                   /\ Windows[i].start <= WallMinute(elapsed)
                   /\ WallMinute(elapsed) < Windows[i].end
=============================================================================
