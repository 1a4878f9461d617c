----------------------------- MODULE PhaseGate -----------------------------
(***************************************************************************)
(* What an agent promises about interruption, without clocks, timers,      *)
(* channels or locks (docs/current/sync-loop.md, "interruption"): a worker *)
(* passes the stages of a cycle in order, each at most once, and begins    *)
(* none of them while anything asks it to hold.  It may leave off at any   *)
(* time.  Whoever asks never moves the worker, and no step of the worker   *)
(* takes away a reason to hold.                                            *)
(***************************************************************************)
EXTENDS Naturals

CONSTANTS
    Last,       \* the stages of a cycle are 1..Last; 0 is rest
    Reasons,    \* what can ask the worker to hold
    AtOnce      \* pairs of stages that follow each other without a look

VARIABLES
    stage,      \* the stage the worker is in
    holds       \* the reasons to hold that stand

vars == <<stage, holds>>

Init == stage = 0 /\ holds \in SUBSET Reasons

\* The next stage, or the first one.
Advance ==
    /\ stage' \in (stage + 1)..Last
    /\ holds = {} \/ <<stage, stage'>> \in AtOnce
    /\ UNCHANGED holds

\* The cycle is over: completed, held, failed or canceled.
Leave == stage' = 0 /\ UNCHANGED holds

\* Reasons come and go: a window, a snooze, a resume, a shutdown, time.
Ask == holds' \in SUBSET Reasons /\ UNCHANGED stage

\* The worker dies and is started again: what it was asked is forgotten.
Restart == stage' = 0 /\ holds' \in SUBSET holds

Next == Advance \/ Leave \/ Ask \/ Restart

Spec == Init /\ [][Next]_vars
=============================================================================
