------------------------------- MODULE Agent -------------------------------
(***************************************************************************)
(* One repository's agent (internal/agent/agent.go): the run goroutine     *)
(* with its sync cycle, the holdout scheduler goroutine, and the control   *)
(* plane's calls TriggerSync, Snooze, Resume and Stop, which meet under    *)
(* one mutex.                                                              *)
(*                                                                         *)
(* A critical section of a.mu is one action: it reads the clock and the    *)
(* fields and writes the fields in one step.  Code of the run goroutine    *)
(* outside the mutex is split where another goroutine can come between.    *)
(* External commands (git, the hooks, the LLM) are phases that end in an   *)
(* outcome the environment chooses.                                        *)
(***************************************************************************)
EXTENDS HoldoutClock

CONSTANTS
    Clients,        \* control-plane callers that may be inside Resume
    Windows,        \* cfg.HoldoutWindows
    CommitPolicy,   \* cfg.CommitPolicy
    ErrorTexts,     \* the rendered details setError can store
    Durations,      \* snooze durations a caller can ask for, in ticks
    Horizon,        \* the clock stops here: bounds the run, not the program
    Faults          \* which of FaultKinds the environment may commit

FaultKinds == {"abortFails", "conflictUnrecognised", "crash"}

NoDetail == ""

Recovered == "recovered from error"    \* the alert, never an error detail

ASSUME WindowsAssumption == Resolved(Windows)
ASSUME PolicyAssumption == CommitPolicy \in {"all", "regions", "none"}
ASSUME TextsAssumption == {NoDetail, Recovered} \intersect ErrorTexts = {}
ASSUME DurationsAssumption == Durations \subseteq Nat
ASSUME HorizonAssumption == Horizon \in Nat
ASSUME FaultsAssumption == Faults \subseteq FaultKinds

VARIABLES
    now,        \* a.now(): ticks since the midnight before the agent started
    agent,      \* the fields a.mu guards
    syncCh,     \* the one-deep request channel holds a request
    stop,       \* Stop: "running", run context "canceled", stopCh "closed"
    pc,         \* where the run goroutine is
    listening,  \* snoozeCh, as run captured it, is the current timer's channel
    cycle,      \* the locals of sync()
    sched,      \* the holdout scheduler goroutine
    resuming,   \* callers in Resume between the unlock and the send
    told,       \* the error the operator was last alerted to, if not withdrawn
    rebasing    \* the repository is in the middle of a rebase

vars == <<now, agent, syncCh, stop, pc, listening, cycle, sched, resuming,
          told, rebasing>>

----------------------------------------------------------------------------
(* Types *)

ZeroTime == -1    \* time.Time{}: before every instant the clock shows

States == {"watching", "syncing", "error", "snoozed", "holdout", "attention"}

\* The kinds of attention detail: unselected paths, and whether any is tracked.
Attentions == {NoDetail, "untracked", "tracked"}

\* Every instant an agent can hold: a snooze end or a window boundary.
Instants == {ZeroTime} \union Nat

Agents == [state           : States,
           snoozeUntil     : Instants,   \* zero iff snoozeTimer is nil
           snoozePending   : BOOLEAN,
           holdoutUntil    : Instants,
           errorDetail     : ErrorTexts \union {NoDetail},
           attentionDetail : Attentions]

\* What Status and partitionStatus can report under the commit policy.
Partitions ==
    {p \in [selected : BOOLEAN, unselected : Attentions] :
        /\ CommitPolicy = "all" => p.unselected = NoDetail
        /\ CommitPolicy = "none" => ~p.selected}

Cycles == [selected   : BOOLEAN,
           unselected : Attentions,
           hadError   : BOOLEAN,
           announce   : ErrorTexts \union {NoDetail, Recovered}]

NoCycle == [selected |-> FALSE, unselected |-> NoDetail,
            hadError |-> FALSE, announce |-> NoDetail]

\* Phases that run an external command and go straight on when it succeeds.
StraightPhases == {"branch", "unmerged", "preCommit", "stage", "describe",
                   "reword", "postCommit", "postPull", "prePush", "push",
                   "postSync", "head", "commitTime"}

\* Phases whose command may fail: setError, and the cycle ends.
FalliblePhases == StraightPhases \union {"status", "commit", "pull"}

\* Phases whose command is git.  Of a command that is canceled or timed out
\* only the direct process is killed: a child that lives on (ssh, a fetch, a
\* hook of git's own) holds its output, and cmd.Run waits.  The sexton hooks are
\* killed as a group and waited for two seconds, and a request to the LLM ends
\* with its context.
GitPhases == {"branch", "status", "unmerged", "stage", "commit", "describe",
              "reword", "pull", "push", "head", "commitTime", "abortConflict",
              "abortCanceled"}


\* Phases that the cancellation of the run context cuts short.
CancelablePhases == (FalliblePhases \ {"pull"}) \union {"generate"}

CyclePhases == FalliblePhases \union
    {"generate", "attention", "abortConflict", "abortCanceled", "complete",
     "incomplete"}

RunPhases == CyclePhases \union
    {"enter", "alert", "loop", "select", "expiry", "expirySend", "done"}

SchedPhases == {"arm", "wait", "apply", "off"}

Scheds == [pc : SchedPhases, at : Instants, active : BOOLEAN, until : Instants]

TypeOK ==
    /\ now \in Nat
    /\ agent \in Agents
    /\ syncCh \in BOOLEAN
    /\ stop \in {"running", "canceled", "closed"}
    /\ pc \in RunPhases
    /\ listening \in BOOLEAN
    /\ cycle \in Cycles
    /\ sched \in Scheds
    /\ resuming \subseteq Clients
    /\ told \in ErrorTexts \union {NoDetail}
    /\ rebasing \in BOOLEAN

----------------------------------------------------------------------------
(* The helpers that end in Locked: pure functions of the guarded fields *)

Canceled == stop # "running"

InHoldout == ActiveAt(Windows, now)

\* Mutant: a snooze is believed from the displayed state, not the clock.
SnoozeActiveByState(a) ==
    a.state = "snoozed" \/ (a.snoozeUntil # ZeroTime /\ now < a.snoozeUntil)

\* manualSnoozeActiveLocked
SnoozeActive(a) == a.snoozeUntil # ZeroTime /\ now < a.snoozeUntil

\* clearSnoozeLocked and clearExpiredSnoozeLocked
ClearSnooze(a) == [a EXCEPT !.snoozeUntil = ZeroTime, !.snoozePending = FALSE]

\* The assignment pair every branch that finds an active window makes.
EnterHoldout(a) ==
    [a EXCEPT !.holdoutUntil = ActiveUntil(Windows, now),
              !.state = "holdout"]

\* The same, where the cycle in flight keeps its state.
NoteHoldout(a) ==
    [a EXCEPT !.holdoutUntil = ActiveUntil(Windows, now),
              !.state = IF a.state = "syncing" THEN "syncing" ELSE "holdout"]

RetainedState(a) ==
    IF a.errorDetail # NoDetail THEN "error"
    ELSE IF a.attentionDetail # NoDetail THEN "attention" ELSE "watching"

\* Mutant: an elapsed snooze is passed over but not cleared.
RestingOverElapsedSnooze(a) ==
    IF InHoldout THEN EnterHoldout(a)
    ELSE [a EXCEPT !.state = IF SnoozeActive(a) THEN "snoozed"
                                                ELSE RetainedState(a),
                   !.snoozePending = FALSE,
                   !.holdoutUntil = ZeroTime]

\* restingStateLocked: the sole chooser of a state that is not syncing.
Resting(a) ==
    IF InHoldout THEN EnterHoldout(a)
    ELSE IF SnoozeActive(a)
      THEN [a EXCEPT !.state = "snoozed", !.snoozePending = FALSE,
                     !.holdoutUntil = ZeroTime]
      ELSE [ClearSnooze(a) EXCEPT !.state = RetainedState(a),
                                  !.holdoutUntil = ZeroTime]

\* The guard most callers put around it: a cycle in flight keeps its state.
Rest(a) == IF a.state = "syncing" THEN a ELSE Resting(a)

\* Mutant: no deferred clearCanceledSyncState.
LeaveSyncAsIs(a) == a

\* clearCanceledSyncState, deferred by every cycle
LeaveSync(a) == IF a.state = "syncing" THEN Resting(a) ELSE a

----------------------------------------------------------------------------
(* Building blocks of the actions *)

\* Write the guarded fields.  A timer that is stopped never fires, so run
\* loses its snooze channel whenever the snooze it captured is cleared.
SetAgent(a) ==
    /\ agent' = a
    /\ listening' = (listening /\ a.snoozeUntil # ZeroTime)

\* sync() returns: its locals go out of scope.
EndCycle == pc' = "loop" /\ cycle' = NoCycle

\* Mutant: alert only when no error stood before.
SetErrorTellsFirstOnly(e) ==
    /\ SetAgent(Resting([agent EXCEPT !.errorDetail = e]))
    /\ IF agent.errorDetail # NoDetail
         THEN EndCycle
         ELSE pc' = "alert" /\ cycle' = [cycle EXCEPT !.announce = e]

\* setError: retain the detail and rest; alert only when the detail changed.
SetError(e) ==
    /\ SetAgent(Resting([agent EXCEPT !.errorDetail = e]))
    /\ IF agent.errorDetail = e
         THEN EndCycle
         ELSE pc' = "alert" /\ cycle' = [cycle EXCEPT !.announce = e]

\* shouldAbortSync at the end of a phase: cancellation first, then
\* pauseIfRequested; when neither stops the cycle it goes on at phase next.
Checkpoint(a, next, c) ==
    \/ /\ Canceled
       /\ SetAgent(LeaveSync(a))
       /\ EndCycle
       /\ UNCHANGED syncCh
    \/ /\ ~Canceled
       /\ InHoldout
       /\ SetAgent([EnterHoldout(a) EXCEPT !.snoozePending = FALSE])
       /\ syncCh' = FALSE
       /\ EndCycle
    \/ /\ ~Canceled /\ ~InHoldout
       /\ a.snoozePending /\ SnoozeActive(a)
       /\ SetAgent(Resting(a))
       /\ syncCh' = FALSE
       /\ EndCycle
    \/ /\ ~Canceled /\ ~InHoldout
       /\ ~(a.snoozePending /\ SnoozeActive(a))
       /\ SetAgent(IF a.snoozePending THEN ClearSnooze(a) ELSE a)
       /\ pc' = next
       /\ cycle' = c
       /\ UNCHANGED syncCh

----------------------------------------------------------------------------
(* The run goroutine: sync() *)

\* What the actions of a phase in flight leave alone.
outside == <<now, stop, sched, resuming, told>>

\* sync() on a canceled context, before it touched anything.
EnterCanceled ==
    /\ pc = "enter" /\ Canceled
    /\ pc' = "loop"
    /\ UNCHANGED <<outside, agent, listening, syncCh, cycle, rebasing>>

\* sync() inside a window or under a manual snooze: rest, do nothing.
EnterPaused ==
    /\ pc = "enter" /\ ~Canceled
    /\ InHoldout \/ SnoozeActive(agent)
    /\ SetAgent(Resting(agent))
    /\ pc' = "loop"
    /\ UNCHANGED <<outside, syncCh, cycle, rebasing>>

\* Mutant: whether an error stood is read off the displayed state.
EnterCycleByState ==
    /\ pc = "enter" /\ ~Canceled
    /\ ~InHoldout /\ ~SnoozeActive(agent)
    /\ SetAgent([ClearSnooze(agent) EXCEPT !.holdoutUntil = ZeroTime,
                                           !.state = "syncing"])
    /\ cycle' = [NoCycle EXCEPT !.hadError = agent.state = "error"]
    /\ pc' = "branch"
    /\ UNCHANGED <<outside, syncCh, rebasing>>

\* sync() starts a cycle: an elapsed snooze is dropped, hadError captured.
EnterCycle ==
    /\ pc = "enter" /\ ~Canceled
    /\ ~InHoldout /\ ~SnoozeActive(agent)
    /\ SetAgent([ClearSnooze(agent) EXCEPT !.holdoutUntil = ZeroTime,
                                           !.state = "syncing"])
    /\ cycle' = [NoCycle EXCEPT !.hadError = agent.errorDetail # NoDetail]
    /\ pc' = "branch"
    /\ UNCHANGED <<outside, syncCh, rebasing>>

\* Where a straight phase leads; after the unmerged check, by the partition.
Following ==
    [branch |-> "status", preCommit |-> "stage", stage |-> "commit",
     describe |-> "generate", reword |-> "postCommit",
     postCommit |-> "attention", postPull |-> "prePush", prePush |-> "push",
     push |-> "postSync", postSync |-> "head", head |-> "commitTime",
     commitTime |-> "complete"]

After(p) ==
    IF p = "unmerged"
      THEN IF cycle.selected THEN "preCommit" ELSE "attention"
      ELSE Following[p]

\* Mutant: the branch check does not notice a detached HEAD.
PhaseSucceedsOverRebase(p) ==
    /\ pc = p
    /\ IF p = "describe"
         THEN pc' = After(p) /\ UNCHANGED <<agent, listening, syncCh, cycle>>
         ELSE Checkpoint(agent, After(p), [cycle EXCEPT !.selected = FALSE])
    /\ UNCHANGED <<outside, rebasing>>

\* A command succeeds and the cycle reaches the phase boundary.  A rebase in
\* progress detaches HEAD, so validateBranch cannot succeed over one.  What
\* was selected is not read again once the unmerged check has used it.
\* describe (the git commands that read the new commit) is the one such phase
\* with no checkpoint behind it: the message is generated whatever was
\* requested.
PhaseSucceeds(p) ==
    /\ pc = p
    /\ p = "branch" => ~rebasing
    /\ IF p = "describe"
         THEN pc' = After(p) /\ UNCHANGED <<agent, listening, syncCh, cycle>>
         ELSE Checkpoint(agent, After(p),
                         [cycle EXCEPT !.selected = FALSE])
    /\ UNCHANGED <<outside, rebasing>>

\* Mutant: no checkpoint after the status, as if reading took no time.
StatusReadUnchecked(p) ==
    /\ pc = "status"
    /\ pc' = IF p.selected \/ p.unselected # NoDetail
               THEN "unmerged" ELSE "attention"
    /\ cycle' = [cycle EXCEPT !.selected = p.selected,
                              !.unselected = p.unselected]
    /\ UNCHANGED <<outside, agent, listening, syncCh, rebasing>>

\* Status succeeds: partitionStatus splits what it reports, and any dirt at
\* all goes through the unmerged guard.
StatusRead(p) ==
    /\ pc = "status"
    /\ Checkpoint(agent,
                  IF p.selected \/ p.unselected # NoDetail
                    THEN "unmerged" ELSE "attention",
                  [cycle EXCEPT !.selected = p.selected,
                                !.unselected = p.unselected])
    /\ UNCHANGED <<outside, rebasing>>

\* Unmerged lists paths: an error even on a canceled context.
UnmergedPathsFound(e) ==
    /\ pc = "unmerged"
    /\ SetError(e)
    /\ UNCHANGED <<outside, syncCh, rebasing>>

\* Commit: a commit was created, or there was nothing to commit.  Neither is
\* followed by a checkpoint.
Committed ==
    /\ pc = "commit"
    /\ pc' \in {"describe", "attention"}
    /\ UNCHANGED <<outside, agent, listening, syncCh, cycle, rebasing>>

\* generateCommitMessage: every failure but cancellation has a fallback, also
\* that of reading the diff.
MessageGenerated ==
    /\ pc = "generate"
    /\ pc' = "reword"
    /\ UNCHANGED <<outside, agent, listening, syncCh, cycle, rebasing>>

\* A command fails on a live context.
PhaseFails(p, e) ==
    /\ pc = p /\ ~Canceled
    /\ SetError(e)
    /\ IF p = "pull" /\ "conflictUnrecognised" \in Faults
         THEN rebasing' \in {rebasing, TRUE}
         ELSE UNCHANGED rebasing
    /\ UNCHANGED <<outside, syncCh>>

\* A command is cut short by cancellation: no error, clearCanceledSyncState.
PhaseCanceled(p) ==
    /\ pc = p /\ Canceled
    /\ SetAgent(LeaveSync(agent))
    /\ EndCycle
    /\ UNCHANGED <<outside, syncCh, rebasing>>

\* setAttention or clearAttention, by the partition; then the pull decision:
\* tracked unselected changes skip the pull.
EvaluateAttention ==
    /\ pc = "attention"
    /\ Checkpoint([agent EXCEPT !.attentionDetail = cycle.unselected],
                  IF cycle.unselected = "tracked" THEN "prePush" ELSE "pull",
                  cycle)
    /\ UNCHANGED <<outside, rebasing>>

\* Pull succeeds; post_pull runs only when HEAD moved.
Pulled ==
    /\ pc = "pull"
    /\ \E next \in {"postPull", "prePush"} : Checkpoint(agent, next, cycle)
    /\ UNCHANGED <<outside, rebasing>>

\* ErrConflict: git stopped in the middle of the rebase.  Recognised only
\* while the context lives: a killed git's output is discarded.
PullConflicts ==
    /\ pc = "pull" /\ ~Canceled
    /\ rebasing' = TRUE
    /\ pc' = "abortConflict"
    /\ UNCHANGED <<outside, agent, listening, syncCh, cycle>>

\* Mutant: a canceled pull returns like any other canceled phase.
PullCanceledUnaborted ==
    /\ pc = "pull" /\ Canceled
    /\ rebasing' \in {rebasing, TRUE}
    /\ SetAgent(LeaveSync(agent))
    /\ EndCycle
    /\ UNCHANGED <<outside, syncCh>>

\* Shutdown kills the pull, possibly in the middle of a rebase.
PullCanceled ==
    /\ pc = "pull" /\ Canceled
    /\ rebasing' \in {rebasing, TRUE}
    /\ pc' = "abortCanceled"
    /\ UNCHANGED <<outside, agent, listening, syncCh, cycle>>

\* ErrNoRemote from pull or push: the cycle completes.
NoRemote ==
    /\ pc \in {"pull", "push"}
    /\ Checkpoint(agent, "complete", cycle)
    /\ UNCHANGED <<outside, rebasing>>

\* ErrDirtyWorkingTree: tracked dirt appeared after the partition was read.
PullFindsDirt ==
    /\ pc = "pull"
    /\ Checkpoint(agent, "incomplete", cycle)
    /\ UNCHANGED <<outside, rebasing>>

\* abortRebase on its own context: the rebase is gone unless the abort fails.
RebaseAborts ==
    IF "abortFails" \in Faults THEN rebasing' \in {FALSE, rebasing}
                               ELSE rebasing' = FALSE

\* After a conflict: an error whether or not the abort worked.
AbortAfterConflict(e) ==
    /\ pc = "abortConflict"
    /\ RebaseAborts
    /\ SetError(e)
    /\ UNCHANGED <<outside, syncCh>>

\* After a canceled pull: on the way out, no error.
AbortAfterCancel ==
    /\ pc = "abortCanceled"
    /\ RebaseAborts
    /\ SetAgent(LeaveSync(agent))
    /\ EndCycle
    /\ UNCHANGED <<outside, syncCh>>

\* Mutant: a completed cycle drops the requests made while it ran.
CompleteDrains ==
    /\ pc = "complete"
    /\ SetAgent(Resting([agent EXCEPT !.errorDetail = NoDetail]))
    /\ syncCh' = FALSE
    /\ IF cycle.hadError
         THEN pc' = "alert" /\ cycle' = [cycle EXCEPT !.announce = Recovered]
         ELSE EndCycle
    /\ UNCHANGED <<outside, rebasing>>

\* finishSuccessfulSync: completeSync clears the error and rests; recovery is
\* announced when the cycle began with one.
Complete ==
    /\ pc = "complete"
    /\ SetAgent(Resting([agent EXCEPT !.errorDetail = NoDetail]))
    /\ IF cycle.hadError
         THEN pc' = "alert" /\ cycle' = [cycle EXCEPT !.announce = Recovered]
         ELSE EndCycle
    /\ UNCHANGED <<outside, syncCh, rebasing>>

\* restAfterIncompleteSync
Incomplete ==
    /\ pc = "incomplete"
    /\ SetAgent(Resting(agent))
    /\ EndCycle
    /\ UNCHANGED <<outside, syncCh, rebasing>>

\* Mutant: the recovery stays on record like an error.
AlertKeepsRecovery ==
    /\ pc = "alert"
    /\ told' = cycle.announce
    /\ EndCycle
    /\ UNCHANGED <<now, stop, sched, resuming, agent, listening, syncCh,
                   rebasing>>

\* The alert setError and finishSuccessfulSync send after the unlock.
Alert ==
    /\ pc = "alert"
    /\ told' = IF cycle.announce = Recovered THEN NoDetail ELSE cycle.announce
    /\ EndCycle
    /\ UNCHANGED <<now, stop, sched, resuming, agent, listening,
                   syncCh, rebasing>>

----------------------------------------------------------------------------
(* The run goroutine: the loop around sync() *)

\* The top of the loop captures the channel of the snooze timer, if any.
Loop ==
    /\ pc = "loop"
    /\ listening' = (agent.snoozeUntil # ZeroTime)
    /\ pc' = "select"
    /\ UNCHANGED <<outside, agent, syncCh, cycle, rebasing>>

Quit ==
    /\ pc = "select" /\ stop = "closed"
    /\ pc' = "done"
    /\ UNCHANGED <<outside, agent, listening, syncCh, cycle, rebasing>>

\* Mutant: in a holdout the ticker is left to the scheduler's transition.
PollUnlessHeldOut ==
    /\ pc = "select" /\ agent.state # "holdout"
    /\ pc' = "enter"
    /\ UNCHANGED <<outside, agent, listening, syncCh, cycle, rebasing>>

\* The ticker: the phase of its ticks against the clock is arbitrary.
Poll ==
    /\ pc = "select"
    /\ pc' = "enter"
    /\ UNCHANGED <<outside, agent, listening, syncCh, cycle, rebasing>>

TakeRequest ==
    /\ pc = "select" /\ syncCh
    /\ syncCh' = FALSE
    /\ pc' = "enter"
    /\ UNCHANGED <<outside, agent, listening, cycle, rebasing>>

\* The captured snooze timer fires; the mutex is not yet taken.
SnoozeFires ==
    /\ pc = "select" /\ listening /\ now >= agent.snoozeUntil
    /\ listening' = FALSE
    /\ pc' = "expiry"
    /\ UNCHANGED <<outside, agent, syncCh, cycle, rebasing>>

\* handleSnoozeExpiry, locked: whatever snooze stands now is cleared.
SnoozeExpiry ==
    /\ pc = "expiry"
    /\ LET a == Rest(ClearSnooze(agent))
       IN  /\ SetAgent(a)
           /\ pc' = IF a.state \in {"watching", "attention"}
                      THEN "expirySend" ELSE "loop"
    /\ UNCHANGED <<outside, syncCh, cycle, rebasing>>

\* handleSnoozeExpiry, after the unlock: queue the sync.
ExpirySend ==
    /\ pc = "expirySend"
    /\ syncCh' = TRUE
    /\ pc' = "loop"
    /\ UNCHANGED <<outside, agent, listening, cycle, rebasing>>

----------------------------------------------------------------------------
(* The control plane *)

\* What a call that only takes the mutex leaves alone.
others == <<now, stop, pc, cycle, sched, told, rebasing>>

\* TriggerSync in a window: refused, and the window is noted.
TriggerRefusedByHoldout ==
    /\ InHoldout
    /\ SetAgent(NoteHoldout(agent))
    /\ UNCHANGED <<others, syncCh, resuming>>

\* TriggerSync under a snooze: refused.
TriggerRefusedBySnooze ==
    /\ ~InHoldout
    /\ Rest(agent).state = "snoozed"
    /\ SetAgent(Rest(agent))
    /\ UNCHANGED <<others, syncCh, resuming>>

\* TriggerSync accepts: the request is queued, or one is queued already.
TriggerAccepted ==
    /\ ~InHoldout
    /\ Rest(agent).state # "snoozed"
    /\ SetAgent(Rest(agent))
    /\ syncCh' = TRUE
    /\ UNCHANGED <<others, resuming>>

\* Mutant: a cycle that saw a window begin is not marked.
SnoozeUnmarkedInHoldout(d) ==
    /\ now + d <= Horizon
    /\ LET a == [agent EXCEPT !.snoozeUntil = now + d]
       IN  agent' = IF a.state = "syncing"
                      THEN [a EXCEPT !.snoozePending = ~InHoldout]
                      ELSE Resting(a)
    /\ listening' = FALSE
    /\ syncCh' = FALSE
    /\ UNCHANGED <<others, resuming>>

\* Snooze: a new timer replaces the old one, queued requests are dropped, and
\* a cycle in flight is only marked.  Run still listens to the old timer.
Snooze(d) ==
    /\ now + d <= Horizon
    /\ LET a == [agent EXCEPT !.snoozeUntil = now + d]
       IN  agent' = IF a.state = "syncing"
                      THEN [a EXCEPT !.snoozePending = TRUE]
                      ELSE Resting(a)
    /\ listening' = FALSE
    /\ syncCh' = FALSE
    /\ UNCHANGED <<others, resuming>>

ManuallySnoozed ==
    \/ agent.state = "snoozed"
    \/ agent.snoozePending
    \/ SnoozeActive(agent)

\* Resume with nothing to resume but a window: refused, the window is noted.
\* (With nothing at all to resume it changes nothing.)
ResumeRefused ==
    /\ ~ManuallySnoozed /\ agent.errorDetail = NoDetail
    /\ InHoldout
    /\ SetAgent(NoteHoldout(agent))
    /\ UNCHANGED <<others, syncCh, resuming>>

\* Resume, locked: snooze and error are cleared; unless a window is in force
\* a request will be sent after the unlock.
ResumeAccepted(c) ==
    /\ c \notin resuming
    /\ ManuallySnoozed \/ agent.errorDetail # NoDetail
    /\ LET a == [ClearSnooze(agent) EXCEPT !.errorDetail = NoDetail]
       IN  SetAgent(IF InHoldout THEN NoteHoldout(a) ELSE Rest(a))
    /\ resuming' = IF InHoldout THEN resuming ELSE resuming \union {c}
    /\ UNCHANGED <<others, syncCh>>

\* Resume, after the unlock and the alert: the request goes into the queue.
ResumeSend(c) ==
    /\ c \in resuming
    /\ resuming' = resuming \ {c}
    /\ syncCh' = TRUE
    /\ UNCHANGED <<others, agent, listening>>

\* Stop: the run context is canceled, then stopCh closed.
StopCancel ==
    /\ stop = "running"
    /\ stop' = "canceled"
    /\ UNCHANGED <<now, agent, syncCh, pc, listening, cycle, sched, resuming,
                   told, rebasing>>

StopClose ==
    /\ stop = "canceled"
    /\ stop' = "closed"
    /\ UNCHANGED <<now, agent, syncCh, pc, listening, cycle, sched, resuming,
                   told, rebasing>>

----------------------------------------------------------------------------
(* The holdout scheduler goroutine: runHoldoutScheduler *)

\* What the scheduler's own steps leave alone.
exceptSched == <<now, stop, pc, cycle, resuming, told, rebasing>>

\* Set a timer for the next boundary.
SchedArm ==
    /\ sched.pc = "arm"
    /\ sched' = [sched EXCEPT !.pc = "wait", !.at = NextTransition(Windows, now)]
    /\ UNCHANGED <<exceptSched, agent, listening, syncCh>>

\* The timer fires; handleHoldoutTransition reads the clock and the windows
\* before it takes the mutex.
SchedFires ==
    /\ sched.pc = "wait" /\ now >= sched.at
    /\ sched' = [pc |-> "apply", at |-> ZeroTime, active |-> InHoldout,
                 until |-> IF InHoldout THEN ActiveUntil(Windows, now)
                                        ELSE ZeroTime]
    /\ UNCHANGED <<exceptSched, agent, listening, syncCh>>

\* handleHoldoutTransition, locked: what was read is applied.
SchedApply ==
    /\ sched.pc = "apply"
    /\ \/ /\ sched.active /\ agent.state = "syncing"
          /\ SetAgent([agent EXCEPT !.holdoutUntil = sched.until])
          /\ UNCHANGED syncCh
       \/ /\ sched.active /\ agent.state # "syncing"
          /\ SetAgent([agent EXCEPT !.holdoutUntil = sched.until,
                                    !.state = "holdout"])
          /\ syncCh' = FALSE
       \/ /\ ~sched.active
          /\ SetAgent(IF agent.state = "holdout" THEN Resting(agent) ELSE agent)
          /\ UNCHANGED syncCh
    /\ sched' = [pc |-> "arm", at |-> ZeroTime, active |-> FALSE,
                 until |-> ZeroTime]
    /\ UNCHANGED exceptSched

SchedQuit ==
    /\ sched.pc = "wait" /\ stop = "closed"
    /\ sched' = [sched EXCEPT !.pc = "off"]
    /\ UNCHANGED <<exceptSched, agent, listening, syncCh>>

----------------------------------------------------------------------------
(* The environment *)

Tick ==
    /\ now < Horizon
    /\ now' = now + 1
    /\ UNCHANGED <<agent, syncCh, stop, pc, listening, cycle, sched, resuming,
                   told, rebasing>>

\* The operator finishes or aborts the rebase the agent left behind.
OperatorResolves ==
    /\ rebasing /\ pc \notin {"pull", "abortConflict", "abortCanceled"}
    /\ rebasing' = FALSE
    /\ UNCHANGED <<now, agent, syncCh, stop, pc, listening, cycle, sched,
                   resuming, told>>

\* NewAgent
FreshAgent == [state |-> "watching", snoozeUntil |-> ZeroTime,
               snoozePending |-> FALSE, holdoutUntil |-> ZeroTime,
               errorDetail |-> NoDetail, attentionDetail |-> NoDetail]

\* Start: the scheduler runs only when there are windows.
FreshSched == [pc |-> IF Windows = <<>> THEN "off" ELSE "arm",
               at |-> ZeroTime, active |-> FALSE, until |-> ZeroTime]

\* The process dies and is started again: nothing the agent holds survives,
\* the repository does, and a pull may have died inside its rebase.
Crash ==
    /\ "crash" \in Faults
    /\ agent' = FreshAgent
    /\ sched' = FreshSched
    /\ pc' = "enter"
    /\ cycle' = NoCycle
    /\ stop' = "running"
    /\ syncCh' = FALSE /\ listening' = FALSE /\ resuming' = {}
    /\ told' = NoDetail
    /\ rebasing' \in IF pc = "pull" THEN {rebasing, TRUE} ELSE {rebasing}
    /\ UNCHANGED now

----------------------------------------------------------------------------
(* The specification *)

Init ==
    /\ now \in 0..Day-1
    /\ now <= Horizon
    /\ agent = FreshAgent
    /\ syncCh = FALSE
    /\ stop = "running"
    /\ pc = "enter"
    /\ listening = FALSE
    /\ cycle = NoCycle
    /\ sched = FreshSched
    /\ resuming = {}
    /\ told = NoDetail
    /\ rebasing = FALSE

\* A phase's external command returns, with whatever outcome.
CommandReturns ==
    \/ \E p \in StraightPhases : PhaseSucceeds(p)
    \/ \E p \in Partitions : StatusRead(p)
    \/ \E p \in FalliblePhases, e \in ErrorTexts : PhaseFails(p, e)
    \/ \E e \in ErrorTexts : UnmergedPathsFound(e)
    \/ Committed
    \/ MessageGenerated
    \/ Pulled
    \/ PullConflicts
    \/ NoRemote
    \/ PullFindsDirt

\* A git command that was canceled, or that runs under a timeout, returns.
CutShort ==
    \/ \E p \in CancelablePhases \intersect GitPhases : PhaseCanceled(p)
    \/ PullCanceled
    \/ \E e \in ErrorTexts : AbortAfterConflict(e)
    \/ AbortAfterCancel

\* The run goroutine's own steps, and the ends of hooks and of the LLM request
\* that were canceled.
RunStep ==
    \/ EnterCanceled
    \/ EnterPaused
    \/ EnterCycle
    \/ EvaluateAttention
    \/ \E p \in CancelablePhases \ GitPhases : PhaseCanceled(p)
    \/ Complete
    \/ Incomplete
    \/ Alert
    \/ Loop
    \/ Poll
    \/ TakeRequest
    \/ SnoozeFires
    \/ SnoozeExpiry
    \/ ExpirySend

SchedStep ==
    \/ SchedArm
    \/ SchedFires
    \/ SchedApply
    \/ SchedQuit

Call ==
    \/ TriggerRefusedByHoldout
    \/ TriggerRefusedBySnooze
    \/ TriggerAccepted
    \/ \E d \in Durations : Snooze(d)
    \/ ResumeRefused
    \/ \E c \in Clients : ResumeAccepted(c)
    \/ StopCancel

Next ==
    \/ CommandReturns
    \/ CutShort
    \/ RunStep
    \/ Quit
    \/ SchedStep
    \/ Call
    \/ \E c \in Clients : ResumeSend(c)
    \/ StopClose
    \/ Tick
    \/ OperatorResolves
    \/ Crash

Spec == Init /\ [][Next]_vars

\* The goroutines are scheduled, time passes, and select does not pass over a
\* closed stopCh for ever (Go picks a ready case at random).  Nothing is
\* assumed of a command on a live context: git and the LLM call have no timeout.
\* And nothing is assumed of git at all, not even of one that was killed.
Fairness ==
    /\ WF_vars(RunStep)
    /\ SF_vars(Quit)
    /\ WF_vars(StopClose)
    /\ WF_vars(SchedStep)
    /\ \A c \in Clients : WF_vars(ResumeSend(c))
    /\ WF_vars(Tick)

FairSpec == Spec /\ Fairness

----------------------------------------------------------------------------
(* What the agent promises about interruption, and how it keeps it *)

\* The stages of a cycle in the order of sync(); the aborts belong to the pull.
StageOf ==
    [branch |-> 1, status |-> 2, unmerged |-> 3, preCommit |-> 4, stage |-> 5,
     commit |-> 6, describe |-> 7, generate |-> 8, reword |-> 9,
     postCommit |-> 10, attention |-> 11, pull |-> 12, abortConflict |-> 12,
     abortCanceled |-> 12, postPull |-> 13, prePush |-> 14, push |-> 15,
     postSync |-> 16, head |-> 17, commitTime |-> 18, complete |-> 19,
     incomplete |-> 19]

Stage == IF pc \in CyclePhases THEN StageOf[pc] ELSE 0

\* The stages sync() goes on to without shouldAbortSync: the commit and its
\* message are one piece, and a commit of nothing falls through.
AtOnceStages == {<<6, 7>>, <<7, 8>>, <<8, 9>>, <<6, 11>>}

\* The reasons to hold that stand at this instant.
Holds ==
    (IF InHoldout THEN {"holdout"} ELSE {})
      \union (IF SnoozeActive(agent) THEN {"snooze"} ELSE {})
      \union (IF Canceled THEN {"stop"} ELSE {})

Gate == INSTANCE PhaseGate WITH
            Last <- 19, Reasons <- {"holdout", "snooze", "stop"},
            AtOnce <- AtOnceStages, stage <- Stage, holds <- Holds

----------------------------------------------------------------------------
(* Properties *)

\* The state says "syncing" exactly while sync() is past its entry and has not
\* yet rested: no path out of the cycle forgets to rest, and no call or
\* scheduler step takes the state from under a cycle (agent.go:315-624).
SyncingIffInCycle == agent.state = "syncing" <=> pc \in CyclePhases

Agrees(a) ==
    /\ a.state \in {"watching", "error", "attention"} =>
          a.state = RetainedState(a) /\ a.snoozeUntil = ZeroTime
    /\ a.state = "snoozed" => a.snoozeUntil # ZeroTime
    /\ a.state = "holdout" => a.holdoutUntil # ZeroTime
    /\ a.state \notin {"holdout", "syncing"} =>
          a.holdoutUntil = ZeroTime /\ ~a.snoozePending

\* A state at rest never contradicts what the agent retains: "watching" hides
\* no error, attention or snooze, "error" and "attention" are backed by a
\* detail in that order, a snooze shows only with an end to it, and a window's
\* end is kept only by "holdout" or a cycle in flight (agent.go:830-859).
RestingStateAgrees == Agrees(agent)

\* A snooze in force during a cycle is marked pending, whatever calls and
\* windows came between, so the next phase boundary will see it
\* (agent.go:219-232, 769-790).
SnoozeReachesCycle ==
    agent.state = "syncing" /\ SnoozeActive(agent) => agent.snoozePending

\* No pull and no push begins inside a window, under a manual snooze or after
\* shutdown began: every path to the remote passes a checkpoint that sees all
\* three (docs/current/sync-loop.md, "interruption").
RemoteOnlyWhenUnpaused ==
    [][pc' # pc /\ pc' \in {"pull", "push"}
         => ~InHoldout /\ ~SnoozeActive(agent) /\ ~Canceled]_vars

\* The agent implements PhaseGate: whatever goroutines, callers and the clock
\* do, no stage of a cycle begins while a window, a snooze or a shutdown asks to
\* hold - but for what the commit leads to without a look: describing it, the
\* message, the reword, and the attention detail where nothing was committed -
\* no cycle goes back, and no step of the cycle ends a snooze that stands
\* (agent.go:315-624, docs/current/sync-loop.md, "interruption").
ImplementsGate == Gate!Spec

\* Over a rebase in progress - left by a failed abort, an unrecognised
\* conflict or a crash - no cycle gets past the branch check: nothing is
\* staged, committed, pulled or pushed in the middle of it (agent.go:346-355).
NoWorkOverRebase ==
    rebasing => pc \notin CyclePhases \ {"branch", "abortConflict", "abortCanceled"}

\* The agent does not leave the repository mid-rebase: while aborts work,
\* conflicts are recognised and the process lives, a rebase is in progress
\* only until the abort that follows, also under shutdown
\* (agent.go:502-522).
RebaseIsAborted ==
    Faults = {} =>
        (rebasing => pc \in {"abortConflict", "abortCanceled"})

\* An error that stands while the agent waits has been alerted, and no other
\* error was alerted since: the "alert only when it differs" rule never
\* swallows a new error, with Resume clearing details at any point
\* (agent.go:872-884).
StandingErrorTold ==
    pc = "select" /\ agent.errorDetail # NoDetail => told = agent.errorDetail

\* A cycle that completes over a standing error announces the recovery; the
\* hadError it captured at entry covers every error it can clear
\* (agent.go:336, 799-822).
RecoveryAnnounced ==
    [][pc = "complete" /\ pc' \in {"alert", "loop"} /\ agent.errorDetail # NoDetail
         => cycle'.announce = Recovered]_vars

\* A sync is owed: a request is queued, or the loop is about to call sync().
Owed == syncCh \/ pc = "enter"

\* The agent says that it pauses, or will at the next phase boundary.
Pausing == agent.state \in {"holdout", "snoozed"} \/ SnoozeActive(agent)

\* A sync that is owed begins, unless by then the agent pauses or shutdown
\* began: no end of a cycle, no error, no call and no timer loses it on the way
\* from the caller through the queue to sync() (agent.go:190-232, 284-345,
\* 759-790).  A restart owes one too.  It does not hold where snoozes of no
\* length are asked for, which empty the queue and pause nothing
\* (agent.go:711-717).
RequestsDroppedOnlyByPauses ==
    [][Owed /\ ~Owed' => pc' = "branch" \/ Canceled \/ Pausing']_vars


\* A holdout ends when the window does: no stale transition and no call leaves
\* the agent in it for good (agent.go:1045-1109).
HoldoutEnds == agent.state = "holdout" ~> (agent.state # "holdout" \/ Canceled)

\* A snooze expires, although run may be listening to a timer that was
\* replaced (agent.go:284-313).
SnoozeEnds == agent.state = "snoozed" ~> (agent.state # "snoozed" \/ Canceled)
=============================================================================
