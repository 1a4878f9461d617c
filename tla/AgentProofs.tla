---------------------------- MODULE AgentProofs ----------------------------
(***************************************************************************)
(* Theorems about Agent, for every set of callers, windows, durations,     *)
(* error details and faults, and a clock that runs as long as it likes     *)
(* (Horizon is any natural number): the invariants of its guarded fields,  *)
(* what the run goroutine does with the repository and with the operator - *)
(* when it goes to the remote, what it does over a rebase, which errors it *)
(* tells - and that Agent implements PhaseGate.                            *)
(***************************************************************************)
EXTENDS Agent, SequenceFacts

----------------------------------------------------------------------------
(* The helpers on the guarded fields *)

\* A set of indices that is not empty has a first one.
LEMMA FirstIsIndex ==
    ASSUME NEW I, I \subseteq DOMAIN Windows, I # {}
    PROVE  First(I) \in DOMAIN Windows
<1>1. I \subseteq Nat
  BY WindowsAssumption DEF Resolved
<1>2. \E i \in I : \A j \in I : i <= j
  BY <1>1, LeastElement
<1> QED BY <1>2 DEF First

\* Windows begin and end at proper instants of every day.
LEMMA WindowInstants ==
    ASSUME now \in Nat, NEW i \in DOMAIN Windows
    PROVE  /\ DayStart(now) + Windows[i].end \in Nat
           /\ DayStart(now) + Windows[i].start \in Nat
           /\ DayStart(now) + Day + Windows[i].start \in Nat
<1>1. Windows[i] \in Window
  BY WindowsAssumption DEF Resolved
<1>2. now % Day \in 0..Day-1 /\ now % Day <= now
  BY DayAssumption
<1> QED BY <1>1, <1>2, DayAssumption DEF Window, DayStart, MinuteOf

\* A window in force has an end, and it is a proper instant.
LEMMA HoldoutEndIsInstant ==
    ASSUME now \in Nat, InHoldout
    PROVE  ActiveUntil(Windows, now) \in Nat
<1> DEFINE I == {i \in DOMAIN Windows : Covers(Windows[i], now)}
<1>1. I \subseteq DOMAIN Windows /\ I # {}
  BY DEF InHoldout, ActiveAt
<1> HIDE DEF I
<1>2. First(I) \in DOMAIN Windows
  BY <1>1, FirstIsIndex
<1> QED BY <1>2, WindowInstants DEF ActiveUntil, I

\* Where there are windows, the next transition is a proper instant.
LEMMA NextTransitionIsInstant ==
    ASSUME now \in Nat, Windows # <<>>
    PROVE  NextTransition(Windows, now) \in Nat
<1>1. CASE ActiveAt(Windows, now)
  BY <1>1, HoldoutEndIsInstant DEF NextTransition, InHoldout
<1>2. CASE ~ActiveAt(Windows, now) /\ Later(Windows, now) # {}
  <2>1. First(Later(Windows, now)) \in DOMAIN Windows
    BY <1>2, FirstIsIndex DEF Later
  <2> QED BY <1>2, <2>1, WindowInstants DEF NextTransition
<1>3. CASE ~ActiveAt(Windows, now) /\ Later(Windows, now) = {}
  <2>1. 1 \in DOMAIN Windows
    BY WindowsAssumption DEF Resolved
  <2> QED BY <1>3, <2>1, WindowInstants DEF NextTransition
<1> QED BY <1>1, <1>2, <1>3

\* The chooser of resting states: whatever it is given, the result is well
\* typed, is not "syncing", agrees with what it retains and keeps the details.
LEMMA RestingFacts ==
    ASSUME now \in Nat, NEW a \in Agents
    PROVE  /\ Resting(a) \in Agents
           /\ Resting(a).state # "syncing"
           /\ Agrees(Resting(a))
           /\ Resting(a).errorDetail = a.errorDetail
           /\ Resting(a).attentionDetail = a.attentionDetail
<1>1. CASE InHoldout
  <2> DEFINE u == ActiveUntil(Windows, now)
  <2>1. u \in Nat
    BY <1>1, HoldoutEndIsInstant
  <2>2. Resting(a) = [a EXCEPT !.holdoutUntil = u, !.state = "holdout"]
    BY <1>1 DEF Resting, EnterHoldout
  <2> HIDE DEF u
  <2>3. u # ZeroTime
    BY <2>1 DEF ZeroTime
  <2> QED
    BY <2>1, <2>2, <2>3 DEF Agents, Agrees, Instants, States
<1>2. CASE ~InHoldout /\ SnoozeActive(a)
  BY <1>2 DEF Resting, SnoozeActive, Agents, Agrees, Instants, States, ZeroTime
<1>3. CASE ~InHoldout /\ ~SnoozeActive(a)
  <2>1. Resting(a) = [a EXCEPT !.snoozeUntil = ZeroTime,
                               !.snoozePending = FALSE,
                               !.state = RetainedState(a),
                               !.holdoutUntil = ZeroTime]
    BY <1>3 DEF Resting, ClearSnooze, RetainedState, Agents
  <2> QED
    BY <2>1 DEF RetainedState, Agents, Agrees, Instants, States, ZeroTime
<1> QED
  BY <1>1, <1>2, <1>3

\* Clearing a snooze takes its end and its pending mark, and nothing else.
LEMMA ClearSnoozeFacts ==
    ASSUME NEW a \in Agents
    PROVE  LET b == ClearSnooze(a)
           IN  /\ b \in Agents
               /\ b.state = a.state
               /\ b.snoozeUntil = ZeroTime
               /\ ~b.snoozePending
               /\ b.holdoutUntil = a.holdoutUntil
               /\ b.errorDetail = a.errorDetail
               /\ b.attentionDetail = a.attentionDetail
BY DEF ClearSnooze, Agents, Instants

\* Noting a window keeps the state of a cycle in flight and shows "holdout"
\* otherwise, always with an end.
LEMMA NoteHoldoutFacts ==
    ASSUME now \in Nat, InHoldout, NEW a \in Agents
    PROVE  LET b == NoteHoldout(a)
           IN  /\ b \in Agents
               /\ b.state = IF a.state = "syncing" THEN "syncing" ELSE "holdout"
               /\ b.holdoutUntil # ZeroTime
               /\ b.snoozeUntil = a.snoozeUntil
               /\ b.snoozePending = a.snoozePending
               /\ b.errorDetail = a.errorDetail
               /\ Agrees(b)
<1> DEFINE u == ActiveUntil(Windows, now)
           t == IF a.state = "syncing" THEN "syncing" ELSE "holdout"
<1>1. u \in Nat
  BY HoldoutEndIsInstant
<1>2. NoteHoldout(a) = [a EXCEPT !.holdoutUntil = u, !.state = t]
  BY DEF NoteHoldout
<1>3. t \in {"syncing", "holdout"}
  OBVIOUS
<1> HIDE DEF u
<1>4. u # ZeroTime
  BY <1>1 DEF ZeroTime
<1> QED
  BY <1>1, <1>2, <1>3, <1>4 DEF Agents, Agrees, Instants, States

\* The pause of a cycle by a window rests in "holdout".
LEMMA EnterHoldoutFacts ==
    ASSUME now \in Nat, InHoldout, NEW a \in Agents
    PROVE  LET b == [EnterHoldout(a) EXCEPT !.snoozePending = FALSE]
           IN  b \in Agents /\ b.state = "holdout" /\ Agrees(b)
               /\ b.errorDetail = a.errorDetail
<1> DEFINE u == ActiveUntil(Windows, now)
<1>1. u \in Nat
  BY HoldoutEndIsInstant
<1>2. EnterHoldout(a) = [a EXCEPT !.holdoutUntil = u, !.state = "holdout"]
  BY DEF EnterHoldout
<1> HIDE DEF u
<1>4. u # ZeroTime
  BY <1>1 DEF ZeroTime
<1> QED
  BY <1>1, <1>2, <1>4 DEF Agents, Agrees, Instants, States
----------------------------------------------------------------------------
(* The inductive invariant *)

\* The scheduler runs only when there are windows to schedule, and a window
\* it is about to apply has an end.
SchedSound ==
    /\ sched.pc # "off" => Windows # <<>>
    /\ sched.active => sched.until # ZeroTime

IInv ==
    /\ TypeOK
    /\ SchedSound
    /\ SyncingIffInCycle
    /\ RestingStateAgrees
    /\ SnoozeReachesCycle

\* setError leaves the cycle, at rest, with its detail retained and alerted
\* unless it stood before.
LEMMA SetErrorFacts ==
    ASSUME IInv, NEW e \in ErrorTexts, SetError(e)
    PROVE  /\ agent' \in Agents /\ agent'.state # "syncing" /\ Agrees(agent')
           /\ listening' \in BOOLEAN
           /\ cycle' \in Cycles
           /\ pc' \in {"alert", "loop"}
           /\ agent'.errorDetail = e
           /\ pc' = "alert" => cycle'.announce = e
           /\ pc' = "loop" => agent.errorDetail = e
<1> DEFINE a == [agent EXCEPT !.errorDetail = e]
<1>1. a \in Agents
  BY DEF IInv, TypeOK, Agents
<1>2. agent' = Resting(a)
  BY DEF SetError, SetAgent
<1> HIDE DEF a
<1>3. agent' \in Agents /\ agent'.state # "syncing" /\ Agrees(agent')
  BY <1>1, <1>2, RestingFacts DEF IInv, TypeOK
<1>4. listening' \in BOOLEAN
  BY DEF SetError, SetAgent
<1>5. NoCycle \in Cycles /\ [cycle EXCEPT !.announce = e] \in Cycles
  BY DEF IInv, TypeOK, Cycles, NoCycle, Attentions
<1>6. /\ cycle' \in Cycles /\ pc' \in {"alert", "loop"}
      /\ pc' = "alert" => cycle'.announce = e
      /\ pc' = "loop" => agent.errorDetail = e
  <2> DEFINE c == [cycle EXCEPT !.announce = e]
  <2>1. c.announce = e
    BY DEF IInv, TypeOK, Cycles
  <2>2. \/ EndCycle /\ agent.errorDetail = e
        \/ pc' = "alert" /\ cycle' = c
    BY DEF SetError
  <2>3. c \in Cycles
    BY <1>5
  <2> HIDE DEF c
  <2> QED BY <1>5, <2>1, <2>2, <2>3 DEF EndCycle
<1>7. agent'.errorDetail = e
  <2>1. a.errorDetail = e
    BY DEF a, IInv, TypeOK, Agents
  <2> QED BY <1>1, <1>2, <2>1, RestingFacts DEF IInv, TypeOK
<1> QED
  BY <1>3, <1>4, <1>6, <1>7

\* A checkpoint ends the cycle at rest, or lets it go on: not canceled, outside
\* every window, and under no snooze.
LEMMA CheckpointFacts ==
    ASSUME IInv, NEW a \in Agents, NEW next, NEW c \in Cycles,
           a.state = "syncing",
           SnoozeActive(a) => a.snoozePending,
           Checkpoint(a, next, c)
    PROVE  /\ agent' \in Agents /\ Agrees(agent')
           /\ listening' \in BOOLEAN
           /\ syncCh' \in BOOLEAN
           /\ cycle' \in Cycles
           /\ agent'.errorDetail = a.errorDetail
           /\ \/ pc' = "loop" /\ agent'.state # "syncing"
              \/ /\ pc' = next /\ cycle' = c /\ agent'.state = "syncing"
                 /\ ~Canceled /\ ~InHoldout
                 /\ ~SnoozeActive(a)
                 /\ agent'.snoozeUntil \in {a.snoozeUntil, ZeroTime}
<1> USE DEF Checkpoint
<1>0. now \in Nat /\ syncCh \in BOOLEAN /\ NoCycle \in Cycles
  BY DEF IInv, TypeOK, NoCycle, Cycles, Attentions
<1>1. CASE Canceled /\ SetAgent(LeaveSync(a)) /\ EndCycle /\ UNCHANGED syncCh
  <2>1. agent' = Resting(a)
    BY <1>1 DEF SetAgent, LeaveSync
  <2>2. /\ agent' \in Agents /\ agent'.state # "syncing" /\ Agrees(agent')
        /\ agent'.errorDetail = a.errorDetail
    BY <1>0, <2>1, RestingFacts
  <2> QED BY <1>0, <1>1, <2>2 DEF SetAgent, EndCycle
<1>2. CASE /\ ~Canceled /\ InHoldout
           /\ SetAgent([EnterHoldout(a) EXCEPT !.snoozePending = FALSE])
           /\ syncCh' = FALSE /\ EndCycle
  <2>1. /\ agent' \in Agents /\ agent'.state = "holdout" /\ Agrees(agent')
        /\ agent'.errorDetail = a.errorDetail
    BY <1>0, <1>2, EnterHoldoutFacts DEF SetAgent
  <2> QED BY <1>0, <1>2, <2>1 DEF SetAgent, EndCycle
<1>3. CASE /\ ~Canceled /\ ~InHoldout
           /\ a.snoozePending /\ SnoozeActive(a)
           /\ SetAgent(Resting(a)) /\ syncCh' = FALSE /\ EndCycle
  <2>1. /\ agent' \in Agents /\ agent'.state # "syncing" /\ Agrees(agent')
        /\ agent'.errorDetail = a.errorDetail
    BY <1>0, <1>3, RestingFacts DEF SetAgent
  <2> QED BY <1>0, <1>3, <2>1 DEF SetAgent, EndCycle
<1>4. CASE /\ ~Canceled /\ ~InHoldout
           /\ ~(a.snoozePending /\ SnoozeActive(a))
           /\ SetAgent(IF a.snoozePending THEN ClearSnooze(a) ELSE a)
           /\ pc' = next /\ cycle' = c /\ UNCHANGED syncCh
  <2>1. agent' \in {a, ClearSnooze(a)}
    BY <1>4 DEF SetAgent
  <2>2. /\ agent' \in Agents /\ agent'.state = "syncing"
        /\ agent'.snoozeUntil \in {a.snoozeUntil, ZeroTime}
        /\ agent'.errorDetail = a.errorDetail
    BY <2>1, ClearSnoozeFacts
  <2>3. Agrees(agent')
    BY <2>2 DEF Agrees
  <2> QED BY <1>0, <1>4, <2>2, <2>3 DEF SetAgent
<1> QED
  BY <1>1, <1>2, <1>3, <1>4

\* Which phases are part of a cycle.
LEMMA Phases ==
    /\ FalliblePhases \subseteq CyclePhases
    /\ StraightPhases \subseteq FalliblePhases
    /\ CancelablePhases \subseteq CyclePhases
    /\ CyclePhases \subseteq RunPhases
    /\ {"enter", "alert", "loop", "select", "expiry", "expirySend", "done"}
          \subseteq RunPhases \ CyclePhases
    /\ {"branch", "status", "unmerged", "commit", "describe", "generate", "reword",
        "attention", "pull", "abortConflict", "abortCanceled", "postPull",
        "prePush", "push", "complete", "incomplete"} \subseteq CyclePhases
BY DEF RunPhases, CyclePhases, FalliblePhases, StraightPhases, CancelablePhases

\* A straight phase leads to a phase of the cycle.
LEMMA AfterIsInCycle ==
    ASSUME NEW p \in StraightPhases
    PROVE  After(p) \in CyclePhases
<1>1. CASE p = "unmerged"
  BY <1>1 DEF After, CyclePhases, FalliblePhases, StraightPhases
<1>2. CASE p # "unmerged"
  <2>1. After(p) = Following[p] /\ p \in StraightPhases \ {"unmerged"}
    BY <1>2 DEF After
  <2> QED
    BY <2>1 DEF Following, CyclePhases, FalliblePhases, StraightPhases
<1> QED
  BY <1>1, <1>2

\* A checkpoint keeps the invariant, when the phase it may lead to is part of
\* the cycle and nothing outside the cycle moves.
LEMMA CheckpointKeepsIInv ==
    ASSUME IInv, pc \in CyclePhases,
           NEW a \in Agents, NEW next \in CyclePhases, NEW c \in Cycles,
           a.state = agent.state, a.snoozeUntil = agent.snoozeUntil,
           a.snoozePending = agent.snoozePending,
           Checkpoint(a, next, c),
           UNCHANGED <<outside, rebasing>>
    PROVE  IInv'
<1>1. a.state = "syncing"
  BY DEF IInv, SyncingIffInCycle
<1>2. SnoozeActive(a) => a.snoozePending
  BY <1>1 DEF IInv, SnoozeReachesCycle, SnoozeActive
<1>3. /\ agent' \in Agents /\ Agrees(agent')
      /\ listening' \in BOOLEAN /\ syncCh' \in BOOLEAN /\ cycle' \in Cycles
      /\ \/ pc' = "loop" /\ agent'.state # "syncing"
         \/ /\ pc' = next /\ agent'.state = "syncing"
            /\ ~SnoozeActive(a)
            /\ agent'.snoozeUntil \in {a.snoozeUntil, ZeroTime}
  BY <1>1, <1>2, CheckpointFacts
<1>4. pc' \in RunPhases /\ (agent'.state = "syncing" <=> pc' \in CyclePhases)
  BY <1>3, Phases
<1>5. SnoozeReachesCycle'
  BY <1>1, <1>3 DEF SnoozeReachesCycle, SnoozeActive, outside
<1> QED
  BY <1>3, <1>4, <1>5
  DEF IInv, TypeOK, SchedSound, SyncingIffInCycle, RestingStateAgrees,
      outside

\* So does a step of the run goroutine that lands at rest outside a cycle.
LEMMA LandingKeepsIInv ==
    ASSUME IInv, UNCHANGED <<now, stop, sched, resuming>>,
           agent' \in Agents, agent'.state # "syncing", Agrees(agent'),
           pc' \in RunPhases \ CyclePhases,
           cycle' \in Cycles, listening' \in BOOLEAN, syncCh' \in BOOLEAN,
           rebasing' \in BOOLEAN, told' \in ErrorTexts \union {NoDetail}
    PROVE  IInv'
BY DEF IInv, TypeOK, SchedSound, SyncingIffInCycle, RestingStateAgrees,
       SnoozeReachesCycle

\* So does a step of the run goroutine that changes no guarded field and
\* neither enters nor leaves the cycle.
LEMMA MovingKeepsIInv ==
    ASSUME IInv, UNCHANGED <<now, stop, sched, resuming, agent>>,
           pc \in CyclePhases <=> pc' \in CyclePhases, pc' \in RunPhases,
           cycle' \in Cycles, listening' \in BOOLEAN, syncCh' \in BOOLEAN,
           rebasing' \in BOOLEAN, told' \in ErrorTexts \union {NoDetail}
    PROVE  IInv'
BY DEF IInv, TypeOK, SchedSound, SyncingIffInCycle, RestingStateAgrees,
       SnoozeReachesCycle, SnoozeActive

\* So does a call or a scheduler step that takes no state from under a cycle
\* and marks the cycle when it leaves a snooze behind.
LEMMA CallKeepsIInv ==
    ASSUME IInv, UNCHANGED <<now, pc, cycle, told, rebasing>>,
           agent' \in Agents, Agrees(agent'),
           agent'.state = "syncing" <=> agent.state = "syncing",
           agent'.state = "syncing" /\ SnoozeActive(agent')
             => agent'.snoozePending,
           listening' \in BOOLEAN, syncCh' \in BOOLEAN,
           stop' \in {"running", "canceled", "closed"},
           sched' \in Scheds, SchedSound', resuming' \subseteq Clients
    PROVE  IInv'
BY DEF IInv, TypeOK, SyncingIffInCycle, RestingStateAgrees,
       SnoozeReachesCycle, SnoozeActive

\* The invariant holds when the agent starts.
LEMMA FreshFacts ==
    /\ FreshAgent \in Agents /\ FreshAgent.state = "watching"
    /\ Agrees(FreshAgent)
    /\ FreshSched \in Scheds /\ ~FreshSched.active
    /\ (FreshSched.pc # "off" => Windows # <<>>)
    /\ NoCycle \in Cycles
<1>1. FreshAgent \in Agents /\ FreshAgent.state = "watching"
  BY DEF FreshAgent, Agents, States, Instants, Attentions
<1>2. Agrees(FreshAgent)
  BY DEF FreshAgent, Agrees, RetainedState
<1>3. /\ FreshSched \in Scheds /\ ~FreshSched.active
      /\ (FreshSched.pc # "off" => Windows # <<>>)
  BY DEF FreshSched, Scheds, SchedPhases, Instants
<1>4. NoCycle \in Cycles
  BY DEF NoCycle, Cycles, Attentions
<1> QED
  BY <1>1, <1>2, <1>3, <1>4

\* The invariant holds initially.
LEMMA InitIInv == Init => IInv
<1> SUFFICES ASSUME Init PROVE IInv
  OBVIOUS
<1>1. now \in Nat
  BY DayAssumption DEF Init
<1>2. TypeOK
  BY <1>1, FreshFacts, Phases DEF Init, TypeOK
<1>3. SyncingIffInCycle /\ SnoozeReachesCycle
  BY FreshFacts, Phases DEF Init, SyncingIffInCycle, SnoozeReachesCycle
<1> QED
  BY <1>2, <1>3, FreshFacts DEF Init, IInv, SchedSound, RestingStateAgrees

----------------------------------------------------------------------------
(* Every action keeps the invariant *)

\* Every outcome of an external command keeps the invariant.
LEMMA CommandReturnsKeepsIInv ==
    ASSUME IInv, CommandReturns PROVE IInv'
<1>0. /\ agent \in Agents /\ cycle \in Cycles /\ rebasing \in BOOLEAN
      /\ syncCh \in BOOLEAN /\ listening \in BOOLEAN
      /\ told \in ErrorTexts \union {NoDetail}
      /\ [cycle EXCEPT !.selected = FALSE] \in Cycles
  BY DEF IInv, TypeOK, Cycles
<1>1. ASSUME NEW p \in StraightPhases, PhaseSucceeds(p) PROVE IInv'
  <2>1. pc \in CyclePhases /\ After(p) \in CyclePhases
    BY <1>1, Phases, AfterIsInCycle DEF PhaseSucceeds
  <2>2. CASE p = "describe"
    <3>1. UNCHANGED <<outside, rebasing, agent, listening, syncCh, cycle>>
          /\ pc' = After(p)
      BY <1>1, <2>2 DEF PhaseSucceeds
    <3> QED BY <1>0, <2>1, <3>1, Phases, MovingKeepsIInv DEF outside
  <2>3. CASE p # "describe"
    <3> DEFINE c == [cycle EXCEPT !.selected = FALSE]
    <3>1. UNCHANGED <<outside, rebasing>> /\ Checkpoint(agent, After(p), c)
      BY <1>1, <2>3 DEF PhaseSucceeds
    <3> HIDE DEF c
    <3>2. c \in Cycles
      BY <1>0 DEF c
    <3> QED BY <1>0, <2>1, <3>1, <3>2, CheckpointKeepsIInv
  <2> QED BY <2>2, <2>3
<1>2. ASSUME NEW p \in Partitions, StatusRead(p) PROVE IInv'
  <2> DEFINE next == IF p.selected \/ p.unselected # NoDetail
                       THEN "unmerged" ELSE "attention"
             c == [cycle EXCEPT !.selected = p.selected,
                                !.unselected = p.unselected]
  <2>1. pc \in CyclePhases /\ next \in CyclePhases
    BY <1>2, Phases DEF StatusRead
  <2>2. c \in Cycles
    BY <1>0 DEF Cycles, Partitions
  <2>3. Checkpoint(agent, next, c) /\ UNCHANGED <<outside, rebasing>>
    BY <1>2 DEF StatusRead
  <2> HIDE DEF next, c
  <2> QED BY <1>0, <2>1, <2>2, <2>3, CheckpointKeepsIInv
<1>3. ASSUME NEW p \in FalliblePhases, NEW e \in ErrorTexts, PhaseFails(p, e)
      PROVE IInv'
  <2>1. SetError(e) /\ UNCHANGED <<outside, syncCh>> /\ rebasing' \in BOOLEAN
    BY <1>0, <1>3 DEF PhaseFails
  <2> QED BY <1>0, <2>1, SetErrorFacts, Phases, LandingKeepsIInv DEF outside
<1>4. ASSUME NEW e \in ErrorTexts, UnmergedPathsFound(e) PROVE IInv'
  <2>1. SetError(e) /\ UNCHANGED <<outside, syncCh, rebasing>>
    BY <1>4 DEF UnmergedPathsFound
  <2> QED BY <1>0, <2>1, SetErrorFacts, Phases, LandingKeepsIInv DEF outside
<1>5. ASSUME Committed \/ MessageGenerated PROVE IInv'
  BY <1>0, <1>5, Phases, MovingKeepsIInv DEF Committed, MessageGenerated, outside
<1>6. ASSUME Pulled \/ NoRemote \/ PullFindsDirt PROVE IInv'
  <2>1. PICK next \in {"postPull", "prePush", "complete", "incomplete"} :
           Checkpoint(agent, next, cycle)
    BY <1>6 DEF Pulled, NoRemote, PullFindsDirt
  <2>2. pc \in CyclePhases /\ UNCHANGED <<outside, rebasing>>
    BY <1>6, Phases DEF Pulled, NoRemote, PullFindsDirt
  <2> QED BY <1>0, <2>1, <2>2, Phases, CheckpointKeepsIInv
<1>7. ASSUME PullConflicts PROVE IInv'
  BY <1>0, <1>7, Phases, MovingKeepsIInv DEF PullConflicts, outside
<1> QED
  BY <1>1, <1>2, <1>3, <1>4, <1>5, <1>6, <1>7 DEF CommandReturns

\* Every step of the run goroutine itself keeps the invariant.
LEMMA RunStepKeepsIInv ==
    ASSUME IInv, CutShort \/ RunStep \/ Quit PROVE IInv'
<1>0. /\ agent \in Agents /\ cycle \in Cycles /\ rebasing \in BOOLEAN
      /\ syncCh \in BOOLEAN /\ listening \in BOOLEAN /\ now \in Nat
      /\ told \in ErrorTexts \union {NoDetail}
      /\ NoCycle \in Cycles
  BY FreshFacts DEF IInv, TypeOK
<1>1. ASSUME EnterCanceled \/ Quit \/ Poll \/ TakeRequest \/ ExpirySend
      PROVE IInv'
  BY <1>0, <1>1, Phases, MovingKeepsIInv
  DEF EnterCanceled, Quit, Poll, TakeRequest, ExpirySend, outside
<1>2. ASSUME EnterPaused PROVE IInv'
  BY <1>0, <1>2, Phases, RestingFacts, LandingKeepsIInv
  DEF EnterPaused, SetAgent, outside
<1>3. ASSUME EnterCycle PROVE IInv'
  <2> DEFINE a == [ClearSnooze(agent) EXCEPT !.holdoutUntil = ZeroTime,
                                             !.state = "syncing"]
             c == [NoCycle EXCEPT !.hadError = agent.errorDetail # NoDetail]
  <2>1. /\ a \in Agents /\ a.state = "syncing" /\ a.snoozeUntil = ZeroTime
    BY <1>0, ClearSnoozeFacts DEF Agents, States, Instants
  <2>2. c \in Cycles
    BY DEF NoCycle, Cycles, Attentions
  <2>3. /\ agent' = a /\ cycle' = c /\ listening' \in BOOLEAN
        /\ pc' = "branch" /\ UNCHANGED <<outside, syncCh, rebasing>>
    BY <1>3 DEF EnterCycle, SetAgent
  <2> HIDE DEF a, c
  <2>4. Agrees(a)
    BY <2>1 DEF Agrees
  <2> QED BY <1>0, <2>1, <2>2, <2>3, <2>4, Phases
          DEF IInv, TypeOK, SchedSound, SyncingIffInCycle,
              RestingStateAgrees, SnoozeReachesCycle, SnoozeActive, outside
<1>4. ASSUME EvaluateAttention PROVE IInv'
  <2> DEFINE a == [agent EXCEPT !.attentionDetail = cycle.unselected]
             next == IF cycle.unselected = "tracked" THEN "prePush" ELSE "pull"
  <2>1. /\ a \in Agents /\ a.state = agent.state
        /\ a.snoozeUntil = agent.snoozeUntil
        /\ a.snoozePending = agent.snoozePending
    BY <1>0 DEF Agents, Cycles
  <2>2. pc \in CyclePhases /\ next \in CyclePhases
    BY <1>4, Phases DEF EvaluateAttention
  <2>3. Checkpoint(a, next, cycle) /\ UNCHANGED <<outside, rebasing>>
    BY <1>4 DEF EvaluateAttention
  <2> HIDE DEF a, next
  <2> QED BY <1>0, <2>1, <2>2, <2>3, CheckpointKeepsIInv
<1>5. ASSUME \/ \E p \in CancelablePhases : PhaseCanceled(p)
             \/ AbortAfterCancel
      PROVE IInv'
  <2>1. agent.state = "syncing"
    BY <1>5, Phases DEF PhaseCanceled, AbortAfterCancel, IInv, SyncingIffInCycle
  <2>2. agent' = Resting(agent) /\ listening' \in BOOLEAN
    BY <1>5, <2>1 DEF PhaseCanceled, AbortAfterCancel, SetAgent, LeaveSync
  <2>3. rebasing' \in BOOLEAN
    BY <1>0, <1>5 DEF PhaseCanceled, AbortAfterCancel, RebaseAborts
  <2>4. pc' = "loop" /\ cycle' = NoCycle /\ UNCHANGED <<outside, syncCh>>
    BY <1>5 DEF PhaseCanceled, AbortAfterCancel, EndCycle
  <2> QED BY <1>0, <2>2, <2>3, <2>4, Phases, RestingFacts, LandingKeepsIInv
          DEF outside
<1>6. ASSUME PullCanceled PROVE IInv'
  BY <1>0, <1>6, Phases, MovingKeepsIInv DEF PullCanceled, outside
<1>7. ASSUME NEW e \in ErrorTexts, AbortAfterConflict(e) PROVE IInv'
  <2>1. SetError(e) /\ UNCHANGED <<outside, syncCh>> /\ rebasing' \in BOOLEAN
    BY <1>0, <1>7 DEF AbortAfterConflict, RebaseAborts
  <2> QED BY <1>0, <2>1, SetErrorFacts, Phases, LandingKeepsIInv DEF outside
<1>8. ASSUME Complete PROVE IInv'
  <2> DEFINE a == [agent EXCEPT !.errorDetail = NoDetail]
             c == [cycle EXCEPT !.announce = Recovered]
  <2>1. a \in Agents /\ c \in Cycles
    BY <1>0 DEF Agents, Cycles
  <2>2. /\ agent' = Resting(a) /\ listening' \in BOOLEAN
        /\ UNCHANGED <<outside, syncCh, rebasing>>
        /\ \/ pc' = "alert" /\ cycle' = c
           \/ pc' = "loop" /\ cycle' = NoCycle
    BY <1>8 DEF Complete, SetAgent, EndCycle
  <2> HIDE DEF a, c
  <2> QED BY <1>0, <2>1, <2>2, Phases, RestingFacts, LandingKeepsIInv
          DEF outside
<1>9. ASSUME Incomplete PROVE IInv'
  BY <1>0, <1>9, Phases, RestingFacts, LandingKeepsIInv
  DEF Incomplete, SetAgent, EndCycle, outside
<1>10. ASSUME Alert PROVE IInv'
  <2>1. told' \in ErrorTexts \union {NoDetail}
    BY <1>0, <1>10 DEF Alert, Cycles
  <2> QED BY <1>0, <1>10, <2>1, Phases, MovingKeepsIInv DEF Alert, EndCycle
<1>11. ASSUME Loop \/ SnoozeFires PROVE IInv'
  BY <1>0, <1>11, Phases, MovingKeepsIInv DEF Loop, SnoozeFires, outside
<1>12. ASSUME SnoozeExpiry PROVE IInv'
  <2> DEFINE b == ClearSnooze(agent)
  <2>1. agent.state # "syncing"
    BY <1>12, Phases DEF SnoozeExpiry, IInv, SyncingIffInCycle
  <2>2. b \in Agents /\ b.state # "syncing"
    BY <1>0, <2>1, ClearSnoozeFacts
  <2>3. /\ agent' = Rest(b) /\ listening' \in BOOLEAN
        /\ pc' \in {"expirySend", "loop"}
        /\ UNCHANGED <<outside, syncCh, cycle, rebasing>>
    BY <1>12 DEF SnoozeExpiry, SetAgent
  <2>4. agent' = Resting(b)
    BY <2>2, <2>3 DEF Rest
  <2> HIDE DEF b
  <2> QED BY <1>0, <2>2, <2>3, <2>4, Phases, RestingFacts, LandingKeepsIInv
          DEF outside
<1> QED
  BY <1>1, <1>2, <1>3, <1>4, <1>5, <1>6, <1>7, <1>8, <1>9, <1>10, <1>11, <1>12
  DEF CutShort, RunStep

\* Every call of the control plane keeps the invariant.
LEMMA CallKeepsAll ==
    ASSUME IInv, Call \/ (\E c \in Clients : ResumeSend(c)) \/ StopClose
    PROVE  IInv'
<1>0. /\ agent \in Agents /\ Agrees(agent) /\ now \in Nat
      /\ syncCh \in BOOLEAN /\ listening \in BOOLEAN
      /\ stop \in {"running", "canceled", "closed"}
      /\ sched \in Scheds /\ SchedSound /\ resuming \subseteq Clients
      /\ (agent.state = "syncing" /\ SnoozeActive(agent)
            => agent.snoozePending)
  BY DEF IInv, TypeOK, RestingStateAgrees, SnoozeReachesCycle
<1>1. ASSUME TriggerRefusedByHoldout \/ ResumeRefused PROVE IInv'
  <2> DEFINE a == NoteHoldout(agent)
  <2>1. /\ InHoldout /\ agent' = a /\ listening' \in BOOLEAN
        /\ UNCHANGED <<others, syncCh, resuming>>
    BY <1>1 DEF TriggerRefusedByHoldout, ResumeRefused, SetAgent
  <2>2. /\ a \in Agents /\ Agrees(a)
        /\ a.state = IF agent.state = "syncing" THEN "syncing" ELSE "holdout"
        /\ a.snoozeUntil = agent.snoozeUntil
        /\ a.snoozePending = agent.snoozePending
    BY <1>0, <2>1, NoteHoldoutFacts
  <2> HIDE DEF a
  <2> QED BY <1>0, <2>1, <2>2, CallKeepsIInv
          DEF others, SnoozeActive, SchedSound
<1>2. ASSUME TriggerRefusedBySnooze \/ TriggerAccepted PROVE IInv'
  <2>1. /\ agent' = Rest(agent) /\ listening' \in BOOLEAN
        /\ syncCh' \in BOOLEAN /\ UNCHANGED <<others, resuming>>
    BY <1>0, <1>2 DEF TriggerRefusedBySnooze, TriggerAccepted, SetAgent
  <2>2. /\ agent' \in Agents /\ Agrees(agent')
        /\ (agent'.state = "syncing" <=> agent.state = "syncing")
        /\ (agent'.state = "syncing" => agent' = agent)
    BY <1>0, <2>1, RestingFacts DEF Rest
  <2> QED BY <1>0, <2>1, <2>2, CallKeepsIInv DEF others, SchedSound
<1>3. ASSUME NEW d \in Durations, Snooze(d) PROVE IInv'
  <2> DEFINE a == [agent EXCEPT !.snoozeUntil = now + d]
             b == [a EXCEPT !.snoozePending = TRUE]
  <2>1. now + d \in Nat
    BY <1>0, DurationsAssumption
  <2>2. a \in Agents /\ a.state = agent.state
    BY <1>0, <2>1 DEF Agents, Instants
  <2>3. b \in Agents /\ b.state = a.state /\ b.snoozePending
    BY <2>2 DEF Agents
  <2>4. /\ agent' = IF a.state = "syncing" THEN b ELSE Resting(a)
        /\ listening' = FALSE /\ syncCh' = FALSE
        /\ UNCHANGED <<others, resuming>>
    BY <1>3 DEF Snooze
  <2> HIDE DEF a, b
  <2>5. CASE a.state = "syncing"
    <3>1. Agrees(b)
      BY <2>3, <2>5 DEF Agrees
    <3> QED BY <1>0, <2>2, <2>3, <2>4, <2>5, <3>1, CallKeepsIInv
            DEF others, SchedSound
  <2>6. CASE a.state # "syncing"
    BY <1>0, <2>2, <2>4, <2>6, RestingFacts, CallKeepsIInv
    DEF others, SchedSound
  <2> QED BY <2>5, <2>6
<1>4. ASSUME NEW c \in Clients, ResumeAccepted(c) PROVE IInv'
  <2> DEFINE a == [ClearSnooze(agent) EXCEPT !.errorDetail = NoDetail]
  <2>1. a \in Agents /\ a.state = agent.state /\ a.snoozeUntil = ZeroTime
    BY <1>0, ClearSnoozeFacts DEF Agents
  <2>2. /\ agent' = IF InHoldout THEN NoteHoldout(a) ELSE Rest(a)
        /\ listening' \in BOOLEAN /\ resuming' \subseteq Clients
        /\ UNCHANGED <<others, syncCh>>
    BY <1>0, <1>4 DEF ResumeAccepted, SetAgent
  <2> HIDE DEF a
  <2>3. CASE InHoldout
    <3>1. /\ agent' \in Agents /\ Agrees(agent')
          /\ agent'.state = IF a.state = "syncing" THEN "syncing" ELSE "holdout"
          /\ agent'.snoozeUntil = ZeroTime
      BY <1>0, <2>1, <2>2, <2>3, NoteHoldoutFacts
    <3> QED BY <1>0, <2>1, <2>2, <3>1, CallKeepsIInv
            DEF others, SnoozeActive, SchedSound
  <2>4. CASE ~InHoldout /\ a.state = "syncing"
    <3>1. agent' = a
      BY <2>2, <2>4 DEF Rest
    <3>2. Agrees(a)
      BY <2>4 DEF Agrees
    <3> QED BY <1>0, <2>1, <2>2, <2>4, <3>1, <3>2, CallKeepsIInv
            DEF others, SnoozeActive, SchedSound
  <2>5. CASE ~InHoldout /\ a.state # "syncing"
    <3>1. agent' = Resting(a)
      BY <2>2, <2>5 DEF Rest
    <3> QED BY <1>0, <2>1, <2>2, <2>5, <3>1, RestingFacts, CallKeepsIInv
            DEF others, SchedSound
  <2> QED BY <2>3, <2>4, <2>5
<1>5. ASSUME NEW c \in Clients, ResumeSend(c) PROVE IInv'
  BY <1>0, <1>5, CallKeepsIInv DEF ResumeSend, others, SnoozeActive, SchedSound
<1>6. ASSUME StopCancel \/ StopClose PROVE IInv'
  BY <1>0, <1>6, CallKeepsIInv
  DEF StopCancel, StopClose, SnoozeActive, SchedSound
<1> QED
  BY <1>1, <1>2, <1>3, <1>4, <1>5, <1>6 DEF Call

\* Every step of the holdout scheduler keeps the invariant.
LEMMA SchedStepKeepsIInv ==
    ASSUME IInv, SchedStep PROVE IInv'
<1>0. /\ agent \in Agents /\ Agrees(agent) /\ now \in Nat
      /\ syncCh \in BOOLEAN /\ listening \in BOOLEAN
      /\ stop \in {"running", "canceled", "closed"}
      /\ sched \in Scheds /\ SchedSound /\ resuming \subseteq Clients
      /\ (agent.state = "syncing" /\ SnoozeActive(agent)
            => agent.snoozePending)
  BY DEF IInv, TypeOK, RestingStateAgrees, SnoozeReachesCycle
<1>1. ASSUME SchedArm PROVE IInv'
  <2> DEFINE n == NextTransition(Windows, now)
  <2>1. n \in Nat
    <3>1. Windows # <<>>
      BY <1>0, <1>1 DEF SchedArm, SchedSound
    <3> QED BY <1>0, <3>1, NextTransitionIsInstant
  <2>2. /\ sched' = [sched EXCEPT !.pc = "wait", !.at = n]
        /\ sched.pc = "arm"
        /\ UNCHANGED <<exceptSched, agent, listening, syncCh>>
    BY <1>1 DEF SchedArm
  <2> HIDE DEF n
  <2>3. sched' \in Scheds /\ SchedSound'
    BY <1>0, <2>1, <2>2 DEF Scheds, SchedPhases, Instants, SchedSound
  <2> QED BY <1>0, <2>2, <2>3, CallKeepsIInv DEF exceptSched, SnoozeActive
<1>2. ASSUME SchedFires PROVE IInv'
  <2> DEFINE u == IF InHoldout THEN ActiveUntil(Windows, now) ELSE ZeroTime
             h == InHoldout
  <2>1. u \in Instants
    BY <1>0, HoldoutEndIsInstant DEF Instants
  <2>2. h \in BOOLEAN /\ (h => u # ZeroTime)
    <3>1. h \in BOOLEAN
      BY DEF InHoldout, ActiveAt
    <3>2. ASSUME h PROVE u \in Nat
      BY <1>0, <3>2, HoldoutEndIsInstant
    <3> QED BY <3>1, <3>2 DEF ZeroTime
  <2>3. /\ sched' = [pc |-> "apply", at |-> ZeroTime, active |-> h, until |-> u]
        /\ sched.pc = "wait"
        /\ UNCHANGED <<exceptSched, agent, listening, syncCh>>
    BY <1>2 DEF SchedFires
  <2> HIDE DEF u, h
  <2>4. sched' \in Scheds /\ SchedSound'
    BY <1>0, <2>1, <2>2, <2>3 DEF Scheds, SchedPhases, Instants, SchedSound
  <2> QED BY <1>0, <2>3, <2>4, CallKeepsIInv DEF exceptSched, SnoozeActive
<1>3. ASSUME SchedApply PROVE IInv'
  <2>1. sched' \in Scheds /\ SchedSound'
    BY <1>0, <1>3 DEF SchedApply, Scheds, SchedPhases, Instants, SchedSound
  <2>2. UNCHANGED exceptSched /\ listening' \in BOOLEAN /\ syncCh' \in BOOLEAN
    BY <1>0, <1>3 DEF SchedApply, SetAgent
  <2>3. sched.active => sched.until \in Instants \ {ZeroTime}
    BY <1>0 DEF SchedSound, Scheds
  <2> DEFINE noted == [agent EXCEPT !.holdoutUntil = sched.until]
             held == [agent EXCEPT !.holdoutUntil = sched.until,
                                   !.state = "holdout"]
  <2>4. CASE sched.active /\ agent.state = "syncing"
    <3>1. agent' = noted
      BY <1>3, <2>4 DEF SchedApply, SetAgent
    <3>2. /\ noted \in Agents /\ noted.state = "syncing"
          /\ noted.snoozeUntil = agent.snoozeUntil
          /\ noted.snoozePending = agent.snoozePending
      BY <1>0, <2>3, <2>4 DEF Agents
    <3> HIDE DEF noted
    <3>3. Agrees(noted)
      BY <3>2 DEF Agrees
    <3> QED BY <1>0, <2>1, <2>2, <2>4, <3>1, <3>2, <3>3, CallKeepsIInv
            DEF exceptSched, SnoozeActive
  <2>5. CASE sched.active /\ agent.state # "syncing"
    <3>1. agent' = held
      BY <1>3, <2>5 DEF SchedApply, SetAgent
    <3>2. /\ held \in Agents /\ held.state = "holdout"
          /\ held.holdoutUntil # ZeroTime
      BY <1>0, <2>3, <2>5 DEF Agents, States
    <3> HIDE DEF held
    <3>3. Agrees(held)
      BY <3>2 DEF Agrees
    <3> QED BY <1>0, <2>1, <2>2, <2>5, <3>1, <3>2, <3>3, CallKeepsIInv
            DEF exceptSched
  <2>6. CASE ~sched.active
    <3>1. agent' = IF agent.state = "holdout" THEN Resting(agent) ELSE agent
      BY <1>3, <2>6 DEF SchedApply, SetAgent
    <3> QED BY <1>0, <2>1, <2>2, <3>1, RestingFacts, CallKeepsIInv
            DEF exceptSched, SnoozeActive
  <2> QED BY <2>4, <2>5, <2>6
<1>4. ASSUME SchedQuit PROVE IInv'
  <2>1. sched' \in Scheds /\ SchedSound'
    BY <1>0, <1>4 DEF SchedQuit, Scheds, SchedPhases, SchedSound
  <2> QED BY <1>0, <1>4, <2>1, CallKeepsIInv
          DEF SchedQuit, exceptSched, SnoozeActive
<1> QED
  BY <1>1, <1>2, <1>3, <1>4 DEF SchedStep

\* Every step of the specification keeps the invariant; the clock only makes
\* snoozes lapse, and a restart begins afresh.
LEMMA NextKeepsIInv ==
    ASSUME IInv, [Next]_vars PROVE IInv'
<1>1. ASSUME Tick PROVE IInv'
  <2>1. now \in Nat /\ now' = now + 1
    BY <1>1 DEF Tick, IInv, TypeOK
  <2>2. SnoozeActive(agent)' => SnoozeActive(agent)
    BY <1>1, <2>1 DEF Tick, SnoozeActive, IInv, TypeOK, Agents, Instants, ZeroTime
  <2> QED BY <1>1, <2>1, <2>2
          DEF Tick, IInv, TypeOK, SchedSound, SyncingIffInCycle,
              RestingStateAgrees, SnoozeReachesCycle
<1>2. ASSUME OperatorResolves PROVE IInv'
  BY <1>2 DEF OperatorResolves, IInv, TypeOK, SchedSound, SyncingIffInCycle,
              RestingStateAgrees, SnoozeReachesCycle, SnoozeActive
<1>3. ASSUME Crash PROVE IInv'
  <2>1. rebasing' \in BOOLEAN /\ now' \in Nat
    BY <1>3 DEF Crash, IInv, TypeOK
  <2> QED BY <1>3, <2>1, FreshFacts, Phases
          DEF Crash, IInv, TypeOK, SchedSound, SyncingIffInCycle,
              RestingStateAgrees, SnoozeReachesCycle
<1>4. ASSUME UNCHANGED vars PROVE IInv'
  BY <1>4 DEF vars, IInv, TypeOK, SchedSound, SyncingIffInCycle,
              RestingStateAgrees, SnoozeReachesCycle, SnoozeActive
<1> QED
  BY <1>1, <1>2, <1>3, <1>4, CommandReturnsKeepsIInv, RunStepKeepsIInv,
     CallKeepsAll, SchedStepKeepsIInv
  DEF Next

----------------------------------------------------------------------------
(* The theorems *)

\* Everything below rests on this: the inductive invariant holds always.
LEMMA AlwaysIInv == Spec => []IInv
  BY InitIInv, NextKeepsIInv, PTL DEF Spec

\* Every variable keeps its type.
THEOREM TypeCorrect == Spec => []TypeOK
  BY AlwaysIInv, PTL DEF IInv

\* The state says "syncing" exactly while the run goroutine is in a cycle.
THEOREM SyncingIsInCycle == Spec => []SyncingIffInCycle
  BY AlwaysIInv, PTL DEF IInv

\* A state at rest never contradicts the snooze, window, error and attention
\* the agent retains.
THEOREM RestingNeverLies == Spec => []RestingStateAgrees
  BY AlwaysIInv, PTL DEF IInv

\* A snooze in force during a cycle is always marked pending.
THEOREM SnoozeIsPending == Spec => []SnoozeReachesCycle
  BY AlwaysIInv, PTL DEF IInv

----------------------------------------------------------------------------
(* The steps, by what they do to the run goroutine *)

\* The steps that reach a phase boundary.
BoundaryStep ==
    \/ \E p \in StraightPhases : PhaseSucceeds(p)
    \/ \E p \in Partitions : StatusRead(p)
    \/ EvaluateAttention
    \/ Pulled
    \/ NoRemote
    \/ PullFindsDirt

\* The steps that end in setError.
ErrorStep ==
    \/ \E p \in FalliblePhases, e \in ErrorTexts : PhaseFails(p, e)
    \/ \E e \in ErrorTexts : UnmergedPathsFound(e) \/ AbortAfterConflict(e)

\* The steps of the other goroutines, and of time.
OtherStep ==
    \/ Call
    \/ \E c \in Clients : ResumeSend(c)
    \/ StopClose
    \/ SchedStep
    \/ Tick
    \/ UNCHANGED vars

\* Nobody else moves the run goroutine or its locals, and an error detail can
\* only be cleared from outside.
LEMMA OthersLeaveRunAlone ==
    ASSUME IInv, OtherStep
    PROVE  /\ UNCHANGED <<pc, cycle, told, rebasing>>
           /\ agent'.errorDetail \in {agent.errorDetail, NoDetail}
<1>0. agent \in Agents /\ now \in Nat
  BY DEF IInv, TypeOK
<1>1. ASSUME TriggerRefusedByHoldout \/ ResumeRefused
      PROVE  agent'.errorDetail = agent.errorDetail /\ UNCHANGED others
  BY <1>0, <1>1, NoteHoldoutFacts
  DEF TriggerRefusedByHoldout, ResumeRefused, SetAgent
<1>2. ASSUME TriggerRefusedBySnooze \/ TriggerAccepted
      PROVE  agent'.errorDetail = agent.errorDetail /\ UNCHANGED others
  BY <1>0, <1>2, RestingFacts
  DEF TriggerRefusedBySnooze, TriggerAccepted, SetAgent, Rest
<1>3. ASSUME NEW d \in Durations, Snooze(d)
      PROVE  agent'.errorDetail = agent.errorDetail /\ UNCHANGED others
  <2> DEFINE a == [agent EXCEPT !.snoozeUntil = now + d]
             b == [a EXCEPT !.snoozePending = TRUE]
  <2>1. now + d \in Nat
    BY <1>0, DurationsAssumption
  <2>2. /\ a \in Agents /\ a.errorDetail = agent.errorDetail
        /\ b.errorDetail = agent.errorDetail
    BY <1>0, <2>1 DEF Agents, Instants
  <2>3. agent' \in {b, Resting(a)} /\ UNCHANGED others
    BY <1>3 DEF Snooze
  <2> HIDE DEF a, b
  <2> QED BY <1>0, <2>2, <2>3, RestingFacts
<1>4. ASSUME NEW c \in Clients, ResumeAccepted(c)
      PROVE  agent'.errorDetail = NoDetail /\ UNCHANGED others
  <2> DEFINE a == [ClearSnooze(agent) EXCEPT !.errorDetail = NoDetail]
  <2>1. a \in Agents /\ a.errorDetail = NoDetail
    BY <1>0, ClearSnoozeFacts DEF Agents
  <2>2. /\ agent' = IF InHoldout THEN NoteHoldout(a) ELSE Rest(a)
        /\ UNCHANGED others
    BY <1>4 DEF ResumeAccepted, SetAgent
  <2> HIDE DEF a
  <2> QED BY <1>0, <2>1, <2>2, NoteHoldoutFacts, RestingFacts DEF Rest
<1>5. ASSUME \/ StopCancel \/ StopClose \/ Tick \/ UNCHANGED vars
             \/ \E c \in Clients : ResumeSend(c)
             \/ SchedArm \/ SchedFires \/ SchedQuit
      PROVE  UNCHANGED <<agent, pc, cycle, told, rebasing>>
  BY <1>5 DEF StopCancel, StopClose, Tick, vars, ResumeSend, others, SchedArm,
              SchedFires, SchedQuit, exceptSched
<1>6. ASSUME SchedApply
      PROVE  agent'.errorDetail = agent.errorDetail /\ UNCHANGED exceptSched
  <2>1. \/ agent' = [agent EXCEPT !.holdoutUntil = sched.until]
        \/ agent' = [agent EXCEPT !.holdoutUntil = sched.until,
                                  !.state = "holdout"]
        \/ agent' \in {agent, Resting(agent)}
    BY <1>6 DEF SchedApply, SetAgent
  <2>2. UNCHANGED exceptSched
    BY <1>6 DEF SchedApply
  <2> QED BY <1>0, <2>1, <2>2, RestingFacts DEF Agents
<1> QED
  BY <1>1, <1>2, <1>3, <1>4, <1>5, <1>6
  DEF OtherStep, Call, SchedStep, others, exceptSched

\* What a boundary step does: it never touches the error, the rebase or
\* hadError; it leads to the remote only when nothing asks the cycle to stop;
\* and it does not get from the branch check into the cycle over a rebase.
BoundaryOutcome ==
    /\ pc \in CyclePhases \ {"abortConflict", "abortCanceled"}
    /\ pc = "branch" => ~rebasing
    /\ UNCHANGED <<told, rebasing>>
    /\ agent'.errorDetail = agent.errorDetail
    /\ \/ pc' = "loop"
       \/ /\ pc' \in CyclePhases
          /\ cycle'.hadError = cycle.hadError
    /\ pc' \in {"pull", "push"} =>
          ~InHoldout /\ ~SnoozeActive(agent) /\ ~Canceled

\* A checkpoint that hands on the snooze, the error and hadError as they were
\* has that outcome.
LEMMA CheckpointOutcome ==
    ASSUME IInv, pc \in CyclePhases \ {"abortConflict", "abortCanceled"},
           pc = "branch" => ~rebasing,
           NEW a \in Agents, NEW next \in CyclePhases, NEW c \in Cycles,
           a.state = agent.state, a.snoozeUntil = agent.snoozeUntil,
           a.snoozePending = agent.snoozePending,
           a.errorDetail = agent.errorDetail, c.hadError = cycle.hadError,
           Checkpoint(a, next, c), UNCHANGED <<outside, rebasing>>
    PROVE  BoundaryOutcome
<1>1. a.state = "syncing"
  BY DEF IInv, SyncingIffInCycle
<1>2. SnoozeActive(a) => a.snoozePending
  BY <1>1 DEF IInv, SnoozeReachesCycle, SnoozeActive
<1>3. /\ agent'.errorDetail = a.errorDetail
      /\ \/ pc' = "loop"
         \/ /\ pc' = next /\ cycle' = c
            /\ ~Canceled /\ ~InHoldout /\ ~SnoozeActive(a)
  BY <1>1, <1>2, CheckpointFacts
<1> QED
  BY <1>3 DEF BoundaryOutcome, outside, SnoozeActive

\* Every boundary step has that outcome.
LEMMA BoundaryFacts ==
    ASSUME IInv, BoundaryStep PROVE BoundaryOutcome
<1>0. agent \in Agents /\ cycle \in Cycles
  BY DEF IInv, TypeOK
<1>p. /\ StraightPhases \union {"status", "pull", "push", "attention"}
           \subseteq CyclePhases \ {"abortConflict", "abortCanceled"}
      /\ {"unmerged", "attention", "pull", "prePush", "postPull", "complete",
          "incomplete", "generate"} \subseteq CyclePhases \ {"branch"}
  BY DEF CyclePhases, FalliblePhases, StraightPhases
<1>1. ASSUME NEW p \in StraightPhases, PhaseSucceeds(p) PROVE BoundaryOutcome
  <2> DEFINE c == [cycle EXCEPT !.selected = FALSE]
  <2>1. c \in Cycles /\ c.hadError = cycle.hadError
    BY <1>0 DEF Cycles
  <2>2. After(p) \in CyclePhases /\ pc = p /\ (pc = "branch" => ~rebasing)
    BY <1>1, AfterIsInCycle DEF PhaseSucceeds
  <2>3. UNCHANGED <<outside, rebasing>>
    BY <1>1 DEF PhaseSucceeds
  <2>4. CASE p = "describe"
    <3>1. pc' = "generate" /\ UNCHANGED <<agent, cycle>>
      BY <1>1, <2>4 DEF PhaseSucceeds, After, Following
    <3> QED BY <1>p, <2>2, <2>3, <2>4, <3>1 DEF BoundaryOutcome, outside
  <2>5. CASE p # "describe"
    <3>1. Checkpoint(agent, After(p), c)
      BY <1>1, <2>5 DEF PhaseSucceeds
    <3> HIDE DEF c
    <3> QED BY <1>0, <1>p, <2>1, <2>2, <2>3, <3>1, CheckpointOutcome
  <2> QED BY <2>4, <2>5
<1>2. ASSUME NEW p \in Partitions, StatusRead(p) PROVE BoundaryOutcome
  <2> DEFINE next == IF p.selected \/ p.unselected # NoDetail
                       THEN "unmerged" ELSE "attention"
             c == [cycle EXCEPT !.selected = p.selected,
                                !.unselected = p.unselected]
  <2>1. c \in Cycles /\ c.hadError = cycle.hadError
    BY <1>0 DEF Cycles, Partitions
  <2>2. /\ Checkpoint(agent, next, c) /\ UNCHANGED <<outside, rebasing>>
        /\ pc = "status" /\ next \in CyclePhases
    BY <1>2, <1>p DEF StatusRead
  <2> HIDE DEF next, c
  <2> QED BY <1>0, <1>p, <2>1, <2>2, CheckpointOutcome
<1>3. ASSUME EvaluateAttention PROVE BoundaryOutcome
  <2> DEFINE a == [agent EXCEPT !.attentionDetail = cycle.unselected]
             next == IF cycle.unselected = "tracked" THEN "prePush" ELSE "pull"
  <2>1. /\ a \in Agents /\ a.state = agent.state
        /\ a.snoozeUntil = agent.snoozeUntil
        /\ a.snoozePending = agent.snoozePending
        /\ a.errorDetail = agent.errorDetail
    BY <1>0 DEF Agents, Cycles
  <2>2. /\ Checkpoint(a, next, cycle) /\ UNCHANGED <<outside, rebasing>>
        /\ pc = "attention" /\ next \in CyclePhases
    BY <1>3, <1>p DEF EvaluateAttention
  <2> HIDE DEF a, next
  <2> QED BY <1>0, <1>p, <2>1, <2>2, CheckpointOutcome
<1>4. ASSUME Pulled \/ NoRemote \/ PullFindsDirt PROVE BoundaryOutcome
  <2>1. PICK next \in {"postPull", "prePush", "complete", "incomplete"} :
           Checkpoint(agent, next, cycle)
    BY <1>4 DEF Pulled, NoRemote, PullFindsDirt
  <2>2. pc \in {"pull", "push"} /\ UNCHANGED <<outside, rebasing>>
    BY <1>4 DEF Pulled, NoRemote, PullFindsDirt
  <2> QED BY <1>0, <1>p, <2>1, <2>2, CheckpointOutcome
<1> QED
  BY <1>1, <1>2, <1>3, <1>4 DEF BoundaryStep

\* A step that ends in setError leaves the cycle with the new detail, told
\* already or about to be told.
LEMMA ErrorFacts ==
    ASSUME IInv, ErrorStep
    PROVE  /\ pc \in CyclePhases
           /\ agent'.errorDetail \in ErrorTexts
           /\ told' = told
           /\ \/ pc' = "alert" /\ cycle'.announce = agent'.errorDetail
              \/ pc' = "loop" /\ agent'.errorDetail = agent.errorDetail
<1>1. PICK e \in ErrorTexts : SetError(e)
  BY DEF ErrorStep, PhaseFails, UnmergedPathsFound, AbortAfterConflict
<1>2. pc \in CyclePhases /\ UNCHANGED outside
  BY Phases DEF ErrorStep, PhaseFails, UnmergedPathsFound, AbortAfterConflict
<1> QED
  BY <1>1, <1>2, SetErrorFacts DEF outside

\* The steps of the run goroutine that neither reach a boundary nor set an
\* error, with the two of the environment.
RunMove ==
    \/ Committed \/ MessageGenerated \/ PullConflicts
    \/ EnterCanceled \/ EnterPaused \/ EnterCycle
    \/ \E p \in CancelablePhases : PhaseCanceled(p)
    \/ PullCanceled \/ AbortAfterCancel
    \/ Complete \/ Incomplete \/ Alert
    \/ Loop \/ Quit \/ Poll \/ TakeRequest
    \/ SnoozeFires \/ SnoozeExpiry \/ ExpirySend
    \/ OperatorResolves
    \/ Crash

\* These four kinds of step are all there are.
LEMMA NextByKind ==
    ASSUME [Next]_vars PROVE BoundaryStep \/ ErrorStep \/ RunMove \/ OtherStep
BY DEF Next, CommandReturns, CutShort, RunStep, BoundaryStep, ErrorStep, RunMove,
       OtherStep

----------------------------------------------------------------------------
(* The remote *)

\* No pull and no push begins inside a window, under a manual snooze or after
\* shutdown began.
THEOREM RemoteOnlyUnpaused == Spec => RemoteOnlyWhenUnpaused
<1>1. ASSUME IInv, [Next]_vars, pc' # pc, pc' \in {"pull", "push"}
      PROVE  ~InHoldout /\ ~SnoozeActive(agent) /\ ~Canceled
  <2>1. CASE BoundaryStep
    BY <1>1, <2>1, BoundaryFacts DEF BoundaryOutcome
  <2>2. CASE ErrorStep
    BY <1>1, <2>2, ErrorFacts
  <2>3. CASE OtherStep
    BY <1>1, <2>3, OthersLeaveRunAlone
  <2>4. CASE RunMove
    BY <1>1, <2>4
    DEF RunMove, Committed, MessageGenerated, PullConflicts, EnterCanceled,
        EnterPaused, EnterCycle, PhaseCanceled, PullCanceled, AbortAfterCancel,
        Complete, Incomplete, Alert, Loop, Quit, Poll, TakeRequest,
        SnoozeFires, SnoozeExpiry, ExpirySend, OperatorResolves, Crash, EndCycle
  <2> QED BY <1>1, <2>1, <2>2, <2>3, <2>4, NextByKind
<1> QED
  BY <1>1, AlwaysIInv, PTL DEF Spec, RemoteOnlyWhenUnpaused

----------------------------------------------------------------------------
(* Requests *)

\* A checkpoint drains the channel only where it pauses the cycle.
LEMMA CheckpointDrains ==
    ASSUME now \in Nat, NEW a \in Agents, NEW next, NEW c,
           Checkpoint(a, next, c), syncCh, ~syncCh'
    PROVE  agent'.state \in {"holdout", "snoozed"}
<1>1. CASE InHoldout
  <2>1. agent' = [EnterHoldout(a) EXCEPT !.snoozePending = FALSE]
    BY <1>1 DEF Checkpoint, SetAgent
  <2> QED BY <1>1, <2>1, EnterHoldoutFacts
<1>2. CASE ~InHoldout
  <2>1. agent' = Resting(a) /\ SnoozeActive(a)
    BY <1>2 DEF Checkpoint, SetAgent
  <2> QED BY <1>2, <2>1 DEF Resting, Agents
<1> QED BY <1>1, <1>2

\* A snooze of some length that empties the channel shows as a pause, or is in
\* force.
LEMMA SnoozePauses ==
    ASSUME now \in Nat, agent \in Agents, NEW d \in Nat \ {0}, Snooze(d)
    PROVE  Pausing'
<1> DEFINE a == [agent EXCEPT !.snoozeUntil = now + d]
<1>1. /\ now' = now /\ ZeroTime \notin Nat
      /\ a \in Agents /\ a.snoozeUntil = now + d /\ SnoozeActive(a)
  BY DEF Snooze, others, Agents, Instants, SnoozeActive, ZeroTime
<1>2. agent' = IF a.state = "syncing" THEN [a EXCEPT !.snoozePending = TRUE]
                                      ELSE Resting(a)
  BY DEF Snooze
<1> HIDE DEF a
<1>3. CASE a.state = "syncing"
  <2>1. agent'.snoozeUntil = now + d
    BY <1>1, <1>2, <1>3 DEF Agents
  <2> QED BY <1>1, <2>1 DEF Pausing, SnoozeActive
<1>4. CASE a.state # "syncing"
  <2>1. agent'.state \in {"holdout", "snoozed"}
    BY <1>1, <1>2, <1>4 DEF Resting, EnterHoldout, Agents
  <2> QED BY <2>1 DEF Pausing
<1> QED
  BY <1>3, <1>4

\* A sync that is owed, to a caller or after a restart, begins unless the agent
\* pauses or shutdown began.  The snoozes have some length: one of no length
\* empties the channel and pauses nothing.
THEOREM RequestsKept ==
    ASSUME 0 \notin Durations
    PROVE  Spec => RequestsDroppedOnlyByPauses
<1> DEFINE Kept == pc' = "branch" \/ Canceled \/ Pausing'
<1>1. ASSUME IInv, [Next]_vars, Owed, ~Owed' PROVE Kept
  <2>0. /\ now \in Nat /\ agent \in Agents
        /\ syncCh \/ pc = "enter"
        /\ ~syncCh' /\ pc' # "enter"
    BY <1>1 DEF IInv, TypeOK, Owed
  <2>1. CASE BoundaryStep
    <3> DEFINE b == [agent EXCEPT !.attentionDetail = cycle.unselected]
    <3>0. syncCh
      BY <1>1, <2>1, BoundaryFacts, Phases DEF BoundaryOutcome, Owed
    <3>1. b \in Agents
      BY <1>1, <2>0 DEF IInv, TypeOK, Agents, Cycles
    <3>2. ASSUME NEW p \in StraightPhases, PhaseSucceeds(p) PROVE Kept
      BY <2>0, <3>0, <3>2, CheckpointDrains DEF PhaseSucceeds, Pausing
    <3>3. ASSUME NEW p \in Partitions, StatusRead(p) PROVE Kept
      BY <2>0, <3>0, <3>3, CheckpointDrains DEF StatusRead, Pausing
    <3>4. CASE EvaluateAttention
      BY <2>0, <3>0, <3>1, <3>4, CheckpointDrains DEF EvaluateAttention, Pausing
    <3>5. CASE Pulled \/ NoRemote \/ PullFindsDirt
      BY <2>0, <3>0, <3>5, CheckpointDrains
      DEF Pulled, NoRemote, PullFindsDirt, Pausing
    <3> QED BY <2>1, <3>2, <3>3, <3>4, <3>5 DEF BoundaryStep
  <2>2. CASE ErrorStep
    <3>1. pc # "enter"
      BY <1>1, <2>2, ErrorFacts, Phases
    <3> QED
      BY <2>0, <2>2, <3>1
      DEF ErrorStep, PhaseFails, UnmergedPathsFound, AbortAfterConflict
  <2>3. CASE OtherStep
    <3>0. syncCh /\ pc' = pc
      BY <1>1, <2>0, <2>3, OthersLeaveRunAlone DEF Owed
    <3>1. CASE SchedApply
      <4>1. CASE sched.active
        <5>1. agent' = [agent EXCEPT !.holdoutUntil = sched.until,
                                     !.state = "holdout"]
          BY <2>0, <3>0, <3>1, <4>1 DEF SchedApply, SetAgent
        <5> QED BY <2>0, <5>1 DEF Agents, Pausing
      <4>2. CASE ~sched.active
        BY <2>0, <3>0, <3>1, <4>2 DEF SchedApply
      <4> QED BY <4>1, <4>2
    <3>2. CASE SchedArm \/ SchedFires \/ SchedQuit
      BY <2>0, <3>0, <3>2 DEF SchedArm, SchedFires, SchedQuit
    <3>3. ASSUME NEW d \in Durations, Snooze(d) PROVE Kept
      BY <2>0, <3>3, SnoozePauses, DurationsAssumption
    <3>4. CASE Call /\ ~\E d \in Durations : Snooze(d)
      BY <2>0, <3>0, <3>4
      DEF Call, TriggerRefusedByHoldout, TriggerRefusedBySnooze, TriggerAccepted,
          ResumeRefused, ResumeAccepted, StopCancel
    <3>5. CASE StopClose \/ Tick \/ UNCHANGED vars \/ \E c \in Clients : ResumeSend(c)
      BY <2>0, <3>0, <3>5 DEF StopClose, Tick, vars, ResumeSend
    <3> QED BY <2>3, <3>1, <3>2, <3>3, <3>4, <3>5 DEF OtherStep, SchedStep
  <2>4. CASE RunMove
    <3>1. CASE EnterPaused
      <4>1. agent'.state \in {"holdout", "snoozed"}
        BY <2>0, <3>1 DEF EnterPaused, SetAgent, Resting, EnterHoldout, Agents
      <4> QED BY <4>1 DEF Pausing
    <3>2. CASE EnterCanceled \/ EnterCycle
      BY <3>2 DEF EnterCanceled, EnterCycle
    <3>3. CASE Committed \/ MessageGenerated \/ PullConflicts \/ PullCanceled
               \/ AbortAfterCancel \/ \E p \in CancelablePhases : PhaseCanceled(p)
      BY <2>0, <3>3, Phases
      DEF Committed, MessageGenerated, PullConflicts, PullCanceled,
          AbortAfterCancel, PhaseCanceled
    <3>4. CASE Complete \/ Incomplete \/ Alert \/ Loop \/ Quit \/ Poll
               \/ SnoozeFires \/ SnoozeExpiry \/ ExpirySend
      BY <2>0, <3>4
      DEF Complete, Incomplete, Alert, Loop, Quit, Poll, SnoozeFires,
          SnoozeExpiry, ExpirySend
    <3>5. CASE TakeRequest \/ OperatorResolves \/ Crash
      BY <2>0, <3>5 DEF TakeRequest, OperatorResolves, Crash
    <3> QED BY <2>4, <3>1, <3>2, <3>3, <3>4, <3>5 DEF RunMove
  <2> QED BY <1>1, <2>1, <2>2, <2>3, <2>4, NextByKind
<1> QED
  BY <1>1, AlwaysIInv, PTL DEF Spec, RequestsDroppedOnlyByPauses

----------------------------------------------------------------------------
(* The rebase *)

\* No cycle gets past the branch check over a rebase in progress.
THEOREM NothingOverRebase == Spec => []NoWorkOverRebase
<1>1. Init => NoWorkOverRebase
  BY DEF Init, NoWorkOverRebase
<1>2. ASSUME IInv, NoWorkOverRebase, [Next]_vars PROVE NoWorkOverRebase'
  <2>1. CASE BoundaryStep
    BY <1>2, <2>1, BoundaryFacts, Phases DEF BoundaryOutcome, NoWorkOverRebase
  <2>2. CASE ErrorStep
    BY <1>2, <2>2, ErrorFacts, Phases DEF NoWorkOverRebase
  <2>3. CASE OtherStep
    BY <1>2, <2>3, OthersLeaveRunAlone DEF NoWorkOverRebase
  <2>4. CASE RunMove
    <3>1. CASE Committed \/ MessageGenerated
      BY <1>2, <3>1, Phases DEF Committed, MessageGenerated, NoWorkOverRebase
    <3>2. CASE PullConflicts \/ PullCanceled
      BY <3>2 DEF PullConflicts, PullCanceled, NoWorkOverRebase
    <3>3. CASE EnterCycle
      BY <3>3 DEF EnterCycle, NoWorkOverRebase
    <3>4. CASE OperatorResolves
      BY <3>4 DEF OperatorResolves, NoWorkOverRebase
    <3>5. CASE \/ EnterCanceled \/ EnterPaused \/ AbortAfterCancel
               \/ \E p \in CancelablePhases : PhaseCanceled(p)
               \/ Complete \/ Incomplete \/ Alert \/ Loop \/ Quit \/ Poll
               \/ TakeRequest \/ SnoozeFires \/ SnoozeExpiry \/ ExpirySend
               \/ Crash
      <4>1. pc' \in {"enter", "alert", "loop", "select", "expiry",
                     "expirySend", "done"}
        BY <3>5 DEF EnterCanceled, EnterPaused, AbortAfterCancel, PhaseCanceled,
             Complete, Incomplete, Alert, Loop, Quit, Poll, TakeRequest,
             SnoozeFires, SnoozeExpiry, ExpirySend, Crash, EndCycle
      <4> QED BY <4>1, Phases DEF NoWorkOverRebase
    <3> QED BY <2>4, <3>1, <3>2, <3>3, <3>4, <3>5 DEF RunMove
  <2> QED BY <1>2, <2>1, <2>2, <2>3, <2>4, NextByKind
<1> QED
  BY <1>1, <1>2, AlwaysIInv, PTL DEF Spec

\* While aborts work, conflicts are recognised and the process lives, the
\* repository is mid-rebase only until the abort that follows.
THEOREM RebaseAlwaysAborted == Spec => []RebaseIsAborted
<1>1. Init => RebaseIsAborted
  BY DEF Init, RebaseIsAborted
<1>2. ASSUME IInv, RebaseIsAborted, [Next]_vars PROVE RebaseIsAborted'
  <2> SUFFICES ASSUME Faults = {}, rebasing' = TRUE
               PROVE  pc' \in {"abortConflict", "abortCanceled"}
    BY DEF RebaseIsAborted, IInv, TypeOK
  <2>0. /\ rebasing => pc \in {"abortConflict", "abortCanceled"}
        /\ rebasing \in BOOLEAN
    BY <1>2 DEF RebaseIsAborted, IInv, TypeOK
  <2>1. CASE BoundaryStep
    BY <1>2, <2>0, <2>1, BoundaryFacts DEF BoundaryOutcome
  <2>2. CASE ErrorStep
    BY <1>2, <2>0, <2>2
    DEF ErrorStep, PhaseFails, UnmergedPathsFound, AbortAfterConflict,
        RebaseAborts, FalliblePhases, StraightPhases
  <2>3. CASE OtherStep
    BY <1>2, <2>0, <2>3, OthersLeaveRunAlone
  <2>4. CASE RunMove
    BY <2>0, <2>4
    DEF RunMove, Committed, MessageGenerated, PullConflicts, EnterCanceled,
        EnterPaused, EnterCycle, PhaseCanceled, PullCanceled, AbortAfterCancel,
        Complete, Incomplete, Alert, Loop, Quit, Poll, TakeRequest,
        SnoozeFires, SnoozeExpiry, ExpirySend, OperatorResolves, Crash,
        RebaseAborts, CancelablePhases, FalliblePhases, StraightPhases
  <2> QED BY <1>2, <2>1, <2>2, <2>3, <2>4, NextByKind
<1> QED
  BY <1>1, <1>2, AlwaysIInv, PTL DEF Spec

----------------------------------------------------------------------------
(* The errors *)

\* The strengthening of StandingErrorTold: an error that stands has been told,
\* or is the one in the alert that is being sent; and a cycle over a standing
\* error began with one.
ErrorsInv ==
    /\ agent.errorDetail # NoDetail =>
          IF pc = "alert" THEN cycle.announce = agent.errorDetail
                          ELSE told = agent.errorDetail
    /\ pc \in CyclePhases /\ agent.errorDetail # NoDetail => cycle.hadError

\* The strengthening holds initially, and every step keeps it.
LEMMA AlwaysErrorsInv == Spec => []ErrorsInv
<1>1. Init => ErrorsInv
  BY DEF Init, ErrorsInv, FreshAgent
<1>2. ASSUME IInv, ErrorsInv, [Next]_vars PROVE ErrorsInv'
  <2>0. agent \in Agents /\ cycle \in Cycles /\ now \in Nat
    BY <1>2 DEF IInv, TypeOK
  <2>p. {"enter", "alert", "loop", "select", "expiry", "expirySend", "done"}
          \intersect CyclePhases = {}
    BY Phases
  <2>1. CASE BoundaryStep
    BY <1>2, <2>1, <2>p, BoundaryFacts DEF BoundaryOutcome, ErrorsInv
  <2>2. CASE ErrorStep
    BY <1>2, <2>2, <2>p, ErrorFacts DEF ErrorsInv
  <2>3. CASE OtherStep
    BY <1>2, <2>3, OthersLeaveRunAlone DEF ErrorsInv
  <2>4. CASE RunMove
    <3>1. CASE EnterCycle
      <4>1. /\ agent' = [ClearSnooze(agent) EXCEPT !.holdoutUntil = ZeroTime,
                                                   !.state = "syncing"]
            /\ cycle' = [NoCycle EXCEPT !.hadError = agent.errorDetail # NoDetail]
            /\ pc = "enter" /\ pc' = "branch" /\ told' = told
        BY <3>1 DEF EnterCycle, SetAgent, outside
      <4>2. agent'.errorDetail = agent.errorDetail
        BY <2>0, <4>1, ClearSnoozeFacts DEF Agents
      <4>3. cycle'.hadError = (agent.errorDetail # NoDetail)
        BY <4>1 DEF NoCycle
      <4> QED BY <1>2, <4>1, <4>2, <4>3 DEF ErrorsInv
    <3>2. CASE Alert
      <4>1. /\ pc = "alert" /\ pc' = "loop" /\ agent' = agent
            /\ told' = IF cycle.announce = Recovered THEN NoDetail
                                                     ELSE cycle.announce
        BY <3>2 DEF Alert, EndCycle
      <4>2. agent.errorDetail # Recovered
        BY <2>0, TextsAssumption DEF Agents, NoDetail, Recovered
      <4> QED BY <1>2, <2>p, <4>1, <4>2 DEF ErrorsInv
    <3>3. CASE Complete
      <4> DEFINE a == [agent EXCEPT !.errorDetail = NoDetail]
      <4>1. a \in Agents /\ a.errorDetail = NoDetail
        BY <2>0 DEF Agents
      <4>2. agent' = Resting(a)
        BY <3>3 DEF Complete, SetAgent
      <4> HIDE DEF a
      <4> QED BY <2>0, <4>1, <4>2, RestingFacts DEF ErrorsInv
    <3>4. CASE \/ EnterPaused \/ Incomplete \/ AbortAfterCancel
               \/ \E p \in CancelablePhases : PhaseCanceled(p)
               \/ SnoozeExpiry
      <4>1. /\ pc # "alert"
            /\ pc' \in {"loop", "expirySend"}
            /\ told' = told
            /\ agent' \in {Resting(agent), LeaveSync(agent),
                           Rest(ClearSnooze(agent))}
        BY <3>4, Phases
        DEF EnterPaused, Incomplete, AbortAfterCancel, PhaseCanceled,
            SnoozeExpiry, SetAgent, EndCycle, outside
      <4>2. agent'.errorDetail = agent.errorDetail
        BY <2>0, <4>1, RestingFacts, ClearSnoozeFacts DEF LeaveSync, Rest
      <4> QED BY <1>2, <2>p, <4>1, <4>2 DEF ErrorsInv
    <3>5. CASE Crash
      BY <3>5 DEF Crash, FreshAgent, ErrorsInv
    <3>6. CASE \/ Committed \/ MessageGenerated \/ PullConflicts \/ PullCanceled
      <4>1. pc \in CyclePhases /\ pc # "alert" /\ pc' # "alert"
            /\ UNCHANGED <<told, agent, cycle>>
        BY <3>6, Phases
        DEF Committed, MessageGenerated, PullConflicts, PullCanceled, outside
      <4> QED BY <1>2, <4>1 DEF ErrorsInv
    <3>7. CASE \/ EnterCanceled \/ Loop \/ Quit \/ Poll \/ TakeRequest
               \/ SnoozeFires \/ ExpirySend
      <4>1. pc # "alert" /\ UNCHANGED <<told, agent, cycle>>
            /\ pc' \in {"enter", "loop", "select", "expiry", "expirySend",
                        "done"}
        BY <3>7 DEF EnterCanceled, Loop, Quit, Poll, TakeRequest, SnoozeFires,
                    ExpirySend, outside
      <4> QED BY <1>2, <2>p, <4>1 DEF ErrorsInv
    <3>8. CASE OperatorResolves
      BY <1>2, <3>8 DEF OperatorResolves, ErrorsInv
    <3> QED BY <2>4, <3>1, <3>2, <3>3, <3>4, <3>5, <3>6, <3>7, <3>8 DEF RunMove
  <2> QED BY <1>2, <2>1, <2>2, <2>3, <2>4, NextByKind
<1> QED
  BY <1>1, <1>2, AlwaysIInv, PTL DEF Spec

\* An error that stands while the agent waits has been told, and no other was
\* told since.
THEOREM StandingErrorsTold == Spec => []StandingErrorTold
<1>1. ErrorsInv => StandingErrorTold
  BY DEF ErrorsInv, StandingErrorTold
<1> QED
  BY <1>1, AlwaysErrorsInv, PTL

\* A cycle that completes over a standing error announces the recovery.
THEOREM RecoveriesAnnounced == Spec => RecoveryAnnounced
<1>1. ASSUME IInv, ErrorsInv, [Next]_vars, pc = "complete",
             pc' \in {"alert", "loop"}, agent.errorDetail # NoDetail
      PROVE  cycle'.announce = Recovered
  <2>1. cycle.hadError /\ cycle \in Cycles
    BY <1>1, Phases DEF ErrorsInv, IInv, TypeOK
  <2>2. Complete
    BY <1>1
    DEF Next, CommandReturns, CutShort, RunStep, SchedStep, Call, vars,
        PhaseSucceeds, StatusRead, PhaseFails, UnmergedPathsFound, Committed,
        MessageGenerated, Pulled, PullConflicts, NoRemote, PullFindsDirt,
        EnterCanceled, EnterPaused, EnterCycle, EvaluateAttention,
        PhaseCanceled, PullCanceled, AbortAfterConflict, AbortAfterCancel,
        Incomplete, Alert, Loop, Quit, Poll, TakeRequest, SnoozeFires,
        SnoozeExpiry, ExpirySend, SchedArm, SchedFires, SchedApply, SchedQuit,
        exceptSched, TriggerRefusedByHoldout, TriggerRefusedBySnooze,
        TriggerAccepted, Snooze, ResumeRefused, ResumeAccepted, ResumeSend,
        others, StopCancel, StopClose, Tick, OperatorResolves, Crash,
        StraightPhases, FalliblePhases, CancelablePhases
  <2> QED BY <2>1, <2>2 DEF Complete, Cycles
<1> QED
  BY <1>1, AlwaysIInv, AlwaysErrorsInv, PTL DEF Spec, RecoveryAnnounced

----------------------------------------------------------------------------
(* The steps of the gate, as the agent takes them *)

\* A stage of a cycle is a number from 1 to 19.
LEMMA StageRange ==
    \A p \in CyclePhases : StageOf[p] \in 1..19
BY DEF StageOf, CyclePhases, FalliblePhases, StraightPhases

\* The reasons depend on the clock, the context and the snooze only.
LEMMA SameHolds ==
    ASSUME UNCHANGED <<now, stop>>,
           SnoozeActive(agent') <=> SnoozeActive(agent)
    PROVE  Holds' = Holds
<1>1. SnoozeActive(agent)' <=> SnoozeActive(agent)
  BY DEF SnoozeActive
<1>2. InHoldout' <=> InHoldout
  BY DEF InHoldout
<1>3. Canceled' <=> Canceled
  BY DEF Canceled
<1> QED
  BY <1>1, <1>2, <1>3 DEF Holds

\* A step that goes on inside the cycle, to a later stage.
LEMMA GateAdvances ==
    ASSUME pc \notin CyclePhases \/ StageOf[pc] < StageOf[pc'],
           pc' \in CyclePhases, pc \in CyclePhases \/ pc = "enter",
           \/ ~InHoldout /\ ~SnoozeActive(agent) /\ ~Canceled
           \/ pc \in CyclePhases /\ <<StageOf[pc], StageOf[pc']>> \in AtOnceStages,
           Holds' = Holds
    PROVE  Gate!Next
<1>1. Stage' \in (Stage + 1)..19
  BY StageRange DEF Stage
<1>2. Holds = {} \/ <<Stage, Stage'>> \in AtOnceStages
  BY DEF Holds, Stage
<1> QED
  BY <1>1, <1>2 DEF Gate!Next, Gate!Advance

\* A step that lands outside the cycle.
LEMMA GateLeaves ==
    ASSUME pc' \notin CyclePhases, Holds' = Holds
    PROVE  Gate!Next
BY DEF Gate!Next, Gate!Leave, Stage

\* A step that leaves the run goroutine where it is.
LEMMA GateAsks ==
    ASSUME Stage' = Stage
    PROVE  Gate!Next
<1>1. Holds' \in SUBSET {"holdout", "snooze", "stop"}
  BY DEF Holds
<1> QED
  BY <1>1 DEF Gate!Next, Gate!Ask

----------------------------------------------------------------------------
(* What the helpers do to a snooze in force *)

\* Resting neither ends a snooze in force nor starts one.
LEMMA RestingKeepsSnooze ==
    ASSUME now \in Nat, NEW a \in Agents
    PROVE  /\ SnoozeActive(Resting(a)) <=> SnoozeActive(a)
           /\ SnoozeActive(LeaveSync(a)) <=> SnoozeActive(a)
<1>1. SnoozeActive(Resting(a)) <=> SnoozeActive(a)
  <2>1. CASE InHoldout
    <3>1. Resting(a).snoozeUntil = a.snoozeUntil
      BY <2>1 DEF Resting, EnterHoldout, Agents
    <3> QED BY <3>1 DEF SnoozeActive
  <2>2. CASE ~InHoldout /\ SnoozeActive(a)
    <3>1. Resting(a).snoozeUntil = a.snoozeUntil
      BY <2>2 DEF Resting, Agents
    <3> QED BY <3>1 DEF SnoozeActive
  <2>3. CASE ~InHoldout /\ ~SnoozeActive(a)
    <3>1. Resting(a).snoozeUntil = ZeroTime
      BY <2>3 DEF Resting, ClearSnooze, Agents
    <3> QED BY <2>3, <3>1 DEF SnoozeActive
  <2> QED BY <2>1, <2>2, <2>3
<1> QED
  BY <1>1 DEF LeaveSync

\* A checkpoint either ends the cycle, or nothing asks to hold; either way the
\* snooze stands as it stood.
LEMMA CheckpointAtGate ==
    ASSUME IInv, pc \in CyclePhases,
           NEW a \in Agents, NEW next \in CyclePhases, NEW c \in Cycles,
           a.state = agent.state, a.snoozeUntil = agent.snoozeUntil,
           a.snoozePending = agent.snoozePending,
           StageOf[pc] < StageOf[next],
           Checkpoint(a, next, c), UNCHANGED <<outside, rebasing>>
    PROVE  Gate!Next
<1>0. now \in Nat
  BY DEF IInv, TypeOK
<1>1. a.state = "syncing"
  BY DEF IInv, SyncingIffInCycle
<1>2. SnoozeActive(a) => a.snoozePending
  BY <1>1 DEF IInv, SnoozeReachesCycle, SnoozeActive
<1>3. \/ agent' \in {Resting(a), LeaveSync(a), a}
      \/ agent' = [EnterHoldout(a) EXCEPT !.snoozePending = FALSE]
      \/ agent' = ClearSnooze(a) /\ ~SnoozeActive(a)
  BY DEF Checkpoint, SetAgent
<1>4. SnoozeActive(agent') <=> SnoozeActive(a)
  <2>1. [EnterHoldout(a) EXCEPT !.snoozePending = FALSE].snoozeUntil
           = a.snoozeUntil
    BY DEF EnterHoldout, Agents
  <2>2. ClearSnooze(a).snoozeUntil = ZeroTime
    BY ClearSnoozeFacts
  <2> QED BY <1>0, <1>3, <2>1, <2>2, RestingKeepsSnooze DEF SnoozeActive
<1>5. Holds' = Holds
  BY <1>4, SameHolds DEF SnoozeActive, outside
<1>6. \/ pc' = "loop"
      \/ pc' = next /\ ~InHoldout /\ ~SnoozeActive(agent) /\ ~Canceled
  BY <1>1, <1>2, CheckpointFacts DEF SnoozeActive
<1> QED
  BY <1>5, <1>6, Phases, GateAdvances, GateLeaves

----------------------------------------------------------------------------
(* Every step of the agent *)

\* A straight phase leads to a later stage.
LEMMA AfterIsLater ==
    ASSUME NEW p \in StraightPhases
    PROVE  StageOf[p] < StageOf[After(p)]
<1>1. CASE p = "unmerged"
  BY <1>1 DEF After, StageOf
<1>2. CASE p # "unmerged"
  <2>1. After(p) = Following[p] /\ p \in StraightPhases \ {"unmerged"}
    BY <1>2 DEF After
  <2> QED
    BY <2>1 DEF Following, StageOf, StraightPhases
<1> QED
  BY <1>1, <1>2

\* The steps that reach a phase boundary.
LEMMA BoundaryAtGate ==
    ASSUME IInv, BoundaryStep PROVE Gate!Next
<1>0. agent \in Agents /\ cycle \in Cycles
  BY DEF IInv, TypeOK
<1>1. ASSUME NEW p \in StraightPhases, PhaseSucceeds(p) PROVE Gate!Next
  <2> DEFINE c == [cycle EXCEPT !.selected = FALSE]
  <2>1. c \in Cycles
    BY <1>0 DEF Cycles
  <2>2. /\ After(p) \in CyclePhases /\ pc = p /\ pc \in CyclePhases
        /\ StageOf[pc] < StageOf[After(p)]
    BY <1>1, AfterIsInCycle, AfterIsLater, Phases DEF PhaseSucceeds
  <2>3. UNCHANGED <<outside, rebasing>>
    BY <1>1 DEF PhaseSucceeds
  <2>4. CASE p = "describe"
    <3>1. pc' = "generate" /\ UNCHANGED agent
      BY <1>1, <2>4 DEF PhaseSucceeds, After, Following
    <3>2. <<StageOf["describe"], StageOf["generate"]>> \in AtOnceStages
      BY DEF StageOf, AtOnceStages
    <3>3. StageOf["describe"] < StageOf["generate"]
      BY DEF StageOf
    <3>4. Holds' = Holds
      BY <2>3, <3>1, SameHolds DEF outside
    <3> QED BY <2>2, <2>4, <3>1, <3>2, <3>3, <3>4, Phases, GateAdvances
  <2>5. CASE p # "describe"
    <3>1. Checkpoint(agent, After(p), c)
      BY <1>1, <2>5 DEF PhaseSucceeds
    <3> HIDE DEF c
    <3> QED BY <1>0, <2>1, <2>2, <2>3, <3>1, CheckpointAtGate
  <2> QED BY <2>4, <2>5
<1>2. ASSUME NEW p \in Partitions, StatusRead(p) PROVE Gate!Next
  <2> DEFINE next == IF p.selected \/ p.unselected # NoDetail
                       THEN "unmerged" ELSE "attention"
             c == [cycle EXCEPT !.selected = p.selected,
                                !.unselected = p.unselected]
  <2>1. c \in Cycles
    BY <1>0 DEF Cycles, Partitions
  <2>2. /\ Checkpoint(agent, next, c) /\ UNCHANGED <<outside, rebasing>>
        /\ pc = "status"
    BY <1>2 DEF StatusRead
  <2>3. /\ pc \in CyclePhases /\ next \in CyclePhases
        /\ StageOf[pc] < StageOf[next]
    BY <2>2, Phases DEF StageOf
  <2> HIDE DEF next, c
  <2> QED BY <1>0, <2>1, <2>2, <2>3, CheckpointAtGate
<1>3. ASSUME EvaluateAttention PROVE Gate!Next
  <2> DEFINE a == [agent EXCEPT !.attentionDetail = cycle.unselected]
             next == IF cycle.unselected = "tracked" THEN "prePush" ELSE "pull"
  <2>1. /\ a \in Agents /\ a.state = agent.state
        /\ a.snoozeUntil = agent.snoozeUntil
        /\ a.snoozePending = agent.snoozePending
    BY <1>0 DEF Agents, Cycles
  <2>2. /\ Checkpoint(a, next, cycle) /\ UNCHANGED <<outside, rebasing>>
        /\ pc = "attention"
    BY <1>3 DEF EvaluateAttention
  <2>3. /\ pc \in CyclePhases /\ next \in CyclePhases
        /\ StageOf[pc] < StageOf[next]
    BY <2>2, Phases DEF StageOf
  <2> HIDE DEF a, next
  <2> QED BY <1>0, <2>1, <2>2, <2>3, CheckpointAtGate
<1>4. ASSUME Pulled \/ NoRemote \/ PullFindsDirt PROVE Gate!Next
  <2>1. PICK next \in {"postPull", "prePush", "complete", "incomplete"} :
           /\ Checkpoint(agent, next, cycle)
           /\ \/ pc = "pull"
              \/ pc = "push" /\ next = "complete"
    BY <1>4 DEF Pulled, NoRemote, PullFindsDirt
  <2>2. UNCHANGED <<outside, rebasing>>
    BY <1>4 DEF Pulled, NoRemote, PullFindsDirt
  <2>3. /\ pc \in CyclePhases /\ next \in CyclePhases
        /\ StageOf[pc] < StageOf[next]
    BY <2>1, Phases DEF StageOf
  <2> QED BY <1>0, <2>1, <2>2, <2>3, CheckpointAtGate
<1> QED
  BY <1>1, <1>2, <1>3, <1>4 DEF BoundaryStep

\* The steps that end in setError leave the cycle and no snooze.
LEMMA ErrorAtGate ==
    ASSUME IInv, ErrorStep PROVE Gate!Next
<1>0. now \in Nat /\ agent \in Agents
  BY DEF IInv, TypeOK
<1>1. PICK e \in ErrorTexts : SetError(e)
  BY DEF ErrorStep, PhaseFails, UnmergedPathsFound, AbortAfterConflict
<1>2. UNCHANGED outside
  BY DEF ErrorStep, PhaseFails, UnmergedPathsFound, AbortAfterConflict
<1> DEFINE a == [agent EXCEPT !.errorDetail = e]
<1>3. a \in Agents /\ a.snoozeUntil = agent.snoozeUntil
  BY <1>0 DEF Agents
<1>4. agent' = Resting(a) /\ pc' \in {"alert", "loop"}
  BY <1>1 DEF SetError, SetAgent, EndCycle
<1> HIDE DEF a
<1>5. Holds' = Holds
  BY <1>0, <1>2, <1>3, <1>4, RestingKeepsSnooze, SameHolds
  DEF SnoozeActive, outside
<1> QED
  BY <1>4, <1>5, Phases, GateLeaves

\* The other steps of the run goroutine, and those of the environment.
LEMMA MoveAtGate ==
    ASSUME IInv, RunMove PROVE Gate!Next
<1>0. now \in Nat /\ agent \in Agents
  BY DEF IInv, TypeOK
<1>1. CASE Committed \/ MessageGenerated
  <2>1. /\ pc \in CyclePhases /\ pc' \in CyclePhases
        /\ StageOf[pc] < StageOf[pc']
        /\ <<StageOf[pc], StageOf[pc']>> \in AtOnceStages
    BY <1>1, Phases DEF Committed, MessageGenerated, StageOf, AtOnceStages
  <2>2. Holds' = Holds
    BY <1>1, SameHolds DEF Committed, MessageGenerated, outside
  <2> QED BY <2>1, <2>2, GateAdvances
<1>2. CASE PullConflicts \/ PullCanceled
  <2>1. pc = "pull" /\ pc' \in {"abortConflict", "abortCanceled"}
    BY <1>2 DEF PullConflicts, PullCanceled
  <2>2. \A p \in {"pull", "abortConflict", "abortCanceled"} : StageOf[p] = 12
    BY DEF StageOf
  <2> QED BY <2>1, <2>2, Phases, GateAsks DEF Stage
<1>3. CASE EnterCycle
  <2> DEFINE a == [ClearSnooze(agent) EXCEPT !.holdoutUntil = ZeroTime,
                                             !.state = "syncing"]
  <2>1. /\ pc = "enter" /\ pc' = "branch" /\ agent' = a
        /\ ~Canceled /\ ~InHoldout /\ ~SnoozeActive(agent)
        /\ UNCHANGED outside
    BY <1>3 DEF EnterCycle, SetAgent
  <2>2. a.snoozeUntil = ZeroTime
    BY <1>0, ClearSnoozeFacts DEF Agents
  <2> HIDE DEF a
  <2>3. Holds' = Holds
    BY <2>1, <2>2, SameHolds DEF SnoozeActive, outside
  <2> QED BY <2>1, <2>3, Phases, GateAdvances
<1>4. CASE \/ EnterPaused \/ Incomplete \/ AbortAfterCancel
           \/ \E p \in CancelablePhases : PhaseCanceled(p)
  <2>1. /\ pc' = "loop" /\ UNCHANGED outside
        /\ agent' \in {Resting(agent), LeaveSync(agent)}
    BY <1>4 DEF EnterPaused, Incomplete, AbortAfterCancel, PhaseCanceled,
                SetAgent, EndCycle
  <2>2. Holds' = Holds
    BY <1>0, <2>1, RestingKeepsSnooze, SameHolds DEF outside
  <2> QED BY <2>1, <2>2, Phases, GateLeaves
<1>5. CASE Complete
  <2> DEFINE a == [agent EXCEPT !.errorDetail = NoDetail]
  <2>1. a \in Agents /\ a.snoozeUntil = agent.snoozeUntil
    BY <1>0 DEF Agents
  <2>2. agent' = Resting(a) /\ pc' \in {"alert", "loop"} /\ UNCHANGED outside
    BY <1>5 DEF Complete, SetAgent, EndCycle
  <2> HIDE DEF a
  <2>3. Holds' = Holds
    BY <1>0, <2>1, <2>2, RestingKeepsSnooze, SameHolds
    DEF SnoozeActive, outside
  <2> QED BY <2>2, <2>3, Phases, GateLeaves
<1>6. CASE \/ EnterCanceled \/ Alert \/ Loop \/ Quit \/ Poll \/ TakeRequest
           \/ SnoozeFires \/ SnoozeExpiry \/ ExpirySend
  <2>1. {pc, pc'} \subseteq {"enter", "alert", "loop", "select", "expiry",
                             "expirySend", "done"}
    BY <1>6 DEF EnterCanceled, Alert, Loop, Quit, Poll, TakeRequest,
                SnoozeFires, SnoozeExpiry, ExpirySend, EndCycle
  <2> QED BY <2>1, Phases, GateAsks DEF Stage
<1>7. CASE OperatorResolves
  BY <1>7, GateAsks DEF OperatorResolves, Stage
<1>8. CASE Crash
  <2>1. /\ agent' = FreshAgent /\ stop' = "running" /\ pc' = "enter"
        /\ now' = now
    BY <1>8 DEF Crash
  <2>2. Holds' \subseteq Holds
    <3>1. ~SnoozeActive(agent)'
      BY <2>1 DEF SnoozeActive, FreshAgent
    <3>2. ~Canceled' /\ (InHoldout' <=> InHoldout)
      BY <2>1 DEF Canceled, InHoldout
    <3> QED BY <3>1, <3>2 DEF Holds
  <2>3. Stage' = 0
    BY <2>1, Phases DEF Stage
  <2> QED BY <2>2, <2>3 DEF Gate!Next, Gate!Restart
<1> QED
  BY <1>1, <1>2, <1>3, <1>4, <1>5, <1>6, <1>7, <1>8 DEF RunMove

----------------------------------------------------------------------------
(* The refinement *)

\* The agent implements the gate: for every set of callers, windows, durations
\* and faults, no stage begins while anything asks to hold, but for the four
\* the code does not check.
THEOREM AgentImplementsGate == Spec => ImplementsGate
<1>1. Init => Gate!Init
  <2> SUFFICES ASSUME Init PROVE Gate!Init
    OBVIOUS
  <2>1. Stage = 0
    BY Phases DEF Init, Stage
  <2>2. Holds \in SUBSET {"holdout", "snooze", "stop"}
    BY DEF Holds
  <2> QED BY <2>1, <2>2 DEF Gate!Init
<1>2. ASSUME IInv, [Next]_vars PROVE [Gate!Next]_Gate!vars
  <2>1. CASE BoundaryStep
    BY <1>2, <2>1, BoundaryAtGate
  <2>2. CASE ErrorStep
    BY <1>2, <2>2, ErrorAtGate
  <2>3. CASE OtherStep
    <3>1. pc' = pc
      BY <1>2, <2>3, OthersLeaveRunAlone
    <3> QED BY <3>1, GateAsks DEF Stage
  <2>4. CASE RunMove
    BY <1>2, <2>4, MoveAtGate
  <2> QED BY <1>2, <2>1, <2>2, <2>3, <2>4, NextByKind
<1> QED
  BY <1>1, <1>2, AlwaysIInv, PTL DEF Spec, ImplementsGate, Gate!Spec
=============================================================================
