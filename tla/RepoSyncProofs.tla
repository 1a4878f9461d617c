--------------------------- MODULE RepoSyncProofs ---------------------------
(***************************************************************************)
(* Theorems about RepoSync, for every set of paths and regions, every      *)
(* policy, and a world that may act as often as it likes (Budget is any    *)
(* natural number).                                                        *)
(***************************************************************************)
EXTENDS RepoSync, TLAPS

----------------------------------------------------------------------------
(* The helpers *)

\* A log with one commit more: the new one is last, the others stay.
LEMMA AppendFacts ==
    ASSUME NEW s \in Seq(Commits), NEW c \in Commits
    PROVE  /\ Append(s, c) \in Seq(Commits)
           /\ DOMAIN Append(s, c) = DOMAIN s \union {Len(s) + 1}
           /\ Len(s) + 1 \notin DOMAIN s
           /\ \A i \in DOMAIN s : Append(s, c)[i] = s[i]
           /\ Append(s, c)[Len(s) + 1] = c
<1>1. /\ Append(s, c) \in Seq(Commits)
      /\ Len(Append(s, c)) = Len(s) + 1
      /\ DOMAIN Append(s, c) = 1..Len(s) + 1
      /\ DOMAIN s = 1..Len(s)
      /\ Len(s) \in Nat
      /\ \A i \in 1..Len(s) : Append(s, c)[i] = s[i]
      /\ Append(s, c)[Len(s) + 1] = c
  OBVIOUS
<1> QED
  BY <1>1

\* Staging keeps what is dirty dirty, and brings conflict markers into the
\* index only from a conflict, or from markers that are there already.
LEMMA AddFacts ==
    ASSUME TypeOK, NEW P \in SUBSET Paths, Add(P)
    PROVE  /\ tree' \in Trees
           /\ Dirty' = Dirty
           /\ \A p \in Paths : tree'.index[p] = "markers" =>
                 tree.index[p] = "markers"
                 \/ (p \in P \ tree.edited /\ tree.index[p] = "unmerged")
           /\ \A p \in Paths : tree'.index[p] = "unmerged" =>
                 tree.index[p] = "unmerged"
<1> DEFINE entry(p) ==
      CASE p \notin P \intersect Dirty -> tree.index[p]
        [] p \in P \intersect Dirty /\ HasMarkers(p) -> "markers"
        [] OTHER -> "new"
<1>1. tree \in Trees
  BY DEF TypeOK
<1>2. tree' = [index |-> [p \in Paths |-> entry(p)],
               edited |-> tree.edited \ P, tracked |-> tree.tracked]
  BY <1>1 DEF Add, Trees
<1>3. ASSUME NEW p \in Paths
      PROVE  /\ entry(p) \in Entries
             /\ p \notin P \intersect Dirty => entry(p) = tree.index[p]
             /\ p \in P \intersect Dirty => entry(p) \in {"markers", "new"}
             /\ entry(p) = "markers" =>
                   tree.index[p] = "markers"
                   \/ (p \in P \ tree.edited /\ tree.index[p] = "unmerged")
  BY <1>1 DEF Trees, Entries, HasMarkers
<1> HIDE DEF entry
<1>4. tree' \in Trees
  BY <1>1, <1>2, <1>3 DEF Trees
<1>5. \A p \in Paths : tree'.index[p] = entry(p)
  BY <1>2
<1>6. tree'.edited = tree.edited \ P
  BY <1>2
<1>7. Dirty' = Dirty
  <2>1. ASSUME NEW p \in Paths
        PROVE  p \in Dirty' <=> p \in Dirty
    BY <1>1, <1>3, <1>5, <1>6 DEF Dirty, Changed, Trees
  <2>2. Dirty' \subseteq Paths /\ Dirty \subseteq Paths
    BY <1>1, <1>4 DEF Dirty, Changed, Trees
  <2> QED
    BY <2>1, <2>2
<1>8. \A p \in Paths : tree'.index[p] = "unmerged" => tree.index[p] = "unmerged"
  BY <1>3, <1>5
<1> QED
  BY <1>3, <1>4, <1>5, <1>7, <1>8

\* What the commit takes is selected, and dirty.
LEMMA CommittableFacts ==
    ASSUME TypeOK
    PROVE  /\ Committable \subseteq Selectable
           /\ Committable \subseteq Paths
           /\ Selectable \subseteq Paths
<1>1. policy \in Policies /\ tree \in Trees /\ cycle.selected \subseteq Selectable
  BY DEF TypeOK
<1>2. Selectable \subseteq Paths /\ (policy = "all" => Selectable = Paths)
  BY <1>1, RegionsAssumption DEF Selectable, Policies
<1>3. CASE policy = "all"
  BY <1>2, <1>3 DEF Committable, Changed
<1>4. CASE policy # "all"
  BY <1>1, <1>2, <1>4 DEF Committable
<1> QED
  BY <1>2, <1>3, <1>4

----------------------------------------------------------------------------
(* The inductive invariant *)

\* The commit the cycle is about to reword is its own.
CreatedIsOwn ==
    pc = "reword" =>
        cycle.created \in DOMAIN log /\ log[cycle.created].by = "agent"

\* While the operator's conflicts stay out of the window between the check and
\* the commit, nothing puts conflict markers into the index, and none are
\* committed.
NoMarkersInIndex ==
    "conflictAfterCheck" \notin Mishaps =>
        /\ \A p \in Paths : tree.index[p] # "markers"
        /\ pc \in {"stage", "commit"} =>
              \A p \in Paths : tree.index[p] # "unmerged"
        /\ NoMarkersCommitted

\* While nobody edits during a rebase, the abort has nothing to discard.
CleanUnderAbort ==
    ("editDuringRebase" \notin Mishaps /\ rebasing
        /\ pc \in {"abort", "abortCanceled"}) =>
      \A p \in Paths : /\ tree.index[p] = "same"
                       /\ p \in tree.edited => p \notin tree.tracked

IInv ==
    /\ TypeOK
    /\ PolicyRespected
    /\ NothingLost
    /\ CreatedIsOwn
    /\ NoMarkersInIndex
    /\ CleanUnderAbort

LEMMA InitIInv == Init => IInv
<1> SUFFICES ASSUME Init PROVE IInv
  OBVIOUS
<1>1. tree \in Trees
  BY DEF Init, Trees, Entries
<1>2. DOMAIN log = {} /\ log \in Seq(Commits)
  BY DEF Init
<1>3. /\ cycle \in Cycles
      /\ cycle.selected \subseteq Selectable
      /\ cycle.created = 0
  BY DEF Init, Cycles, NoCycle
<1>4. budget \in 0..Budget
  BY BudgetAssumption DEF Init
<1>5. /\ policy \in Policies /\ hasRemote \in BOOLEAN /\ rebasing \in BOOLEAN
      /\ local \subseteq DOMAIN log /\ remote \subseteq DOMAIN log
      /\ pc \in Phases /\ error \in BOOLEAN /\ attention \in BOOLEAN
  BY DEF Init, Phases
<1>6. TypeOK
  BY <1>1, <1>2, <1>3, <1>4, <1>5 DEF TypeOK
<1> QED
  BY <1>2, <1>6 DEF Init, IInv, PolicyRespected, NothingLost, CreatedIsOwn,
     NoMarkersInIndex, NoMarkersCommitted, CleanUnderAbort

\* A step of the cycle that leaves the repository alone, and goes to commit
\* only over a tree without conflicts.
LEMMA MoveKeepsIInv ==
    ASSUME IInv,
           UNCHANGED repo,
           pc' \in Phases \ {"reword", "abort", "abortCanceled"},
           cycle' \in Cycles,
           cycle'.selected \subseteq Selectable,
           cycle'.created \in {0} \union DOMAIN log,
           error' \in BOOLEAN, attention' \in BOOLEAN, budget' \in 0..Budget,
           pc' \in {"stage", "commit"} =>
              \A p \in Paths : tree.index[p] # "unmerged"
    PROVE  IInv'
<1>1. /\ policy' = policy /\ hasRemote' = hasRemote /\ tree' = tree /\ log' = log
      /\ local' = local /\ remote' = remote /\ rebasing' = rebasing
  BY DEF repo, config
<1>2. Selectable' = Selectable
  BY <1>1 DEF Selectable
<1>3. TypeOK'
  BY <1>1, <1>2 DEF IInv, TypeOK
<1>4. PolicyRespected' /\ NothingLost'
  BY <1>1, <1>2 DEF IInv, PolicyRespected, NothingLost
<1>5. CreatedIsOwn' /\ CleanUnderAbort'
  BY DEF CreatedIsOwn, CleanUnderAbort
<1>6. NoMarkersInIndex'
  BY <1>1 DEF IInv, NoMarkersInIndex, NoMarkersCommitted
<1> QED
  BY <1>3, <1>4, <1>5, <1>6 DEF IInv

\* A step that leaves the commits and the cycle alone.
LEMMA TreeStepKeepsIInv ==
    ASSUME IInv,
           UNCHANGED <<config, log, local, remote, rebasing, agentOnly>>,
           tree' \in Trees, budget' \in 0..Budget,
           NoMarkersInIndex', CleanUnderAbort'
    PROVE  IInv'
<1>1. /\ policy' = policy /\ hasRemote' = hasRemote /\ log' = log
      /\ local' = local /\ remote' = remote /\ rebasing' = rebasing
      /\ pc' = pc /\ cycle' = cycle /\ error' = error /\ attention' = attention
  BY DEF config, agentOnly
<1>2. Selectable' = Selectable
  BY <1>1 DEF Selectable
<1>3. TypeOK'
  BY <1>1, <1>2 DEF IInv, TypeOK
<1> QED
  BY <1>1, <1>2, <1>3 DEF IInv, PolicyRespected, NothingLost, CreatedIsOwn

\* A commit, the agent's of selected paths or the operator's of anything,
\* without markers unless conflicts may slip in.
LEMMA CommitKeepsIInv ==
    ASSUME IInv,
           NEW P \in SUBSET Paths, NEW files \in SUBSET Paths,
           NEW by \in {"agent", "operator"},
           NEW text \in {"own", "placeholder"},
           NEW markers \in BOOLEAN,
           CommitPaths(P, files, by, text, markers),
           UNCHANGED <<config, remote, rebasing>>,
           by = "agent" => P \subseteq Selectable,
           by # "agent" => text = "own",
           "conflictAfterCheck" \notin Mishaps /\ by = "agent" => ~markers,
           pc' \in Phases, cycle' \in Cycles, cycle'.selected \subseteq Selectable,
           cycle'.created \in {0} \union DOMAIN log',
           error' \in BOOLEAN, attention' \in BOOLEAN, budget' \in 0..Budget,
           CreatedIsOwn',
           pc' \in {"stage", "commit"} => pc \in {"stage", "commit"},
           ~(rebasing /\ pc' \in {"abort", "abortCanceled"})
    PROVE  IInv'
<1>1. PICK n :
      /\ n = Len(log) + 1
      /\ log' \in Seq(Commits)
      /\ DOMAIN log' = DOMAIN log \union {n}
      /\ \A i \in DOMAIN log : log'[i] = log[i]
      /\ log'[n] = [by |-> by, paths |-> P, text |-> text, markers |-> markers]
      /\ local' = local \union {n}
      /\ tree' \in Trees
      /\ \A p \in Paths : tree'.index[p] =
            IF p \in P THEN "same" ELSE tree.index[p]
  <2> DEFINE c == [by |-> by, paths |-> P, text |-> text, markers |-> markers]
  <2>1. c \in Commits
    BY DEF Commits
  <2>2. log \in Seq(Commits) /\ tree \in Trees
    BY DEF IInv, TypeOK
  <2>3. log' = Append(log, c)
    BY DEF CommitPaths
  <2> HIDE DEF c
  <2>4. /\ log' \in Seq(Commits)
        /\ DOMAIN log' = DOMAIN log \union {Len(log) + 1}
        /\ \A i \in DOMAIN log : log'[i] = log[i]
        /\ log'[Len(log) + 1] = c
    BY <2>1, <2>2, <2>3, AppendFacts
  <2>5. /\ local' = local \union {Len(log) + 1}
        /\ tree' \in Trees
        /\ \A p \in Paths : tree'.index[p] =
              IF p \in P THEN "same" ELSE tree.index[p]
    BY <2>2 DEF CommitPaths, Trees, Entries
  <2> QED
    BY <2>4, <2>5 DEF c
<1>2. policy' = policy /\ hasRemote' = hasRemote /\ remote' = remote /\ rebasing' = rebasing
  BY DEF config
<1>3. Selectable' = Selectable
  BY <1>2 DEF Selectable
<1>4. TypeOK'
  BY <1>1, <1>2, <1>3 DEF IInv, TypeOK
<1>5. PolicyRespected'
  BY <1>1, <1>3 DEF IInv, PolicyRespected
<1>6. NothingLost'
  BY <1>1, <1>2 DEF IInv, NothingLost
<1>7. NoMarkersInIndex'
  <2> SUFFICES ASSUME "conflictAfterCheck" \notin Mishaps
               PROVE  /\ \A p \in Paths : tree'.index[p] # "markers"
                      /\ pc' \in {"stage", "commit"} =>
                            \A p \in Paths : tree'.index[p] # "unmerged"
                      /\ NoMarkersCommitted'
    BY DEF NoMarkersInIndex
  <2>1. NoMarkersCommitted'
    BY <1>1 DEF IInv, NoMarkersInIndex, NoMarkersCommitted
  <2> QED
    BY <1>1, <2>1 DEF IInv, NoMarkersInIndex
<1>8. CleanUnderAbort'
  BY <1>2 DEF CleanUnderAbort
<1> QED
  BY <1>4, <1>5, <1>6, <1>7, <1>8 DEF IInv

\* Begin, StatusRead and the other commands that only look, and the ways a
\* cycle ends, are moves.
LEMMA MovesKeepIInv ==
    ASSUME IInv,
           \/ Begin \/ StatusRead \/ UnmergedChecked \/ NothingCommitted
           \/ RewordRefused \/ EvaluateAttention \/ PullChecked \/ PullRefused
           \/ PushRejected \/ NoRemote \/ Finished
           \/ CommandFails \/ Paused \/ AbortFails
    PROVE  IInv'
<1> DEFINE Typed ==
      /\ UNCHANGED repo
      /\ pc' \in Phases \ {"reword", "abort", "abortCanceled"}
      /\ cycle' \in Cycles
      /\ cycle'.selected \subseteq Selectable
      /\ cycle'.created \in {0} \union DOMAIN log
      /\ error' \in BOOLEAN /\ attention' \in BOOLEAN /\ budget' \in 0..Budget
      /\ pc' \in {"stage", "commit"} =>
            \A p \in Paths : tree.index[p] # "unmerged"
<1>1. TypeOK
  BY DEF IInv
<1>2. /\ NoCycle \in Cycles
      /\ NoCycle.selected = {}
      /\ NoCycle.created = 0
  BY DEF NoCycle, Cycles
<1>3. /\ tree \in Trees /\ cycle \in Cycles
      /\ cycle.selected \subseteq Selectable
      /\ cycle.created \in {0} \union DOMAIN log
      /\ error \in BOOLEAN /\ attention \in BOOLEAN
      /\ budget \in 0..Budget /\ Budget \in Nat
  BY <1>1, BudgetAssumption DEF TypeOK
<1>4. Selectable \subseteq Paths
  BY <1>1, CommittableFacts
<1>5. CASE Begin
  <2>1. Typed
    BY <1>2, <1>3, <1>5 DEF Begin, End, GoTo, Phases
  <2> QED
    BY <2>1, MoveKeepsIInv
<1>6. CASE StatusRead
  <2>1. /\ cycle' \in Cycles
        /\ cycle'.selected \subseteq Selectable
        /\ cycle'.created = 0
    BY <1>4, <1>6 DEF StatusRead, Cycles
  <2>2. Typed
    BY <1>3, <1>6, <2>1 DEF StatusRead, Phases
  <2> QED
    BY <2>2, MoveKeepsIInv
<1>7. CASE UnmergedChecked
  <2>1. CASE Unmerged # {}
    <3>1. Typed
      BY <1>2, <1>3, <1>7, <2>1 DEF UnmergedChecked, End, Phases
    <3> QED
      BY <3>1, MoveKeepsIInv
  <2>2. CASE Unmerged = {}
    <3>1. \A p \in Paths : tree.index[p] # "unmerged"
      BY <2>2 DEF Unmerged
    <3>2. Typed
      BY <1>3, <1>7, <2>2, <3>1 DEF UnmergedChecked, AfterUnmerged, GoTo, Phases
    <3> QED
      BY <3>2, MoveKeepsIInv
  <2> QED
    BY <2>1, <2>2
<1>8. CASE NothingCommitted
  <2>1. Typed
    BY <1>2, <1>3, <1>8 DEF NothingCommitted, End, GoTo, Phases
  <2> QED
    BY <2>1, MoveKeepsIInv
<1>9. CASE EvaluateAttention
  <2>1. Typed
    BY <1>3, <1>9 DEF EvaluateAttention, Phases, Cycles
  <2> QED
    BY <2>1, MoveKeepsIInv
<1>10. CASE RewordRefused \/ PullRefused \/ PushRejected \/ NoRemote \/ Finished
  <2>1. Typed
    BY <1>2, <1>3, <1>10 DEF RewordRefused, PullRefused, PushRejected,
       NoRemote, Finished, End, Phases
  <2> QED
    BY <2>1, MoveKeepsIInv
<1>11. CASE PullChecked
  <2>1. Typed
    BY <1>2, <1>3, <1>11 DEF PullChecked, End, GoTo, Phases
  <2> QED
    BY <2>1, MoveKeepsIInv
<1>12. CASE CommandFails \/ Paused \/ AbortFails
  <2>1. error' \in BOOLEAN
    BY <1>3, <1>12 DEF CommandFails, Paused, AbortFails
  <2>2. Typed
    BY <1>2, <1>3, <1>12, <2>1 DEF CommandFails, Paused, AbortFails, Spend, Phases
  <2> QED
    BY <2>2, MoveKeepsIInv
<1> QED
  BY <1>5, <1>6, <1>7, <1>8, <1>9, <1>10, <1>11, <1>12

\* The cycle's own commands that change the repository.
LEMMA StagedKeepsIInv == IInv /\ Staged => IInv'
<1> SUFFICES ASSUME IInv, Staged PROVE IInv'
  OBVIOUS
<1>1. TypeOK
  BY DEF IInv
<1> DEFINE P == IF policy = "all" THEN Paths ELSE cycle.selected
<1>2. P \in SUBSET Paths
  BY <1>1 DEF TypeOK, Cycles
<1>3. Add(P)
  BY DEF Staged
<1> HIDE DEF P
<1>4. /\ tree' \in Trees
      /\ \A p \in Paths : tree'.index[p] = "markers" =>
            tree.index[p] = "markers" \/ tree.index[p] = "unmerged"
      /\ \A p \in Paths : tree'.index[p] = "unmerged" =>
            tree.index[p] = "unmerged"
  BY <1>1, <1>2, <1>3, AddFacts
<1>5. /\ policy' = policy /\ hasRemote' = hasRemote /\ log' = log
      /\ local' = local /\ remote' = remote /\ rebasing' = rebasing
      /\ pc = "stage" /\ pc' = "commit" /\ cycle' = cycle /\ error' = error
      /\ attention' = attention /\ budget' = budget
  BY DEF Staged, GoTo, config
<1>6. Selectable' = Selectable
  BY <1>5 DEF Selectable
<1>7. TypeOK'
  BY <1>1, <1>4, <1>5, <1>6 DEF TypeOK, Phases
<1>8. PolicyRespected' /\ NothingLost' /\ CreatedIsOwn' /\ CleanUnderAbort'
  BY <1>5, <1>6 DEF IInv, PolicyRespected, NothingLost, CreatedIsOwn,
     CleanUnderAbort
<1>9. NoMarkersInIndex'
  BY <1>4, <1>5 DEF IInv, NoMarkersInIndex, NoMarkersCommitted
<1> QED
  BY <1>7, <1>8, <1>9 DEF IInv

LEMMA CommittedKeepsIInv == IInv /\ Committed => IInv'
<1> SUFFICES ASSUME IInv, Committed PROVE IInv'
  OBVIOUS
<1>1. TypeOK
  BY DEF IInv
<1> DEFINE files == IF policy = "all" THEN tree.edited
                                      ELSE tree.edited \ Committable
           markers == \E p \in Committable :
                         IF policy = "all" THEN tree.index[p] = "markers"
                                           ELSE HasMarkers(p)
           P == Committable
<1>2. /\ P \subseteq Selectable /\ P \in SUBSET Paths
      /\ files \in SUBSET Paths /\ markers \in BOOLEAN
  BY <1>1, CommittableFacts DEF TypeOK, Trees
<1>3. CommitPaths(P, files, "agent", "placeholder", markers)
  BY DEF Committed
<1>4. /\ pc = "commit" /\ pc' = "reword"
      /\ cycle' = [cycle EXCEPT !.created = Len(log) + 1]
      /\ UNCHANGED <<config, remote, rebasing, error, attention, budget>>
  BY DEF Committed, config
<1>5. "conflictAfterCheck" \notin Mishaps => ~markers
  BY <1>2, <1>4 DEF IInv, NoMarkersInIndex, HasMarkers
<1> HIDE DEF P, files, markers
<1>6. /\ cycle' \in Cycles /\ cycle'.selected = cycle.selected
      /\ cycle'.created = Len(log) + 1
      /\ cycle.selected \subseteq Selectable
      /\ error' \in BOOLEAN /\ attention' \in BOOLEAN /\ budget' \in 0..Budget
  BY <1>1, <1>4 DEF TypeOK, Cycles
<1> DEFINE c == [by |-> "agent", paths |-> P, text |-> "placeholder",
                 markers |-> markers]
<1>7. c \in Commits /\ c.by = "agent"
  BY <1>2 DEF Commits
<1>8. log' = Append(log, c) /\ log \in Seq(Commits)
  BY <1>1, <1>3 DEF CommitPaths, TypeOK
<1> HIDE DEF c
<1>9. Len(log) + 1 \in DOMAIN log' /\ log'[Len(log) + 1].by = "agent"
  BY <1>7, <1>8, AppendFacts
<1>10. CreatedIsOwn'
  BY <1>6, <1>9 DEF CreatedIsOwn
<1> QED
  BY <1>2, <1>3, <1>4, <1>5, <1>6, <1>9, <1>10, CommitKeepsIInv DEF Phases

LEMMA RewordedKeepsIInv == IInv /\ Reworded => IInv'
<1> SUFFICES ASSUME IInv, Reworded PROVE IInv'
  OBVIOUS
<1> DEFINE k == cycle.created
<1>1. TypeOK /\ k \in DOMAIN log /\ log[k].by = "agent"
  BY DEF IInv, CreatedIsOwn, Reworded
<1>2. log \in Seq(Commits) /\ log[k] \in Commits
  BY <1>1 DEF TypeOK
<1> DEFINE c == [log[k] EXCEPT !.text = "generated"]
<1>3. /\ c \in Commits
      /\ c.by = log[k].by /\ c.paths = log[k].paths /\ c.markers = log[k].markers
  BY <1>2 DEF Commits
<1>4. log' = [log EXCEPT ![k] = c]
  BY <1>1, <1>2 DEF Reworded
<1> HIDE DEF c
<1>5. /\ log' \in Seq(Commits) /\ DOMAIN log' = DOMAIN log
      /\ log'[k] = c
      /\ \A i \in DOMAIN log : i # k => log'[i] = log[i]
  BY <1>1, <1>2, <1>3, <1>4
<1>6. /\ policy' = policy /\ hasRemote' = hasRemote /\ tree' = tree
      /\ local' = local /\ remote' = remote /\ rebasing' = rebasing
      /\ pc' = "attention" /\ cycle' = cycle /\ error' = error
      /\ attention' = attention /\ budget' = budget
  BY DEF Reworded, GoTo, config
<1> HIDE DEF k
<1>7. Selectable' = Selectable
  BY <1>6 DEF Selectable
<1>8. TypeOK'
  BY <1>1, <1>5, <1>6, <1>7 DEF TypeOK, Phases
<1>9. PolicyRespected' /\ NothingLost'
  BY <1>1, <1>3, <1>5, <1>6, <1>7 DEF IInv, PolicyRespected, NothingLost
<1>10. CreatedIsOwn' /\ CleanUnderAbort'
  BY <1>6 DEF CreatedIsOwn, CleanUnderAbort
<1>11. NoMarkersInIndex'
  BY <1>1, <1>3, <1>5, <1>6 DEF IInv, NoMarkersInIndex, NoMarkersCommitted
<1> QED
  BY <1>8, <1>9, <1>10, <1>11 DEF IInv

\* Pulls, pushes, aborts, the end of a rebase and a crash: no commit is made,
\* and the index stays.
LEMMA RemoteStepKeepsIInv ==
    ASSUME IInv,
           UNCHANGED <<config, log>>,
           tree' \in Trees, tree'.index = tree.index,
           local \subseteq local', remote \subseteq remote',
           local' \subseteq DOMAIN log, remote' \subseteq DOMAIN log,
           rebasing' \in BOOLEAN,
           pc' \in Phases \ {"stage", "commit", "reword"},
           cycle' \in {cycle, NoCycle},
           error' \in BOOLEAN, attention' \in BOOLEAN, budget' \in 0..Budget,
           CleanUnderAbort'
    PROVE  IInv'
<1>1. policy' = policy /\ hasRemote' = hasRemote /\ log' = log
  BY DEF config
<1>2. Selectable' = Selectable
  BY <1>1 DEF Selectable
<1>3. /\ cycle' \in Cycles /\ cycle'.selected \subseteq Selectable
      /\ cycle'.created \in {0} \union DOMAIN log
  <2>1. /\ cycle \in Cycles /\ cycle.selected \subseteq Selectable
        /\ cycle.created \in {0} \union DOMAIN log
    BY DEF IInv, TypeOK
  <2>2. NoCycle \in Cycles /\ NoCycle.selected = {} /\ NoCycle.created = 0
    BY DEF NoCycle, Cycles
  <2> QED
    BY <2>1, <2>2
<1>4. TypeOK'
  BY <1>1, <1>2, <1>3 DEF IInv, TypeOK
<1>5. PolicyRespected' /\ NothingLost' /\ CreatedIsOwn'
  BY <1>1, <1>2 DEF IInv, PolicyRespected, NothingLost, CreatedIsOwn
<1>6. NoMarkersInIndex'
  BY <1>1 DEF IInv, NoMarkersInIndex, NoMarkersCommitted
<1> QED
  BY <1>4, <1>5, <1>6 DEF IInv

LEMMA RemoteStepsKeepIInv ==
    ASSUME IInv,
           \/ Pulled \/ PullConflicts \/ PullCanceled \/ Aborted \/ Pushed
           \/ Crash \/ OperatorEndsRebase
    PROVE  IInv'
<1>1. /\ TypeOK /\ tree \in Trees /\ log \in Seq(Commits)
      /\ local \subseteq DOMAIN log /\ remote \subseteq DOMAIN log
      /\ rebasing \in BOOLEAN /\ error \in BOOLEAN /\ attention \in BOOLEAN
      /\ budget \in 0..Budget /\ Budget \in Nat /\ pc \in Phases
  BY BudgetAssumption DEF IInv, TypeOK
<1> DEFINE Clean ==
      \A p \in Paths : /\ tree.index[p] = "same"
                       /\ p \in tree.edited => p \notin tree.tracked
<1>2. TrackedDirt = {} => Clean
  BY <1>1 DEF TrackedDirt, Changed, Trees
<1>3. Replayable \in BOOLEAN /\ (Replayable => Clean)
  BY <1>2 DEF Replayable
<1> HIDE DEF Clean
<1> DEFINE Typed ==
      /\ UNCHANGED <<config, log>>
      /\ tree' \in Trees /\ tree'.index = tree.index
      /\ local \subseteq local' /\ remote \subseteq remote'
      /\ local' \subseteq DOMAIN log /\ remote' \subseteq DOMAIN log
      /\ rebasing' \in BOOLEAN
      /\ pc' \in Phases \ {"stage", "commit", "reword"}
      /\ cycle' \in {cycle, NoCycle}
      /\ error' \in BOOLEAN /\ attention' \in BOOLEAN /\ budget' \in 0..Budget
<1>4. CASE Pulled
  <2>1. Touched(Incoming) \subseteq Paths
    <3>1. ASSUME NEW i \in Incoming
          PROVE  log[i].paths \subseteq Paths
      <4>1. log[i] \in Commits
        BY <1>1 DEF Incoming
      <4> QED
        BY <4>1 DEF Commits
    <3> QED
      BY <3>1 DEF Touched
  <2>2. tree' \in Trees /\ tree'.index = tree.index
    BY <1>1, <1>4, <2>1 DEF Pulled, Trees
  <2>3. CleanUnderAbort'
    BY <1>4 DEF Pulled, GoTo, CleanUnderAbort
  <2>9. Typed
    BY <1>1, <1>4, <2>2 DEF Pulled, GoTo, Phases, Incoming
  <2> QED
    BY <2>9, <2>3, RemoteStepKeepsIInv
<1>5. CASE PullConflicts
  <2>2. Clean /\ tree' = tree
    BY <1>3, <1>5 DEF PullConflicts
  <2>1. CleanUnderAbort'
    BY <2>2 DEF CleanUnderAbort, Clean
  <2>9. Typed
    BY <1>1, <1>5 DEF PullConflicts, GoTo, Phases
  <2> QED
    BY <2>9, <2>1, RemoteStepKeepsIInv
<1>6. CASE PullCanceled
  <2>1. rebasing' \in BOOLEAN /\ (rebasing' => Clean)
    <3>1. CASE rebasing' = FALSE
      BY <3>1
    <3>2. CASE rebasing' = Replayable
      BY <1>3, <3>2
    <3> QED
      BY <1>6, <3>1, <3>2 DEF PullCanceled
  <2>3. tree' = tree
    BY <1>6 DEF PullCanceled
  <2>2. CleanUnderAbort'
    BY <2>1, <2>3 DEF CleanUnderAbort, Clean
  <2>9. Typed
    BY <1>1, <1>6, <2>1 DEF PullCanceled, Spend, Phases
  <2> QED
    BY <2>9, <2>2, RemoteStepKeepsIInv
<1>7. CASE Aborted
  <2>1. tree' \in Trees /\ tree'.index = tree.index
    BY <1>1, <1>7 DEF Aborted, Trees
  <2>2. CleanUnderAbort'
    BY <1>7 DEF Aborted, CleanUnderAbort
  <2>3. error' \in BOOLEAN
    BY <1>1, <1>7 DEF Aborted, End
  <2>9. Typed
    BY <1>1, <1>7, <2>1, <2>3 DEF Aborted, End, Phases
  <2> QED
    BY <2>9, <2>2, RemoteStepKeepsIInv
<1>8. CASE Pushed
  <2>1. CleanUnderAbort'
    BY <1>8 DEF Pushed, GoTo, CleanUnderAbort
  <2>2. remote \subseteq remote'
    BY <1>8 DEF Pushed, Incoming
  <2>9. Typed
    BY <1>1, <1>8, <2>2 DEF Pushed, GoTo, Phases, Incoming
  <2> QED
    BY <2>9, <2>1, RemoteStepKeepsIInv
<1>9. CASE Crash
  <2>1. rebasing' \in BOOLEAN
    <3>1. CASE pc = "rebase"
      BY <1>3, <1>9, <3>1 DEF Crash
    <3>2. CASE pc # "rebase"
      BY <1>1, <1>9, <3>2 DEF Crash
    <3> QED
      BY <3>1, <3>2
  <2>2. CleanUnderAbort'
    BY <1>9 DEF Crash, CleanUnderAbort
  <2>3. UNCHANGED <<config, tree, log, local, remote>> /\ Spend
    BY <1>9 DEF Crash
  <2>4. /\ pc' = "idle" /\ cycle' = NoCycle
        /\ error' \in BOOLEAN /\ attention' \in BOOLEAN
    BY <1>9 DEF Crash
  <2>9. Typed
    BY <1>1, <2>1, <2>3, <2>4 DEF Spend, Phases
  <2> QED
    BY <2>9, <2>2, RemoteStepKeepsIInv
<1>10. CASE OperatorEndsRebase
  <2>1. /\ policy' = policy /\ hasRemote' = hasRemote /\ log' = log /\ tree' = tree
        /\ local' = local /\ remote' = remote /\ rebasing' = FALSE
        /\ pc' = pc /\ cycle' = cycle /\ error' = error
        /\ attention' = attention /\ budget' = budget
    BY <1>10 DEF OperatorEndsRebase, agentOnly, config
  <2>2. Selectable' = Selectable
    BY <2>1 DEF Selectable
  <2> QED
    BY <2>1, <2>2 DEF IInv, TypeOK, PolicyRespected, NothingLost, CreatedIsOwn,
       NoMarkersInIndex, NoMarkersCommitted, CleanUnderAbort
<1> QED
  BY <1>4, <1>5, <1>6, <1>7, <1>8, <1>9, <1>10

\* What the operator and the other hosts do.
LEMMA TreeEditsKeepIInv ==
    ASSUME IInv, NEW q \in Paths,
           Edit(q) \/ Conflict(q) \/ Resolve(q) \/ OperatorAdds(q)
    PROVE  IInv'
<1>1. TypeOK /\ tree \in Trees /\ budget \in 0..Budget /\ Budget \in Nat
      /\ rebasing \in BOOLEAN
  BY BudgetAssumption DEF IInv, TypeOK
<1>2. UNCHANGED <<config, log, local, remote, rebasing, agentOnly>>
  BY DEF Edit, Conflict, Resolve, OperatorAdds
<1>3. /\ log' = log /\ rebasing' = rebasing /\ pc' = pc
  BY <1>2 DEF agentOnly
<1>4. NoMarkersCommitted' <=> NoMarkersCommitted
  BY <1>3 DEF NoMarkersCommitted
<1>5. CASE Edit(q)
  <2>1. /\ tree' \in Trees /\ tree'.index = tree.index
        /\ rebasing => "editDuringRebase" \in Mishaps
        /\ budget' \in 0..Budget
    BY <1>1, <1>5 DEF Edit, Trees, Spend
  <2>2. NoMarkersInIndex'
    BY <1>3, <1>4, <2>1 DEF IInv, NoMarkersInIndex
  <2>3. CleanUnderAbort'
    BY <1>3, <2>1 DEF CleanUnderAbort
  <2> QED
    BY <1>2, <2>1, <2>2, <2>3, TreeStepKeepsIInv
<1>6. CASE Conflict(q)
  <2>1. /\ tree' \in Trees /\ ~rebasing
        /\ \A p \in Paths : tree'.index[p] \in {tree.index[p], "unmerged"}
        /\ pc \in {"stage", "commit"} => "conflictAfterCheck" \in Mishaps
        /\ budget' \in 0..Budget
    BY <1>1, <1>6 DEF Conflict, Trees, Entries, Spend
  <2>2. NoMarkersInIndex'
    BY <1>3, <1>4, <2>1 DEF IInv, NoMarkersInIndex
  <2>3. CleanUnderAbort'
    BY <1>3, <2>1 DEF CleanUnderAbort
  <2> QED
    BY <1>2, <2>1, <2>2, <2>3, TreeStepKeepsIInv
<1>7. CASE Resolve(q)
  <2>1. /\ tree' \in Trees /\ tree'.edited = tree.edited
        /\ tree'.tracked = tree.tracked /\ tree.index[q] = "unmerged"
        /\ \A p \in Paths : p # q => tree'.index[p] = tree.index[p]
        /\ tree'.index[q] = "new" /\ budget' \in 0..Budget
    BY <1>1, <1>7 DEF Resolve, Unmerged, Trees, Entries
  <2>2. NoMarkersInIndex'
    BY <1>3, <1>4, <2>1 DEF IInv, NoMarkersInIndex
  <2>3. CleanUnderAbort'
    BY <1>3, <2>1 DEF IInv, CleanUnderAbort
  <2> QED
    BY <1>2, <2>1, <2>2, <2>3, TreeStepKeepsIInv
<1>8. CASE OperatorAdds(q)
  <2>1. ~rebasing /\ q \in tree.edited /\ Add({q}) /\ budget' \in 0..Budget
    BY <1>1, <1>8 DEF OperatorAdds
  <2>2. /\ tree' \in Trees
        /\ \A p \in Paths : tree'.index[p] = "markers" =>
              tree.index[p] = "markers"
        /\ \A p \in Paths : tree'.index[p] = "unmerged" =>
              tree.index[p] = "unmerged"
    BY <1>1, <2>1, AddFacts
  <2>3. NoMarkersInIndex'
    BY <1>3, <1>4, <2>2 DEF IInv, NoMarkersInIndex
  <2>4. CleanUnderAbort'
    BY <1>3, <2>1 DEF CleanUnderAbort
  <2> QED
    BY <1>2, <2>1, <2>2, <2>3, <2>4, TreeStepKeepsIInv
<1> QED
  BY <1>5, <1>6, <1>7, <1>8

LEMMA OperatorCommitsKeepsIInv == IInv /\ OperatorCommits => IInv'
<1> SUFFICES ASSUME IInv, OperatorCommits PROVE IInv'
  OBVIOUS
<1>1. TypeOK
  BY DEF IInv
<1> DEFINE markers == \E p \in Changed : tree.index[p] = "markers"
           P == Changed
           files == tree.edited
<1>2. P \in SUBSET Paths /\ files \in SUBSET Paths /\ markers \in BOOLEAN
  BY <1>1 DEF Changed, TypeOK, Trees
<1>3. CommitPaths(P, files, "operator", "own", markers)
  BY DEF OperatorCommits
<1> HIDE DEF P, files, markers
<1>4. /\ UNCHANGED <<config, remote, rebasing>>
      /\ ~rebasing /\ pc' = pc /\ cycle' = cycle /\ error' = error
      /\ attention' = attention /\ budget' = budget
  BY DEF OperatorCommits, agentOnly
<1> DEFINE c == [by |-> "operator", paths |-> P, text |-> "own",
                 markers |-> markers]
<1>5. c \in Commits
  BY <1>2 DEF Commits
<1>6. log' = Append(log, c) /\ log \in Seq(Commits)
  BY <1>1, <1>3 DEF CommitPaths, TypeOK
<1> HIDE DEF c
<1>7. /\ DOMAIN log \subseteq DOMAIN log'
      /\ \A i \in DOMAIN log : log'[i] = log[i]
  BY <1>5, <1>6, AppendFacts
<1>8. CreatedIsOwn'
  BY <1>4, <1>7 DEF IInv, CreatedIsOwn
<1>9. /\ pc \in Phases /\ cycle \in Cycles /\ cycle.selected \subseteq Selectable
      /\ cycle.created \in {0} \union DOMAIN log'
      /\ error \in BOOLEAN /\ attention \in BOOLEAN /\ budget \in 0..Budget
  BY <1>1, <1>7 DEF TypeOK
<1> QED
  BY <1>2, <1>3, <1>4, <1>8, <1>9, CommitKeepsIInv

LEMMA OtherPushesKeepsIInv ==
    ASSUME IInv, NEW q \in Paths, OtherPushes(q)
    PROVE  IInv'
<1>1. TypeOK
  BY DEF IInv
<1> DEFINE c == [by |-> "other", paths |-> {q}, text |-> "own",
                 markers |-> FALSE]
<1>2. c \in Commits /\ c.by = "other" /\ c.text = "own"
  BY DEF Commits
<1>3. log' = Append(log, c) /\ log \in Seq(Commits)
  BY <1>1 DEF OtherPushes, TypeOK
<1> HIDE DEF c
<1>4. PICK n :
      /\ n = Len(log) + 1
      /\ log' \in Seq(Commits)
      /\ DOMAIN log' = DOMAIN log \union {n}
      /\ \A i \in DOMAIN log : log'[i] = log[i]
      /\ log'[n] = c
  BY <1>2, <1>3, AppendFacts
<1>5. /\ policy' = policy /\ hasRemote' = hasRemote /\ tree' = tree
      /\ local' = local /\ remote' = remote \union {n} /\ rebasing' = rebasing
      /\ pc' = pc /\ cycle' = cycle /\ error' = error /\ attention' = attention
  BY <1>4 DEF OtherPushes, agentOnly, config
<1>6. budget' \in 0..Budget
  BY <1>1, BudgetAssumption DEF OtherPushes, Spend, TypeOK
<1>7. Selectable' = Selectable
  BY <1>5 DEF Selectable
<1>8. TypeOK'
  BY <1>1, <1>4, <1>5, <1>6, <1>7 DEF TypeOK
<1>9. PolicyRespected' /\ NothingLost'
  BY <1>2, <1>4, <1>5, <1>7 DEF IInv, PolicyRespected, NothingLost
<1>10. CreatedIsOwn' /\ CleanUnderAbort'
  BY <1>4, <1>5 DEF IInv, CreatedIsOwn, CleanUnderAbort
<1>11. NoMarkersInIndex'
  BY <1>2, <1>4, <1>5 DEF IInv, NoMarkersInIndex, NoMarkersCommitted
<1> QED
  BY <1>8, <1>9, <1>10, <1>11 DEF IInv

LEMMA StepKeepsIInv == IInv /\ [Next]_vars => IInv'
<1> SUFFICES ASSUME IInv, [Next]_vars PROVE IInv'
  OBVIOUS
<1>1. CASE CycleStep
  BY <1>1, MovesKeepIInv, StagedKeepsIInv, CommittedKeepsIInv,
     RewordedKeepsIInv, RemoteStepsKeepIInv DEF CycleStep
<1>2. CASE Fault
  BY <1>2, MovesKeepIInv, RemoteStepsKeepIInv DEF Fault
<1>3. CASE Others
  BY <1>3, TreeEditsKeepIInv, OperatorCommitsKeepsIInv, RemoteStepsKeepIInv,
     OtherPushesKeepsIInv DEF Others
<1>4. CASE UNCHANGED vars
  <2>1. /\ policy' = policy /\ hasRemote' = hasRemote /\ log' = log /\ tree' = tree
        /\ local' = local /\ remote' = remote /\ rebasing' = rebasing
        /\ pc' = pc /\ cycle' = cycle /\ error' = error
        /\ attention' = attention /\ budget' = budget
    BY <1>4 DEF vars
  <2>2. Selectable' = Selectable
    BY <2>1 DEF Selectable
  <2> QED
    BY <2>1, <2>2 DEF IInv, TypeOK, PolicyRespected, NothingLost, CreatedIsOwn,
       NoMarkersInIndex, NoMarkersCommitted, CleanUnderAbort
<1> QED
  BY <1>1, <1>2, <1>3, <1>4 DEF Next

LEMMA Invariance == Spec => []IInv
<1> QED
  BY InitIInv, StepKeepsIInv, PTL DEF Spec

----------------------------------------------------------------------------
(* Theorems *)

\* Every state is typed: what is selected is within the policy, and the log
\* has every commit a branch or the cycle names.
THEOREM RepoTypeCorrect == Spec => []TypeOK
<1>1. IInv => TypeOK
  BY DEF IInv
<1> QED
  BY Invariance, <1>1, PTL

\* Whatever the operator stages or commits meanwhile, the agent's commits hold
\* only what the policy selects (git.go:83-96, agent.go:409-433).
THEOREM PolicyIsKept == Spec => []PolicyRespected
<1>1. IInv => PolicyRespected
  BY DEF IInv
<1> QED
  BY Invariance, <1>1, PTL

\* Every commit stays on one of the branches, and the agent rewords none but
\* its own, however the reword races other commits (git.go:239-270).
THEOREM NothingIsLost == Spec => []NothingLost
<1>1. IInv => NothingLost
  BY DEF IInv
<1> QED
  BY Invariance, <1>1, PTL

\* No conflict markers are committed, as long as no conflict arises between
\* the check for conflicts and the commit (agent.go:374-388).
THEOREM MarkersKeptOut ==
    ASSUME "conflictAfterCheck" \notin Mishaps
    PROVE  Spec => []NoMarkersCommitted
<1>1. IInv => NoMarkersCommitted
  BY DEF IInv, NoMarkersInIndex
<1> QED
  BY Invariance, <1>1, PTL

----------------------------------------------------------------------------
(* Nothing uncommitted is discarded *)

\* What a step cleared is in a commit it made.
Cleared == \A p \in Dirty \ Dirty' :
             \E i \in DOMAIN log' \ DOMAIN log : p \in log'[i].paths

LEMMA KeepsDirty ==
    ASSUME tree.edited \subseteq tree'.edited,
           \A p \in Paths : tree.index[p] # "same" => tree'.index[p] # "same"
    PROVE  Cleared
<1>1. Dirty \subseteq Dirty'
  BY DEF Dirty, Changed
<1> QED
  BY <1>1 DEF Cleared

LEMMA CommitClears ==
    ASSUME TypeOK,
           NEW P \in SUBSET Paths, NEW files \in SUBSET Paths,
           tree.edited \ P \subseteq files,
           NEW by \in {"agent", "operator"},
           NEW text \in {"own", "placeholder"},
           NEW markers \in BOOLEAN,
           CommitPaths(P, files, by, text, markers)
    PROVE  Cleared
<1> DEFINE c == [by |-> by, paths |-> P, text |-> text, markers |-> markers]
           n == Len(log) + 1
<1>1. c \in Commits /\ c.paths = P
  BY DEF Commits
<1>2. log' = Append(log, c) /\ log \in Seq(Commits)
  BY DEF CommitPaths, TypeOK
<1> HIDE DEF c
<1>3. n \in DOMAIN log' \ DOMAIN log /\ log'[n].paths = P
  BY <1>1, <1>2, AppendFacts
<1>4. /\ tree'.edited = files
      /\ \A p \in Paths : tree'.index[p] =
            IF p \in P THEN "same" ELSE tree.index[p]
  BY DEF CommitPaths
<1>5. Dirty \ Dirty' \subseteq P
  <2> SUFFICES ASSUME NEW p \in Dirty, p \notin P
               PROVE  p \in Dirty'
    OBVIOUS
  <2>1. CASE p \in tree.edited
    BY <1>4, <2>1 DEF Dirty
  <2>2. CASE p \in Changed
    BY <1>4, <2>2 DEF Dirty, Changed
  <2> QED
    BY <2>1, <2>2 DEF Dirty
<1> QED
  BY <1>3, <1>5 DEF Cleared

LEMMA StepClears ==
    ASSUME "editDuringRebase" \notin Mishaps, IInv, [Next]_vars
    PROVE  Cleared
<1>1. TypeOK /\ tree \in Trees
  BY DEF IInv, TypeOK
<1>2. CASE UNCHANGED tree
  <2>1. tree' = tree
    BY <1>2
  <2> QED
    BY <2>1, KeepsDirty
<1>3. CASE Staged
  <2> DEFINE P == IF policy = "all" THEN Paths ELSE cycle.selected
  <2>1. P \in SUBSET Paths
    BY <1>1 DEF TypeOK, Cycles
  <2>2. Add(P)
    BY <1>3 DEF Staged
  <2> HIDE DEF P
  <2>3. Dirty' = Dirty
    BY <1>1, <2>1, <2>2, AddFacts
  <2> QED
    BY <2>3 DEF Cleared
<1>4. CASE Committed
  <2> DEFINE files == IF policy = "all" THEN tree.edited
                                        ELSE tree.edited \ Committable
             markers == \E p \in Committable :
                           IF policy = "all" THEN tree.index[p] = "markers"
                                             ELSE HasMarkers(p)
             P == Committable
  <2>1. /\ P \in SUBSET Paths /\ files \in SUBSET Paths /\ markers \in BOOLEAN
        /\ tree.edited \ P \subseteq files
    BY <1>1, CommittableFacts DEF Trees
  <2>2. CommitPaths(P, files, "agent", "placeholder", markers)
    BY <1>4 DEF Committed
  <2> HIDE DEF P, files, markers
  <2> QED
    BY <1>1, <2>1, <2>2, CommitClears
<1>5. CASE Pulled
  <2>1. tree'.edited = tree.edited /\ tree'.index = tree.index
    BY <1>1, <1>5 DEF Pulled, Trees
  <2> QED
    BY <2>1, KeepsDirty
<1>6. CASE Aborted
  <2>1. tree'.index = tree.index
    BY <1>1, <1>6 DEF Aborted, Trees
  <2>2. tree'.edited = IF rebasing THEN tree.edited \ tree.tracked
                                   ELSE tree.edited
    BY <1>1, <1>6 DEF Aborted, Trees
  <2>3. rebasing => tree.edited \intersect tree.tracked = {}
    BY <1>1, <1>6 DEF Aborted, IInv, CleanUnderAbort, Trees
  <2> QED
    BY <2>1, <2>2, <2>3, KeepsDirty
<1>7. ASSUME NEW q \in Paths, Edit(q) \/ Conflict(q) \/ Resolve(q)
      PROVE  Cleared
  <2>1. /\ tree.edited \subseteq tree'.edited
        /\ \A p \in Paths : tree.index[p] # "same" => tree'.index[p] # "same"
    BY <1>1, <1>7 DEF Edit, Conflict, Resolve, Trees
  <2> QED
    BY <2>1, KeepsDirty
<1>8. ASSUME NEW q \in Paths, OperatorAdds(q)
      PROVE  Cleared
  <2>1. Add({q}) /\ {q} \in SUBSET Paths
    BY <1>8 DEF OperatorAdds
  <2>2. Dirty' = Dirty
    BY <1>1, <2>1, AddFacts
  <2> QED
    BY <2>2 DEF Cleared
<1>9. CASE OperatorCommits
  <2> DEFINE markers == \E p \in Changed : tree.index[p] = "markers"
             P == Changed
             files == tree.edited
  <2>1. /\ P \in SUBSET Paths /\ files \in SUBSET Paths /\ markers \in BOOLEAN
        /\ tree.edited \ P \subseteq files
    BY <1>1 DEF Changed, Trees
  <2>2. CommitPaths(P, files, "operator", "own", markers)
    BY <1>9 DEF OperatorCommits
  <2> HIDE DEF P, files, markers
  <2> QED
    BY <1>1, <2>1, <2>2, CommitClears
<1>10. CASE CycleStep
  <2>1. CASE \/ Begin \/ StatusRead \/ UnmergedChecked \/ NothingCommitted
             \/ Reworded \/ RewordRefused \/ EvaluateAttention \/ PullChecked
             \/ PullRefused \/ PullConflicts \/ Pushed \/ PushRejected
             \/ NoRemote \/ Finished
    <3>1. UNCHANGED tree
      BY <2>1 DEF Begin, StatusRead, UnmergedChecked, NothingCommitted,
         Reworded, RewordRefused, EvaluateAttention, PullChecked, PullRefused,
         PullConflicts, Pushed, PushRejected, NoRemote, Finished, repo
    <3> QED
      BY <1>2, <3>1
  <2> QED
    BY <1>3, <1>4, <1>5, <1>6, <1>10, <2>1 DEF CycleStep
<1>11. CASE Fault
  <2>1. UNCHANGED tree
    BY <1>11 DEF Fault, CommandFails, Paused, PullCanceled, AbortFails, Crash,
       repo
  <2> QED
    BY <1>2, <2>1
<1>12. CASE Others
  <2>1. OperatorEndsRebase \/ (\E q \in Paths : OtherPushes(q)) => UNCHANGED tree
    BY DEF OperatorEndsRebase, OtherPushes
  <2> QED
    BY <1>2, <1>7, <1>8, <1>9, <1>12, <2>1 DEF Others
<1>13. CASE UNCHANGED vars
  <2>1. UNCHANGED tree
    BY <1>13 DEF vars
  <2> QED
    BY <1>2, <2>1
<1> QED
  BY <1>10, <1>11, <1>12, <1>13 DEF Next

\* What is written and not committed stays until a commit takes it, as long as
\* nobody edits while a pull stands in a conflict: stage, commit, pull, abort
\* and a crash between them clear nothing else (git.go:98-145).
THEOREM EditsAlwaysSurvive ==
    ASSUME "editDuringRebase" \notin Mishaps
    PROVE  Spec => EditsSurvive
<1>1. IInv /\ [Next]_vars => [Cleared]_vars
  BY StepClears
<1>2. Cleared <=> \A p \in Dirty \ Dirty' :
          \E i \in DOMAIN log' \ DOMAIN log : p \in log'[i].paths
  BY DEF Cleared
<1> QED
  BY Invariance, <1>1, <1>2, PTL DEF Spec, EditsSurvive
=============================================================================
