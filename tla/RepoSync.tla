------------------------------ MODULE RepoSync ------------------------------
(***************************************************************************)
(* The repository under one agent's sync cycle: working tree and index,    *)
(* the configured branch here and at the remote, an operator who works in  *)
(* the same tree, and other hosts that push.                               *)
(*                                                                         *)
(* A path is known by how its file and its index entry differ from HEAD, a *)
(* commit by who made it and what it touches.  A branch is a set of        *)
(* commits: a rebase moves commits and keeps them, and a push is accepted  *)
(* only over everything the remote has.  One action is one git command of  *)
(* the cycle with what sync() does up to the next; hooks have no actions   *)
(* of their own, for the operator's come between any two commands.         *)
(***************************************************************************)
EXTENDS Naturals, Sequences

CONSTANTS
    Paths,      \* the files of the repository
    Regions,    \* those beneath cfg.CommitRegions, each a region of its own
    Budget,     \* how often the world may act: edits, foreign pushes, faults
    Mishaps     \* which of MishapKinds may happen

\* An operator's conflict between the unmerged check and the commit; an edit
\* while a pull stands in a conflict; a remote that git cannot read.
MishapKinds == {"conflictAfterCheck", "editDuringRebase", "unreadableRemote"}

ASSUME RegionsAssumption == Regions \subseteq Paths
ASSUME BudgetAssumption == Budget \in Nat
ASSUME MishapsAssumption == Mishaps \subseteq MishapKinds

VARIABLES
    policy,     \* cfg.CommitPolicy
    hasRemote,  \* cfg.Remote names a remote; a repository may have none
    tree,       \* index and working tree, against HEAD
    log,        \* every commit there is, in the order they were made
    local,      \* the commits of the configured branch
    remote,     \* the commits of the remote's branch
    rebasing,   \* a rebase is in progress
    pc,         \* the cycle's next command
    cycle,      \* the locals of sync()
    error,      \* an error detail is retained
    attention,  \* an attention detail is retained
    budget      \* what is left of Budget

config == <<policy, hasRemote>>
repo == <<config, tree, log, local, remote, rebasing>>
vars == <<policy, hasRemote, tree, log, local, remote, rebasing, pc, cycle,
          error, attention, budget>>

----------------------------------------------------------------------------
(* The repository *)

Policies == {"all", "regions", "none"}

\* An index entry against HEAD: the same, new content, content that still has
\* conflict markers in it, or the stages of a conflict.
Entries == {"same", "new", "markers", "unmerged"}

Trees == [index   : [Paths -> Entries],
          edited  : SUBSET Paths,     \* the file differs from the index
          tracked : SUBSET Paths]     \* HEAD has the path

Commits == [by      : {"agent", "operator", "other"},
            paths   : SUBSET Paths,
            text    : {"own", "placeholder", "generated"},
            markers : BOOLEAN]

Changed == {p \in Paths : tree.index[p] # "same"}

Dirty == tree.edited \union Changed

Unmerged == {p \in Paths : tree.index[p] = "unmerged"}

\* The entries of status that are not "??": IsTracked.
TrackedDirt == Changed \union (tree.edited \intersect tree.tracked)

UntrackedDirt == Dirty \ TrackedDirt

\* partitionStatus: which paths the policy lets the agent commit.
Selectable ==
    CASE policy = "all"     -> Paths
      [] policy = "regions" -> Regions
      [] policy = "none"    -> {}

Incoming == remote \ local
Outgoing == local \ remote

Touched(ids) == UNION {log[i].paths : i \in ids}

\* A rebase may conflict when both sides changed a file.
Overlap == Touched(Incoming) \intersect Touched(Outgoing) # {}

\* git refuses to overwrite an untracked file.
Collision == Touched(Incoming) \intersect UntrackedDirt # {}

\* git pull --rebase begins to replay: git found nothing in its way, and there
\* is something to replay and something to replay it over.
Replayable ==
    TrackedDirt = {} /\ ~Collision /\ Incoming # {} /\ Outgoing # {}

\* A file's content with conflict markers: nobody resolved or edited it since.
HasMarkers(p) ==
    tree.index[p] \in {"markers", "unmerged"} /\ p \notin tree.edited

\* git add -A of some paths.
Add(P) ==
    tree' = [tree EXCEPT
        !.index = [p \in Paths |->
                     CASE p \notin P \intersect Dirty -> tree.index[p]
                       [] p \in P \intersect Dirty /\ HasMarkers(p) -> "markers"
                       [] OTHER -> "new"],
        !.edited = @ \ P]

\* A commit of some paths appears on the branch; files keeps the edits that
\* are not in it.
CommitPaths(P, files, by, text, markers) ==
    /\ log' = Append(log, [by |-> by, paths |-> P, text |-> text,
                           markers |-> markers])
    /\ local' = local \union {Len(log) + 1}
    /\ tree' = [index   |-> [p \in Paths |->
                               IF p \in P THEN "same" ELSE tree.index[p]],
                edited  |-> files,
                tracked |-> tree.tracked \union P]

----------------------------------------------------------------------------
(* The sync cycle *)

Phases == {"idle", "status", "unmerged", "stage", "commit", "reword",
           "attention", "pull", "rebase", "abort", "abortCanceled", "push",
           "finish"}

Cycles == [selected   : SUBSET Paths,   \* partition.regions, or all of them
           unselected : BOOLEAN,        \* partition.unselectedPaths
           paused     : BOOLEAN,        \* partition.hasTrackedUnselected
           created    : Nat]            \* createdSHA

NoCycle == [selected |-> {}, unselected |-> FALSE, paused |-> FALSE,
            created |-> 0]

GoTo(phase) == pc' = phase /\ UNCHANGED <<cycle, error, attention, budget>>

\* setError, or the end of a completed cycle.
End(failed) ==
    /\ pc' = "idle"
    /\ cycle' = NoCycle
    /\ error' = failed
    /\ UNCHANGED <<attention, budget>>

\* Mutant: a cycle starts only when no error stands.
BeginUnlessError ==
    /\ pc = "idle" /\ ~error
    /\ IF rebasing THEN End(TRUE) ELSE GoTo("status")
    /\ UNCHANGED repo

\* Mutant: a branch mismatch is skipped over in silence.
BeginSilently ==
    /\ pc = "idle" /\ ~rebasing
    /\ GoTo("status")
    /\ UNCHANGED repo

\* validateBranch: in a rebase HEAD is on no branch.
Begin ==
    /\ pc = "idle"
    /\ IF rebasing THEN End(TRUE) ELSE GoTo("status")
    /\ UNCHANGED repo

\* Mutant: the policy is not asked.
StatusReadUnpartitioned ==
    /\ pc = "status"
    /\ cycle' = [NoCycle EXCEPT !.selected = Dirty]
    /\ pc' = IF Dirty = {} THEN "attention" ELSE "unmerged"
    /\ UNCHANGED <<repo, error, attention, budget>>

\* Status and partitionStatus.
StatusRead ==
    /\ pc = "status"
    /\ cycle' = [selected   |-> Dirty \intersect Selectable,
                 unselected |-> Dirty \ Selectable # {},
                 paused     |-> TrackedDirt \ Selectable # {},
                 created    |-> 0]
    /\ pc' = IF Dirty = {} THEN "attention" ELSE "unmerged"
    /\ UNCHANGED <<repo, error, attention, budget>>

AfterUnmerged == IF cycle.selected # {} THEN "stage" ELSE "attention"

\* Mutant: conflicts are not looked for.
UnmergedUnchecked ==
    /\ pc = "unmerged"
    /\ GoTo(AfterUnmerged)
    /\ UNCHANGED repo

\* Unmerged: a tree with unresolved conflicts is an error.
UnmergedChecked ==
    /\ pc = "unmerged"
    /\ IF Unmerged # {} THEN End(TRUE) ELSE GoTo(AfterUnmerged)
    /\ UNCHANGED repo

\* StageAll, or StageRegions of the regions the partition selected.
Staged ==
    /\ pc = "stage"
    /\ Add(IF policy = "all" THEN Paths ELSE cycle.selected)
    /\ GoTo("commit")
    /\ UNCHANGED <<config, log, local, remote, rebasing>>

\* Mutant: the regions are staged, the whole index is committed.
CommittablePlain == IF Unmerged = {} THEN Changed ELSE {}

\* What the commit takes.  Commit takes the index, which must not be unmerged;
\* CommitOnly takes the files of its regions that git knows, whatever the
\* index has of them and of others.
Committable ==
    IF policy = "all"
      THEN IF Unmerged = {} THEN Changed ELSE {}
      ELSE cycle.selected \intersect TrackedDirt

\* Commit or CommitOnly, with the placeholder message.
Committed ==
    /\ pc = "commit" /\ Committable # {}
    /\ CommitPaths(Committable,
                   IF policy = "all" THEN tree.edited
                                     ELSE tree.edited \ Committable,
                   "agent", "placeholder",
                   \E p \in Committable :
                      IF policy = "all" THEN tree.index[p] = "markers"
                                        ELSE HasMarkers(p))
    /\ cycle' = [cycle EXCEPT !.created = Len(log) + 1]
    /\ pc' = "reword"
    /\ UNCHANGED <<config, remote, rebasing, error, attention, budget>>

\* ErrNothingToCommit: somebody else committed what was dirty.  Otherwise a
\* commit of nothing is git's error.
NothingCommitted ==
    /\ pc = "commit" /\ Committable = {}
    /\ IF Dirty = {} THEN GoTo("attention") ELSE End(TRUE)
    /\ UNCHANGED repo

\* The branch still ends in the commit the cycle made.
BranchUnmoved == \A i \in local : i <= cycle.created

\* Mutant: update-ref without the old value; what came after is cut off.
RewordedUnchecked ==
    /\ pc = "reword"
    /\ log' = [log EXCEPT ![cycle.created].text = "generated"]
    /\ local' = {i \in local : i <= cycle.created}
    /\ GoTo("attention")
    /\ UNCHANGED <<config, tree, remote, rebasing>>

\* RewordCommit: same tree and parents, another message, and the branch is
\* swapped if nobody moved it.
Reworded ==
    /\ pc = "reword" /\ BranchUnmoved
    /\ log' = [log EXCEPT ![cycle.created].text = "generated"]
    /\ GoTo("attention")
    /\ UNCHANGED <<config, tree, local, remote, rebasing>>

RewordRefused ==
    /\ pc = "reword" /\ ~BranchUnmoved
    /\ End(TRUE)
    /\ UNCHANGED repo

\* Unselected paths need attention; tracked ones hold back the pull.
EvaluateAttention ==
    /\ pc = "attention"
    /\ attention' = cycle.unselected
    /\ pc' = IF cycle.paused THEN "push" ELSE "pull"
    /\ UNCHANGED <<repo, cycle, error, budget>>

\* Mutant: a pull that finds dirt makes room for itself.
PullDiscardsDirt ==
    /\ pc = "pull"
    /\ tree' = [tree EXCEPT !.edited = @ \ tree.tracked]
    /\ GoTo("rebase")
    /\ UNCHANGED <<config, log, local, remote, rebasing>>

\* Pull's own look at the tree; dirt that came since the partition ends the
\* cycle without an error.
PullChecked ==
    /\ pc = "pull"
    /\ IF TrackedDirt # {} THEN End(error) ELSE GoTo("rebase")
    /\ UNCHANGED repo

\* git pull --rebase, when git refuses to start.
PullRefused ==
    /\ pc = "rebase" /\ (TrackedDirt # {} \/ Collision)
    /\ End(TRUE)
    /\ UNCHANGED repo

\* git pull --rebase: what is only here is replayed over what is there.
Pulled ==
    /\ pc = "rebase" /\ hasRemote /\ TrackedDirt = {} /\ ~Collision
    /\ local' = local \union remote
    /\ tree' = [tree EXCEPT !.tracked = @ \union Touched(Incoming)]
    /\ GoTo("push")
    /\ UNCHANGED <<config, log, remote, rebasing>>

PullConflicts ==
    /\ pc = "rebase" /\ Replayable /\ Overlap
    /\ rebasing' = TRUE
    /\ GoTo("abort")
    /\ UNCHANGED <<config, tree, log, local, remote>>

\* git rebase --abort: the branch is where it was, and so is every tracked
\* file.  After a conflict the cycle ends in an error, under shutdown not.
Aborted ==
    /\ pc \in {"abort", "abortCanceled"}
    /\ rebasing' = FALSE
    /\ tree' = IF rebasing THEN [tree EXCEPT !.edited = @ \ tree.tracked]
                           ELSE tree
    /\ End(pc = "abort" \/ error)
    /\ UNCHANGED <<config, log, local, remote>>

\* git push HEAD:<branch>, accepted only over everything the remote has.
Pushed ==
    /\ pc = "push" /\ hasRemote /\ Incoming = {}
    /\ remote' = local
    /\ GoTo("finish")
    /\ UNCHANGED <<config, tree, log, local, rebasing>>

PushRejected ==
    /\ pc = "push" /\ Incoming # {}
    /\ End(TRUE)
    /\ UNCHANGED repo

\* ErrNoRemote, from pull or push: the cycle completes without a remote.
NoRemote ==
    /\ ~hasRemote \/ "unreadableRemote" \in Mishaps
    /\ pc = "push" \/ (pc = "rebase" /\ TrackedDirt = {})
    /\ End(FALSE)
    /\ UNCHANGED repo

\* finishSuccessfulSync
Finished ==
    /\ pc = "finish"
    /\ End(FALSE)
    /\ UNCHANGED repo

----------------------------------------------------------------------------
(* Cycles that do not complete *)

InCycle == pc \notin {"idle", "abort", "abortCanceled"}

Spend == budget > 0 /\ budget' = budget - 1

\* A command or a hook fails: the cycle ends in an error.
CommandFails ==
    /\ InCycle /\ Spend
    /\ pc' = "idle" /\ cycle' = NoCycle /\ error' = TRUE
    /\ UNCHANGED <<repo, attention>>

\* A pause at a phase boundary, or shutdown anywhere but in a pull, ends the
\* cycle as it is.
Paused ==
    /\ InCycle /\ pc # "rebase" /\ Spend
    /\ pc' = "idle" /\ cycle' = NoCycle
    /\ UNCHANGED <<repo, error, attention>>

\* Shutdown kills a pull, perhaps inside its rebase; the abort follows.
PullCanceled ==
    /\ pc = "rebase" /\ Spend
    /\ rebasing' \in {FALSE, Replayable}
    /\ pc' = "abortCanceled"
    /\ UNCHANGED <<config, tree, log, local, remote, cycle, error, attention>>

AbortFails ==
    /\ pc \in {"abort", "abortCanceled"} /\ Spend
    /\ pc' = "idle" /\ cycle' = NoCycle
    /\ error' = (pc = "abort" \/ error)
    /\ UNCHANGED <<repo, attention>>

\* The agent dies, perhaps inside a rebase, and is started again.
Crash ==
    /\ Spend
    /\ pc' = "idle" /\ cycle' = NoCycle
    /\ error' = FALSE /\ attention' = FALSE
    /\ rebasing' \in IF pc = "rebase" THEN {FALSE, Replayable} ELSE {rebasing}
    /\ UNCHANGED <<config, tree, log, local, remote>>

----------------------------------------------------------------------------
(* The operator and the other hosts *)

agentOnly == <<pc, cycle, error, attention>>

\* A file is written: by the operator, an editor, a hook.
Edit(p) ==
    /\ p \notin tree.edited /\ tree.index[p] # "unmerged"
    /\ rebasing => "editDuringRebase" \in Mishaps
    /\ Spend
    /\ tree' = [tree EXCEPT !.edited = @ \union {p}]
    /\ UNCHANGED <<config, log, local, remote, rebasing, agentOnly>>

\* A stash, merge or cherry-pick of the operator's leaves a conflict.
Conflict(p) ==
    /\ p \in tree.tracked \ Dirty /\ ~rebasing
    /\ pc \in {"stage", "commit"} => "conflictAfterCheck" \in Mishaps
    /\ Spend
    /\ tree' = [tree EXCEPT !.index[p] = "unmerged"]
    /\ UNCHANGED <<config, log, local, remote, rebasing, agentOnly>>

\* A resolution is staged.
Resolve(p) ==
    /\ p \in Unmerged
    /\ tree' = [tree EXCEPT !.index[p] = "new"]
    /\ UNCHANGED <<config, log, local, remote, rebasing, agentOnly, budget>>

OperatorAdds(p) ==
    /\ p \in tree.edited /\ ~rebasing
    /\ Add({p})
    /\ UNCHANGED <<config, log, local, remote, rebasing, agentOnly, budget>>

OperatorCommits ==
    /\ Changed # {} /\ Unmerged = {} /\ ~rebasing
    /\ CommitPaths(Changed, tree.edited, "operator", "own",
                   \E p \in Changed : tree.index[p] = "markers")
    /\ UNCHANGED <<config, remote, rebasing, agentOnly, budget>>

OperatorEndsRebase ==
    /\ rebasing /\ pc \notin {"abort", "abortCanceled"}
    /\ rebasing' = FALSE
    /\ UNCHANGED <<config, tree, log, local, remote, agentOnly, budget>>

\* Another host pushes a commit.
OtherPushes(p) ==
    /\ hasRemote /\ Spend
    /\ log' = Append(log, [by |-> "other", paths |-> {p}, text |-> "own",
                           markers |-> FALSE])
    /\ remote' = remote \union {Len(log) + 1}
    /\ UNCHANGED <<config, tree, local, rebasing, agentOnly>>

----------------------------------------------------------------------------
(* The specification *)

Init ==
    /\ policy \in Policies /\ hasRemote \in BOOLEAN
    /\ \E T \in SUBSET Paths :
          tree = [index |-> [p \in Paths |-> "same"], edited |-> {},
                  tracked |-> T]
    /\ log = <<>> /\ local = {} /\ remote = {}
    /\ rebasing = FALSE
    /\ pc = "idle" /\ cycle = NoCycle
    /\ error = FALSE /\ attention = FALSE
    /\ budget = Budget

CycleStep ==
    \/ Begin
    \/ StatusRead
    \/ UnmergedChecked
    \/ Staged
    \/ Committed
    \/ NothingCommitted
    \/ Reworded
    \/ RewordRefused
    \/ EvaluateAttention
    \/ PullChecked
    \/ PullRefused
    \/ Pulled
    \/ PullConflicts
    \/ Aborted
    \/ Pushed
    \/ PushRejected
    \/ NoRemote
    \/ Finished

Fault ==
    \/ CommandFails
    \/ Paused
    \/ PullCanceled
    \/ AbortFails
    \/ Crash

Others ==
    \/ \E p \in Paths : Edit(p)
    \/ \E p \in Paths : Conflict(p)
    \/ \E p \in Paths : Resolve(p)
    \/ \E p \in Paths : OperatorAdds(p)
    \/ OperatorCommits
    \/ OperatorEndsRebase
    \/ \E p \in Paths : OtherPushes(p)

Next == CycleStep \/ Fault \/ Others

Spec == Init /\ [][Next]_vars

\* Cycles go on: polls come, and commands that neither hang nor fail return.
\* Nobody else has to do anything.
FairSpec == Spec /\ WF_vars(CycleStep)

----------------------------------------------------------------------------
(* Properties *)

TypeOK ==
    /\ policy \in Policies /\ hasRemote \in BOOLEAN
    /\ tree \in Trees
    /\ log \in Seq(Commits)
    /\ local \subseteq DOMAIN log
    /\ remote \subseteq DOMAIN log
    /\ rebasing \in BOOLEAN
    /\ pc \in Phases
    /\ cycle \in Cycles
    /\ cycle.selected \subseteq Selectable
    /\ cycle.created \in {0} \union DOMAIN log
    /\ error \in BOOLEAN
    /\ attention \in BOOLEAN
    /\ budget \in 0..Budget

\* The agent commits nothing the policy did not select, whatever the operator
\* stages, edits or commits between the status and the commit
\* (git.go:83-96, agent.go:409-433).
PolicyRespected ==
    \A i \in DOMAIN log : log[i].by = "agent" => log[i].paths \subseteq Selectable

\* No commit disappears, and nobody's message is replaced but the agent's own
\* placeholder: neither reword, pull, abort nor a crash between them takes
\* anything from the branch (git.go:239-270).
NothingLost ==
    \A i \in DOMAIN log :
        /\ i \in local \union remote
        /\ log[i].by # "agent" => log[i].text = "own"

\* What is written and not committed stays until a commit takes it: the cycle
\* never clears a file or an index entry on its way
\* (docs/current/sync-loop.md: the tree is never silently discarded).
EditsSurvive ==
    [][\A p \in Dirty \ Dirty' :
          \E i \in DOMAIN log' \ DOMAIN log : p \in log'[i].paths]_vars

\* The agent commits no file with unresolved conflict markers in it
\* (agent.go:374-388).
NoMarkersCommitted ==
    \A i \in DOMAIN log : log[i].by = "agent" => ~log[i].markers

Delivered ==
    /\ Dirty \intersect Selectable = {}
    /\ hasRemote => Outgoing = {}

\* Only a person can go on: a conflict, a rebase, a file in the way, or
\* tracked changes the policy leaves to the operator.
NeedsOperator ==
    rebasing \/ Unmerged # {} \/ Collision \/ Overlap \/ TrackedDirt \ Selectable # {}

\* Retrying works: after the last edit, push and fault, all that the policy
\* selects is committed and all that is committed is pushed, unless only the
\* operator can go on (agent.go:293-312, docs/current/sync-loop.md).
Converges == <>[](Delivered \/ NeedsOperator)

\* The agent is not stuck in silence: if something stays undelivered, an error
\* or an attention stands again and again (README.md, "never silently").
StuckIsTold == <>[]Delivered \/ []<>(error \/ attention)
=============================================================================
