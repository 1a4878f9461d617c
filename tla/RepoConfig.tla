------------------------------ MODULE RepoConfig ------------------------------
(***************************************************************************)
(* What a daemon makes of its configuration when it starts: which of the   *)
(* configured repositories it watches, under which name and which commit   *)
(* policy (internal/config/load.go, internal/agent/container.go), and      *)
(* which of them a caller's word then means (internal/agent/controller.go).*)
(*                                                                         *)
(* Three layers are resolved once, repository by repository; a repository  *)
(* whose configuration does not resolve is skipped, and identity is        *)
(* checked on those that are left.                                         *)
(***************************************************************************)
EXTENDS Regions

CONSTANTS
    Lists,      \* the list settings besides regions: windows, and hooks by phase
    Home,       \* what "~" expands to
    Cwd,        \* the daemon's working directory
    Dirs,       \* directories that the paths in use lead to
    Disks,      \* what may stand on the disk when the daemon starts
    Trees       \* changed working trees: sequences of changes

----------------------------------------------------------------------------
(* Types *)

Policies == {"all", "regions", "none"}

\* The part "/" stands at the beginning of a path and nowhere else.
Path == {path \in Seq(STRING) : \A i \in 2..Len(path) : path[i] # Root}

Unset == ""

\* RepoLocalConfig, RepoEntry and RepoDefaults; only an entry has a path, and
\* defaults have no name.  "bad" stands for a policy that is none of the three
\* and for a duration or a time that does not parse.
Layer ==
    [name : Path, policy : Policies \union {Unset, "bad"},
     regions : Seq(Path), poll : {Unset, "good", "bad"},
     lists : [Lists -> Seq({"good", "bad"})]]

\* An element of the global file's repos.
Entry == [path : Path, layer : Layer]

\* The global file is absent, cannot be bound, or says something.  A directory
\* may hold a git repository, and a .sexton.yaml of its own: a layer (that sets
\* nothing where there is no file) or one that cannot be bound.
Disk ==
    [global : {"absent", "malformed", "good"},
     modelWithoutEndpoint : BOOLEAN,
     defaults : Layer,
     repos : Seq(Entry),
     local : [Dirs -> Layer],
     malformed : SUBSET Dirs,
     git : SUBSET Dirs]

\* ResolvedRepo, as far as it tells repositories and commits apart, and the
\* entry it was resolved from.  The path that has no part has the name ".".
Resolved ==
    [path : Path, name : Path \union {<<".">>}, explicitName : BOOLEAN,
     policy : Policies, regions : Seq(Path),
     entry : Entry]

\* A change of a working tree; only a rename and a copy come from elsewhere.
Change ==
    {change \in [kind : {"edit", "new", "rename", "copy"}, path : Path, from : Path] :
        change.kind = "rename" => change.from # <<>>}

ASSUME PathsAssumption == {Home, Cwd} \subseteq Path /\ IsAbs(Cwd)
ASSUME DisksAssumption == Disks \subseteq Disk
ASSUME TreesAssumption == \A changes \in Trees : changes \in Seq(Change)

VARIABLES
    disk,       \* what does
    outcome,    \* of the start: "loading", "resolving", "running" or "failed"
    rest,       \* cfg.Repos still to be resolved
    agents      \* Container.Agents

vars == <<disk, outcome, rest, agents>>

TypeOK ==
    /\ disk \in Disk
    /\ outcome \in {"loading", "resolving", "running", "failed"}
    /\ rest \in Seq(Range(disk.repos))
    /\ agents \in Seq(Resolved)

----------------------------------------------------------------------------
(* config.Resolve *)

\* ExpandPath; filepath.Join cleans what it joins to the home directory.
Expand(path) ==
    IF path # <<>> /\ Head(path) = "~" THEN Clean(Home \o Tail(path)) ELSE path

\* The directory a path leads to.
Dir(path) == Clean(IF IsAbs(path) THEN path ELSE Cwd \o path)

Blank ==
    [name |-> <<>>, policy |-> Unset, regions |-> <<>>, poll |-> Unset,
     lists |-> [l \in Lists |-> <<>>]]

\* LoadRepoLocal, and what NewContainer puts in the place of a file that
\* cannot be bound.
Local(dir) ==
    IF dir \in disk.malformed THEN [Blank EXCEPT !.policy = "none"]
    ELSE disk.local[dir]

\* The layers of an entry, the one that wins first.
LayersOf(entry) ==
    <<Local(Dir(Expand(entry.path))), entry.layer, disk.defaults>>

\* Scalars and lists alike: the first layer that sets it.
Coalesce(values, unset) ==
    LET set == {k \in DOMAIN values : values[k] # unset}
    IN  IF set = {} THEN unset ELSE values[Min(set)]

Setting(layers, setting, unset) ==
    Coalesce([k \in DOMAIN layers |-> layers[k][setting]], unset)

\* Mutant: what no layer sets stays unset.
PolicyAsSet(layers) == Setting(layers, "policy", Unset)

PolicyOf(layers) ==
    LET set == Setting(layers, "policy", Unset)
    IN  IF set = Unset THEN "none" ELSE set

\* The errors of resolveHooks and resolveHoldoutWindows: in the list that wins,
\* and in no other.
BadList(layers) ==
    \E l \in Lists :
        "bad" \in Range(Coalesce([k \in DOMAIN layers |-> layers[k].lists[l]], <<>>))

\* The errors of Resolve.
Refused(layers) ==
    LET policy  == PolicyOf(layers)
        regions == Setting(layers, "regions", <<>>)
    IN  \/ Setting(layers, "poll", Unset) = "bad"
        \/ BadList(layers)
        \/ policy = "bad"
        \/ \E i \in DOMAIN regions : BadRegion(regions[i])
        \/ policy = "regions" /\ regions = <<>>

Resolve(entry) ==
    LET layers  == LayersOf(entry)
        path    == Expand(entry.path)
        name    == Setting(SubSeq(layers, 1, 2), "name", <<>>)
        regions == Setting(layers, "regions", <<>>)
    IN  [path |-> path,
         name |-> IF name # <<>> THEN name ELSE Base(path),
         explicitName |-> name # <<>>,
         policy |-> PolicyOf(layers),
         regions |-> [i \in DOMAIN regions |-> Clean(regions[i])],
         entry |-> entry]

----------------------------------------------------------------------------
(* The start: config.Load, then NewContainer *)

\* Without a global file there is nothing to watch.
Load ==
    /\ outcome = "loading"
    /\ outcome' = IF /\ disk.global = "good"
                     /\ ~disk.modelWithoutEndpoint
                     /\ disk.repos # <<>>
                    THEN "resolving" ELSE "failed"
    /\ rest' = IF disk.global = "good" THEN disk.repos ELSE <<>>
    /\ UNCHANGED <<disk, agents>>

\* The loop body: an entry becomes an agent, or is skipped with a warning.
Consider ==
    /\ outcome = "resolving"
    /\ rest # <<>>
    /\ LET entry   == Head(rest)
           skipped == \/ Refused(LayersOf(entry))
                      \/ Dir(Expand(entry.path)) \notin disk.git
       IN  agents' = IF skipped THEN agents ELSE Append(agents, Resolve(entry))
    /\ rest' = Tail(rest)
    /\ UNCHANGED <<disk, outcome>>

\* Mutant: an entry is compared only with the one before it.
ClashOfNeighbours ==
    \E i, j \in DOMAIN agents :
        /\ j = i + 1
        /\ \/ agents[i].path = agents[j].path
           \/ /\ agents[i].explicitName /\ agents[j].explicitName
              /\ agents[i].name = agents[j].name

\* The errors of validateRepoIdentifiers.
Clash ==
    \E i, j \in DOMAIN agents :
        /\ i # j
        /\ \/ agents[i].path = agents[j].path
           \/ /\ agents[i].explicitName /\ agents[j].explicitName
              /\ agents[i].name = agents[j].name

\* The end of NewContainer.
Validate ==
    /\ outcome = "resolving"
    /\ rest = <<>>
    /\ outcome' = IF agents = <<>> \/ Clash THEN "failed" ELSE "running"
    /\ UNCHANGED <<disk, rest, agents>>

Init ==
    /\ disk \in Disks
    /\ outcome = "loading"
    /\ rest = <<>>
    /\ agents = <<>>

Next == Load \/ Consider \/ Validate

Spec == Init /\ [][Next]_vars

----------------------------------------------------------------------------
(* Container.ResolveAgent: the agents a caller's word can mean.  One is the *)
(* answer, none is "repo not found", several are "ambiguous repo".          *)

Matches(repo) ==
    LET byPath == {i \in DOMAIN agents : agents[i].path = repo}
        byName == {i \in DOMAIN agents :
                      agents[i].explicitName /\ agents[i].name = repo}
        byBase == {i \in DOMAIN agents : Base(agents[i].path) = repo}
    IN  IF byPath # {} THEN byPath ELSE IF byName # {} THEN byName ELSE byBase

----------------------------------------------------------------------------
(* What git shows of a changed tree, and what a cycle makes of it *)

\* How git status prints a change: its two letters, its path, and the source
\* of a rename or a copy in a field of its own.
Printed(change) ==
    CASE change.kind = "edit"   -> <<<<" ", "M", change.path>>>>
      [] change.kind = "new"    -> <<<<"?", "?", change.path>>>>
      [] change.kind = "rename" -> <<<<"R", " ", change.path>>, <<change.from>>>>
      [] change.kind = "copy"   -> <<<<"C", " ", change.path>>, <<change.from>>>>

StatusText(changes) ==
    <<<<"##">>>> \o FlattenSeq([i \in DOMAIN changes |-> Printed(changes[i])])
                 \o <<<<>>>>

Parted(agent, changes) ==
    Partition(parseStatus(StatusText(changes)), agent.policy, agent.regions)

\* What a change changes: the source of a copy stays as it is.
Touched(change) ==
    {change.path} \union {p \in {change.from} : change.kind = "rename"}

TouchedBy(changes) == UNION {Touched(changes[i]) : i \in DOMAIN changes}

\* What StageAll or StageRegions, and Commit or CommitOnly, take of it.
Committed(agent, changes) ==
    LET parted == Parted(agent, changes)
    IN  {path \in TouchedBy(changes) :
           /\ parted.hasSelectedChanges
           /\ \/ agent.policy = "all"
              \/ \E region \in parted.regions : Beneath(region, path)}

----------------------------------------------------------------------------
(* Properties *)

\* What the configuration asks for, said without resolving it: the layer with
\* the most say that has a policy names it, the one with the most say that has
\* regions names the directories, and a region is the directory it leads to
\* from the repository.  A repository whose own file cannot be read asks for
\* nothing.
Asks(entry, path) ==
    LET dir    == Dir(Expand(entry.path))
        layers == <<disk.local[dir], entry.layer, disk.defaults>>
        first(k, has(_)) == has(k) /\ \A j \in 1..k-1 : ~has(j)
        hasPolicy(k)  == layers[k].policy # Unset
        hasRegions(k) == layers[k].regions # <<>>
    IN  /\ dir \notin disk.malformed
        /\ \E k \in 1..3 :
             /\ first(k, hasPolicy)
             /\ \/ layers[k].policy = "all"
                \/ /\ layers[k].policy = "regions"
                   /\ \E m \in 1..3 :
                        /\ first(m, hasRegions)
                        /\ \E region \in Range(layers[m].regions) :
                              Beneath(Dir(dir \o region), dir \o path)

\* Every change of a tree is either committed, when the configuration asks for
\* it, or reported as left out, never both and never neither; and pulls pause
\* exactly when something tracked was left out.  Through layers, regions with
\* ".." in them, renames into and out of a region, and copies
\* (load.go:98-109, 142-188; agent.go:618-660; status.go:67-100).
SelectsAsAsked ==
    outcome = "running" =>
        \A i \in DOMAIN agents : \A changes \in Trees :
            LET asked(path) == Asks(agents[i].entry, path)
                touched == TouchedBy(changes)
                parted  == Parted(agents[i], changes)
            IN  /\ Committed(agents[i], changes) = {p \in touched : asked(p)}
                /\ parted.unselectedPaths = {p \in touched : ~asked(p)}
                /\ parted.hasTrackedUnselected <=>
                     \E j \in DOMAIN changes :
                        /\ changes[j].kind # "new"
                        /\ \E p \in Touched(changes[j]) : ~asked(p)

\* "explicit configured names and full paths are stable identifiers"
\* (controller.go:30-32): the path of a watched repository means that one, and
\* so does its explicit name, unless it is the path of another; two entries
\* that could be meant by one of them never start together (container.go:77-101).
IdentifiersHold ==
    outcome = "running" =>
        \A i \in DOMAIN agents :
            /\ Matches(agents[i].path) = {i}
            /\ agents[i].explicitName =>
                 \/ Matches(agents[i].name) = {i}
                 \/ \E j \in DOMAIN agents \ {i} : agents[j].path = agents[i].name
=============================================================================
