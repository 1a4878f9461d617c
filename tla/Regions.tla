------------------------------- MODULE Regions -------------------------------
(***************************************************************************)
(* Paths, and what a commit policy does with the changes of a tree: how a  *)
(* region of the configuration is normalised (internal/config/load.go),    *)
(* how git's status is read (internal/git/status.go) and how its paths     *)
(* are parted into those to commit and those to report                     *)
(* (internal/agent/agent.go, partitionStatus).                             *)
(*                                                                         *)
(* A path is the sequence of its parts: "a/../b" is <<"a", "..", "b">>,    *)
(* "a/" is <<"a", "">>, and an absolute path begins with the part "/".  A  *)
(* name is a path of one part, as it is to a program that reads both from  *)
(* the same argument; <<>> is the empty string.                            *)
(***************************************************************************)
EXTENDS Naturals, SequencesExt

Root == "/"

IsAbs(path) == path # <<>> /\ Head(path) = Root

\* One part of filepath.Clean.
CleanPart(done, part) ==
    IF part \in {"", "."} THEN done
    ELSE IF part = ".." /\ done # <<>> /\ Last(done) # ".."
      THEN IF done = <<Root>> THEN done ELSE Front(done)
    ELSE Append(done, part)

Clean(path) == FoldLeft(CleanPart, <<>>, path)

\* filepath.Base: the last part that is not empty, "." where there is none.
Base(path) ==
    LET named == {i \in DOMAIN path : path[i] # ""}
    IN  <<IF named = {} THEN "." ELSE path[Max(named)]>>

\* strings.HasPrefix(path, region + "/"): the parts tell "a/" from "ab/".
Beneath(region, path) == IsStrictPrefix(region, path)

----------------------------------------------------------------------------
(* Regions of the configuration *)

\* The errors of normalizeCommitRegion: empty, absolute, the whole
\* repository, or outside it.
BadRegion(region) ==
    \/ region = <<>>
    \/ IsAbs(region)
    \/ Clean(region) = <<>>
    \/ Head(Clean(region)) = ".."

----------------------------------------------------------------------------
(* Reading git's status.  A field of "git status --porcelain -z" is        *)
(* <<X, Y, path>>, the bare <<path>> of a rename's or a copy's source,     *)
(* <<"##">> for the branch, or <<>> where the text ends.                   *)

IsTwoPathStatus(x, y) == {x, y} \intersect {"R", "C"} # {}

\* A field in the loop of parseStatus.  Where a source is expected whatever
\* comes is taken for it.
ReadField(s, field) ==
    IF s.expectOld
      THEN [entries |-> Append(Front(s.entries),
                               [Last(s.entries) EXCEPT !.OldPath = field[1]]),
            expectOld |-> FALSE]
    ELSE IF field \in {<<>>, <<"##">>} THEN s
    ELSE [entries |-> Append(s.entries, [X |-> field[1], Y |-> field[2],
                                         Path |-> field[3], OldPath |-> <<>>]),
          expectOld |-> IsTwoPathStatus(field[1], field[2])]

parseStatus(fields) ==
    FoldLeft(ReadField, [entries |-> <<>>, expectOld |-> FALSE], fields).entries

IsTracked(entry) == entry.X # "?" \/ entry.Y # "?"

----------------------------------------------------------------------------
(* Parting the changes *)

\* Mutant: a rename is judged by where the file is now.
EndpointsNow(entry) == {entry.Path}

\* Both ends of a rename are changes; a copy leaves its source alone.
Endpoints(entry) ==
    {entry.Path} \union
    {path \in {entry.OldPath} : "R" \in {entry.X, entry.Y} /\ path # <<>>}

Inside(path, policy, regions) ==
    \/ policy = "all"
    \/ policy = "regions" /\ \E i \in DOMAIN regions : Beneath(regions[i], path)

\* partitionStatus
Partition(entries, policy, regions) ==
    LET touched == UNION {Endpoints(entries[i]) : i \in DOMAIN entries}
        outside(i) == \E path \in Endpoints(entries[i]) :
                          ~Inside(path, policy, regions)
    IN  [hasSelectedChanges |-> \E path \in touched : Inside(path, policy, regions),
         regions |-> {region \in Range(regions) :
                         policy = "regions" /\ \E path \in touched : Beneath(region, path)},
         unselectedPaths |-> {path \in touched : ~Inside(path, policy, regions)},
         hasTrackedUnselected |-> \E i \in DOMAIN entries :
                                      IsTracked(entries[i]) /\ outside(i)]
=============================================================================
