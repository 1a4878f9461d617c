---------------------------- MODULE MCRepoConfig ----------------------------
(***************************************************************************)
(* Two families of disks.  One repository under every combination of       *)
(* policies, regions and mistakes over the three layers; and one to three  *)
(* entries whose paths and names collide in every way: two directories     *)
(* with the same basename, spelled absolutely, with "~", with a trailing   *)
(* slash and relatively, so that a path can look like a name.              *)
(***************************************************************************)
EXTENDS RepoConfig

AtHome == <<"/", "home", "notes">>
AtSrv == <<"/", "srv", "notes">>

SmallDirs == {AtHome, AtSrv}

HomeDir == <<"/", "home">>
WorkingDir == <<"/", "srv">>

Says(name, policy, regions) ==
    [Blank EXCEPT !.name = name, !.policy = policy, !.regions = regions]

Mistakes ==
    {[Blank EXCEPT !.poll = "bad"], [Blank EXCEPT !.lists = [l \in Lists |-> <<"bad">>]],
     Says(<<>>, "bad", <<>>), Says(<<>>, Unset, <<<<"a", "..">>>>),
     Says(<<>>, Unset, <<<<"..", "notes", "a">>>>)}

Intents ==
    {Blank, Says(<<>>, "all", <<>>), Says(<<>>, "none", <<>>),
     Says(<<>>, "regions", <<<<"a">>>>),
     Says(<<>>, Unset, <<<<"b", "..", "a", ".", "b", "">>, <<"c">>>>)}

Start(repos, local, defaults, malformed, git) ==
    [global |-> "good", modelWithoutEndpoint |-> FALSE, defaults |-> defaults,
     repos |-> repos, malformed |-> malformed, git |-> git,
     local |-> [d \in SmallDirs |-> IF d = AtHome THEN local ELSE Blank]]

Policied ==
    {Start(<<[path |-> path, layer |-> entry]>>, local, defaults, malformed, {AtHome}) :
        path \in {AtHome, <<"~", ".", "notes">>}, entry \in Intents \union Mistakes,
        local \in Intents \union Mistakes, defaults \in Intents,
        malformed \in {{}, {AtHome}}}

Entries ==
    {[path |-> path, layer |-> Says(name, Unset, <<>>)] :
        path \in {AtHome, Append(AtHome, ""), <<"~", "notes">>, AtSrv, <<"notes">>},
        name \in {<<>>, <<"notes">>, <<"work">>}}

Named ==
    {Start(repos, local, Blank, {}, git) :
        repos \in BoundedSeq(Entries, 3), local \in {Blank, Says(<<"work">>, Unset, <<>>)},
        git \in {SmallDirs, {AtSrv}}}

Unloadable ==
    {[Start(<<>>, Blank, Blank, {}, {}) EXCEPT !.global = "absent"],
     [Start(<<>>, Blank, Blank, {}, {}) EXCEPT !.global = "malformed"],
     [Start(<<[path |-> AtHome, layer |-> Blank]>>, Blank, Blank, {}, SmallDirs)
        EXCEPT !.modelWithoutEndpoint = TRUE]}

SmallDisks == Policied \union Named \union Unloadable

Files == {<<"a">>, <<"a", "f">>, <<"a", "b", "f">>, <<"c", "f">>}

SmallChanges ==
    {[kind |-> kind, path |-> path, from |-> <<>>] :
        kind \in {"edit", "new"}, path \in Files}
    \union
    {change \in [kind : {"rename", "copy"}, path : Files, from : Files] :
        change.path # change.from}

SmallTrees ==
    {<<change>> : change \in SmallChanges}
    \union {<<change, [kind |-> "edit", path |-> <<"c", "f">>, from |-> <<>>]>> :
               change \in {c \in SmallChanges : c.from # <<>> /\ c.path # <<"c", "f">>}}
=============================================================================
