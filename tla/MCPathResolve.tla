---------------------------- MODULE MCPathResolve ----------------------------
(***************************************************************************)
(* A volume with a directory, a file in it, a socket in the root, and two  *)
(* links: l in the root and m in the directory.  Their targets are         *)
(* directories, files, each other, themselves and paths from the root.     *)
(***************************************************************************)
EXTENDS PathResolve, TLC

Relative(comps) == [abs |-> FALSE, comps |-> comps, slash |-> FALSE]
Absolute(comps) == [abs |-> TRUE, comps |-> comps, slash |-> FALSE]

Volume(l, m) ==
    [kind |-> [root |-> "dir", D |-> "dir", F |-> "file", S |-> "socket",
               L |-> "link", M |-> "link"],
     entry |-> <<"root", "d">> :> "D" @@ <<"root", "s">> :> "S" @@ <<"root", "l">> :> "L"
               @@ <<"D", "f">> :> "F" @@ <<"D", "m">> :> "M",
     parent |-> [root |-> NoInode, D |-> "root", S |-> "root", L |-> "root",
                 F |-> "D", M |-> "D"],
     target |-> "L" :> l @@ "M" :> m]

RootTargets == {Relative(<<"d">>), Relative(<<"d", "m">>), Relative(<<"l">>),
                Relative(<<"..", "d", "f">>), Absolute(<<"d">>)}
DirTargets == {Relative(<<"f">>), Relative(<<"..">>), Relative(<<"..", "l">>),
               Relative(<<".", "m">>), Relative(<<"l">>), Absolute(<<"d", "f">>)}

MCFileSystems == {Volume(l, m) : l \in RootTargets, m \in DirTargets}

MCNames == {"d", "f", "l", "m", "s", "..", "."}
Short == UNION {[1 .. n -> MCNames] : n \in 0 .. 2}
Long == [1 .. 3 -> MCNames]

Resolve(from, comps, abs, slash, follow_last) ==
    [call |-> "resolve", from |-> from, follow_last |-> follow_last,
     path |-> [abs |-> abs, comps |-> comps, slash |-> slash]]

\* Short paths from every kind of entry, long ones from a file and from the root.
MCRequests ==
    {Resolve(from, comps, abs, slash, fl) :
        from \in {"root", "D", "F"}, comps \in Short, abs \in BOOLEAN,
        slash \in BOOLEAN, fl \in BOOLEAN}
    \cup {Resolve(start[1], comps, start[2], slash, fl) :
            start \in {<<"F", FALSE>>, <<"root", TRUE>>}, comps \in Long,
            slash \in BOOLEAN, fl \in BOOLEAN}
    \cup {[call |-> "follow", from |-> link, level |-> level] : link \in {"L", "M"}, level \in {-1, 1}}
=============================================================================
