------------------------------ MODULE PosixPath ------------------------------
(***************************************************************************)
(* What a path means, one component after the other: "." stays, ".." goes  *)
(* to the parent, a name is looked up, and the target of a link is walked  *)
(* in the place of its name, from the directory the link is in or, when it *)
(* starts with a slash, from the root.  It is the reference the code of    *)
(* PathResolve is compared with, and another algorithm: there is no stack  *)
(* and nothing is simplified before it is walked.                          *)
(***************************************************************************)
EXTENDS Integers, Sequences, SequencesExt

\* A walk: where it is, what is left of the path, whether it has failed and whether
\* it has left the entry it starts from.
WalkFrom(from, comps) == [at |-> from, rest |-> comps, ok |-> TRUE, begun |-> FALSE]

\* One component of the walk in file system fs.  The entry the walk starts from
\* may be of any kind: the paths of the repository's tests start from files.
WalkStep(fs, root, follow_last, w) ==
    LET name == Head(w.rest)
        rest == Tail(w.rest)
        here == <<w.at, name>>
        allowed == fs.kind[w.at] = "dir" \/ ~w.begun
    IN  IF ~w.ok \/ w.rest = <<>> THEN w
        ELSE IF name = "." THEN [w EXCEPT !.rest = rest, !.ok = allowed]
        ELSE IF name = ".."
        THEN [at |-> IF w.at = root THEN w.at ELSE fs.parent[w.at], rest |-> rest,
              ok |-> allowed, begun |-> TRUE]
        ELSE IF here \notin DOMAIN fs.entry THEN [w EXCEPT !.ok = FALSE]
        ELSE LET inode == fs.entry[here]
                 target == fs.target[inode]
             IN  IF fs.kind[inode] = "link" /\ (follow_last \/ rest # <<>>)
                 THEN [at |-> IF target.abs THEN root ELSE w.at,
                       rest |-> target.comps \o rest, ok |-> TRUE, begun |-> TRUE]
                 ELSE [at |-> inode, rest |-> rest, ok |-> TRUE, begun |-> TRUE]

\* The walk after each component, up to fuel.
WalkAfter(fs, root, from, comps, follow_last, fuel) ==
    LET after[n \in 0 .. fuel] ==
            IF n = 0 THEN WalkFrom(from, comps)
            ELSE WalkStep(fs, root, follow_last, after[n - 1])
    IN  after

\* The walk after at most fuel components.
Walk(fs, root, from, comps, follow_last, fuel) ==
    WalkAfter(fs, root, from, comps, follow_last, fuel)[fuel]

Arrives(w) == w.ok /\ w.rest = <<>>
Circles(w) == w.ok /\ w.rest # <<>>
=============================================================================
