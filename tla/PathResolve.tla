---------------------------- MODULE PathResolve ----------------------------
(***************************************************************************)
(* Path resolution (apfs.cpp): directory_entry::resolve walks the          *)
(* components of a path and calls follow_symlink for a link on its way,    *)
(* which calls resolve for the target of the link.  The state is the stack *)
(* of these activations.                                                   *)
(*                                                                         *)
(* A path is a record: does it start with a slash, its components, does it *)
(* end with a slash.  A search of the file system tree is one step here:   *)
(* it answers with the record of the key or fails, as BTree does on trees  *)
(* of at most two levels.                                                  *)
(***************************************************************************)
EXTENDS PosixPath

CONSTANTS Root,         \* ROOT_DIR_INO_NUM
          NoInode,      \* the parent of the root, no inode of the volume
          Names,        \* of files, "." and ".." among them
          FileSystems,  \* the file systems to resolve in
          Requests,     \* the calls to make
          StackBound,   \* bound: activations that fit on the stack
          Fuel,         \* bound: components of the longest walk that ends
          Pending, Error, Overflow   \* outcomes that are not inodes

Path == [abs : BOOLEAN, comps : Seq(Names), slash : BOOLEAN]

\* A tree of directories with the root on top; every entry is in one directory,
\* which is its parent; "." and ".." are not recorded; a link has a target.
WellFormed(fs) ==
    LET nodes == DOMAIN fs.kind
    IN  /\ Root \in nodes /\ fs.kind[Root] = "dir"
        /\ \A inode \in nodes \ {Root} :
              fs.parent[inode] \in nodes /\ fs.kind[fs.parent[inode]] = "dir"
        /\ DOMAIN fs.entry \subseteq nodes \X (Names \ {".", ".."})
        /\ \A here \in DOMAIN fs.entry :
              /\ fs.kind[here[1]] = "dir"
              /\ fs.entry[here] \in nodes \ {Root}
              /\ fs.parent[fs.entry[here]] = here[1]
        /\ \A inode \in nodes : fs.kind[inode] = "link" => fs.target[inode] \in Path
        /\ {Pending, Error, Overflow} \cap nodes = {}

\* A call of follow_symlink for a link or of resolve for any entry.
IsRequest(r, fs) ==
    /\ r.from \in DOMAIN fs.kind
    /\ \/ r.call = "follow" /\ fs.kind[r.from] = "link"
       \/ r.call = "resolve" /\ r.path \in Path /\ r.follow_last \in BOOLEAN

ASSUME PathAssumption ==
    /\ StackBound \in Nat \ {0} /\ Fuel \in Nat /\ {".", ".."} \subseteq Names
    /\ Pending # Error /\ Pending # Overflow /\ Error # Overflow
    /\ \A fs \in FileSystems : WellFormed(fs) /\ \A r \in Requests : IsRequest(r, fs)

VARIABLES fs,       \* kind and parent of each inode, entry of (directory, name), target of a link
          request,  \* the call that is made
          stack,    \* the activations of resolve and follow_symlink
          outcome   \* Pending, Error, Overflow or the inode found

vars == <<fs, request, stack, outcome>>

Inodes == DOMAIN fs.kind

\* "../" + path: a slash at the front of the target is swallowed by the first.
FromParent(path) == [path EXCEPT !.abs = FALSE, !.comps = <<"..">> \o @]

-----------------------------------------------------------------------------
(* The split of a path into components *)

\* Mutant: ".." pops a ".." before it.
Push_PopsDotDot(dirs, dir) ==
    IF dir = ".." /\ dirs # <<>> THEN Front(dirs)
    ELSE IF dir = "." THEN dirs ELSE Append(dirs, dir)

\* One component that is followed by a slash.
Push(dirs, dir) ==
    IF dir = ".." /\ dirs # <<>> /\ Last(dirs) # ".." THEN Front(dirs)
    ELSE IF dir = "." THEN dirs ELSE Append(dirs, dir)

\* dirs after each component.
Pushed(comps) ==
    LET pushed[k \in 0 .. Len(comps)] ==
            IF k = 0 THEN <<>> ELSE Push(pushed[k - 1], comps[k])
    IN  pushed

\* The component after the last slash is taken as it is.
Dirs(path) ==
    LET length == Len(path.comps)
    IN  IF path.slash \/ length = 0 THEN Pushed(path.comps)[length]
        ELSE Append(Pushed(path.comps)[length - 1], path.comps[length])

-----------------------------------------------------------------------------
(* Activations *)

\* resolve: at is drec_val, i the component in hand; checked says that the
\* component has been looked up and, if it was a link, followed.
ResolveFrame(from, path, follow_last) ==
    LET elsewhere == path.abs /\ from # Root   \* navigate_to(path)
    IN  [call |-> "resolve", at |-> IF elsewhere THEN Root ELSE from,
         dirs |-> Dirs(path), i |-> 1, found |-> FALSE,
         follow_last |-> elsewhere \/ follow_last]

FollowFrame(link, level) ==
    [call |-> "follow", at |-> link, seen |-> {}, level |-> level]

Top == Last(stack)
SetTop(frame) == stack' = Append(Front(stack), frame)

Finish(result) == stack' = <<>> /\ outcome' = result

\* A call: the stack may be exhausted.
Call(caller, callee) ==
    IF Len(stack) < StackBound
    THEN stack' = Append(Append(Front(stack), caller), callee) /\ UNCHANGED outcome
    ELSE Finish(Overflow)

\* A return: the entry found goes to the caller.
Return(inode) ==
    IF Len(stack) = 1 THEN Finish(inode)
    ELSE LET caller == stack[Len(stack) - 1]
         IN  /\ stack' = Append(Front(Front(stack)), [caller EXCEPT !.at = inode])
             /\ UNCHANGED outcome

\* flags & DT_LNK and flags & DT_DIR test single bits of an enumeration.
LinkBits(kind) == kind # "dir"
DirBits(kind) == kind \in {"dir", "socket"}

-----------------------------------------------------------------------------
(* Steps of resolve *)

Init ==
    /\ fs \in FileSystems
    /\ request \in Requests
    /\ stack = << IF request.call = "follow"
                  THEN FollowFrame(request.from, request.level)
                  ELSE ResolveFrame(request.from, request.path, request.follow_last) >>
    /\ outcome = Pending

InResolve == stack # <<>> /\ Top.call = "resolve"
Searching == InResolve /\ ~Top.found /\ Top.i <= Len(Top.dirs)

\* Mutant: the loop does not advance when it skips ".." at the root.
ToParent_Stays ==
    /\ Searching /\ Top.dirs[Top.i] = ".."
    /\ SetTop(IF Top.at = Root THEN Top
              ELSE [Top EXCEPT !.at = fs.parent[Top.at], !.i = @ + 1])
    /\ UNCHANGED <<fs, request, outcome>>

\* "..": the parent of the inode in hand, of any kind; the root is its own.
ToParent ==
    /\ Searching /\ Top.dirs[Top.i] = ".."
    /\ SetTop([Top EXCEPT !.at = IF Top.at = Root THEN Root ELSE fs.parent[Top.at],
                          !.i = @ + 1])
    /\ UNCHANGED <<fs, request, outcome>>

\* Does resolve call follow_symlink for the entry it has looked up?
Follows(frame, inode) ==
    (frame.follow_last \/ frame.i # Len(frame.dirs)) /\ LinkBits(fs.kind[inode])

\* A name: its directory record is looked up and a link is followed.
ToEntry ==
    /\ Searching /\ Top.dirs[Top.i] # ".."
    /\ <<Top.at, Top.dirs[Top.i]>> \in DOMAIN fs.entry
    /\ LET inode == fs.entry[<<Top.at, Top.dirs[Top.i]>>]
           frame == [Top EXCEPT !.at = inode, !.found = TRUE]
       IN  IF Follows(Top, inode) THEN Call(frame, FollowFrame(inode, -1))
           ELSE SetTop(frame) /\ UNCHANGED outcome
    /\ UNCHANGED <<fs, request>>

\* "file/directory does not exist"
NoEntry ==
    /\ Searching /\ Top.dirs[Top.i] # ".."
    /\ <<Top.at, Top.dirs[Top.i]>> \notin DOMAIN fs.entry
    /\ Finish(Error)
    /\ UNCHANGED <<fs, request>>

\* Every component but the last has to be a directory.
Passes(frame) == frame.i = Len(frame.dirs) \/ DirBits(fs.kind[frame.at])

NextComponent ==
    /\ InResolve /\ Top.found
    /\ IF Passes(Top) THEN SetTop([Top EXCEPT !.i = @ + 1, !.found = FALSE]) /\ UNCHANGED outcome
       ELSE Finish(Error)
    /\ UNCHANGED <<fs, request>>

ResolveReturns ==
    /\ InResolve /\ ~Top.found /\ Top.i > Len(Top.dirs)
    /\ Return(Top.at)
    /\ UNCHANGED <<fs, request>>

-----------------------------------------------------------------------------
(* Steps of follow_symlink *)

InFollow == stack # <<>> /\ Top.call = "follow"

\* while (type is link && (level == -1 || --level >= 0))
GoesOn(frame) == fs.kind[frame.at] = "link" /\ frame.level # 0

\* Mutant: the target is resolved from the link itself.
FollowTarget_FromLink(link) == [fs.target[link] EXCEPT !.abs = FALSE]

\* Mutant: the target is resolved from the parent of the link's directory.
FollowTarget_TwoUp(link) == FromParent(FromParent(fs.target[link]))

\* "../" + read_symlink()
FollowTarget(link) == FromParent(fs.target[link])

FollowOnce ==
    /\ InFollow /\ GoesOn(Top)
    /\ IF Top.at \in Top.seen /\ Top.level = -1
       THEN Finish(Error)   \* "symbolic links create a cycle"
       ELSE Call([Top EXCEPT !.seen = @ \cup {Top.at},
                             !.level = IF @ = -1 THEN -1 ELSE @ - 1],
                 ResolveFrame(Top.at, FollowTarget(Top.at), TRUE))
    /\ UNCHANGED <<fs, request>>

FollowReturns ==
    /\ InFollow /\ ~GoesOn(Top)
    /\ Return(Top.at)
    /\ UNCHANGED <<fs, request>>

Next ==
    \/ ToParent \/ ToEntry \/ NoEntry \/ NextComponent \/ ResolveReturns
    \/ FollowOnce \/ FollowReturns

Spec == Init /\ [][Next]_vars /\ WF_vars(Next)

-----------------------------------------------------------------------------
(* Properties *)

\* The walk the request means: follow_symlink starts where the link is.
MeantAfter(fuel) ==
    IF request.call = "follow"
    THEN Walk(fs, Root, fs.parent[request.from], fs.target[request.from].comps, TRUE, fuel)
    ELSE Walk(fs, Root, IF request.path.abs THEN Root ELSE request.from,
              request.path.comps, request.follow_last, fuel)

Meant == MeantAfter(Fuel)

Links == {inode \in Inodes : fs.kind[inode] = "link"}
LinkNames == {dn[2] : dn \in {e \in DOMAIN fs.entry : fs.entry[e] \in Links}}
Paths == {fs.target[link] : link \in Links}
            \cup (IF request.call = "follow" THEN {} ELSE {request.path})

\* A "." at the end is looked up as a name, and not found.
NoLastDot(path) == ~path.slash /\ path.comps # <<>> => Last(path.comps) # "."

\* No link before a ".." or ".", which are removed before the walk, a ".." with the
\* name before it.
Plain(path) ==
    /\ \A m, n \in DOMAIN path.comps :
          m < n /\ path.comps[n] \in {".", ".."} => path.comps[m] \notin LinkNames
    /\ NoLastDot(path)

\* Every "." and ".." is in front.
DotsFirst(path) ==
    /\ \A m, n \in DOMAIN path.comps :
          m < n /\ path.comps[n] \in {".", ".."} => path.comps[m] \in {".", ".."}
    /\ NoLastDot(path)

RelativeTargets == \A link \in Links : ~fs.target[link].abs
Unlimited == request.call = "follow" => request.level = -1
LinkKept == request.call = "follow" \/ request.follow_last
            \/ ~request.path.abs \/ request.from = Root

\* Whatever a path means, resolve finds: names, "." and "..", links in the middle
\* and at the end, links to links, paths from files.  Only the shapes on which
\* the code differs are left out, each by the name of the condition.
FindsWhatIsMeant ==
    outcome # Pending /\ Arrives(Meant) /\ RelativeTargets /\ Unlimited /\ LinkKept
        /\ (\A path \in Paths : Plain(path)) =>
            outcome = Meant.at

\* And what resolve finds is what the path means: nothing is found through an
\* entry that is not a directory or a name that does not exist.
FindsOnlyWhatIsMeant ==
    outcome \in Inodes /\ RelativeTargets /\ Unlimited /\ LinkKept
        /\ (\A path \in Paths : DotsFirst(path)) =>
            Arrives(Meant) /\ outcome = Meant.at

\* The recursion is bounded by the links when they do not form a cycle: then the
\* walk ends, and so does resolve, within two activations for each link, one for
\* the call and one more, because a regular file passes the test for a link too.
StackIsEnough ==
    outcome = Overflow /\ RelativeTargets /\ LinkKept
        /\ (\A path \in Paths : DotsFirst(path)) =>
            Circles(Meant)

\* Every call comes to an end.
ResolutionEnds == stack # <<>> ~> stack = <<>>

\* apfs.hpp:106 says that follow_symlink throws if the links form a cycle.
CycleThrows == outcome # Overflow
=============================================================================
