----------------------------- MODULE FuseMount -----------------------------
(***************************************************************************)
(* A mounted volume (mount/common.cpp, fuse.cpp, winfsp.cpp): processes    *)
(* open, read, list and close through one table of open files.  The file   *)
(* system runs with -s, so a handler is one step; what interleaves are the *)
(* calls of the processes.  The kernel hands out only handles it holds,    *)
(* sends a release some time after the process has closed, and reads a     *)
(* directory window by window, each from the offset where the last ended.  *)
(***************************************************************************)
EXTENDS Directory

CONSTANTS Processes,
          Volumes,     \* the volumes to mount; bytes: the file of an inode
          Paths,       \* the paths the processes use
          Platforms,   \* "linux" and "windows": do directories get handles?
          Window,      \* entries a reply to readdir, bytes a reply to read may hold
          MaxFd        \* bound: handles that are ever given out

ASSUME MountAssumption ==
    /\ Platforms \subseteq {"linux", "windows"}
    /\ Window \in Nat \ {0} /\ MaxFd \in Nat
    /\ Paths \subseteq Seq(Nat)
    /\ \A v \in Volumes : WellFormed(v)

VARIABLES vol, platform,
          up,          \* "no", "yes", "destroyed", or "aborted" by an uncaught exception
          fd,          \* ctx->fd
          open_files,  \* ctx->open_files: handle -> entry
          proc,        \* what each process is at
          closing      \* handles whose release the kernel has still to send

vars == <<vol, platform, up, fd, open_files, proc, closing>>

\* fh is 0 without a handle; got is what it was given, name by name or byte by
\* byte; stat is the inode that getattr answered last, 0 before that.
Idle == [job |-> "none", path |-> <<>>, fh |-> 0, got |-> <<>>, end |-> "open", stat |-> 0]

Init ==
    /\ vol \in Volumes /\ platform \in Platforms
    /\ up = "no" /\ fd = 0 /\ open_files = <<>>
    /\ proc = [p \in Processes |-> Idle]
    /\ closing = {}

\* apfs_fuse_init and apfs_winfsp_init
Mount ==
    /\ up = "no"
    /\ up' = "yes" /\ open_files' = <<>> /\ fd' = 1
    /\ UNCHANGED <<vol, platform, proc, closing>>

Serving(p, jobs) == up = "yes" /\ proc[p].job \in jobs
Abort == up' = "aborted" /\ UNCHANGED proc
Set(p, job) == proc' = [proc EXCEPT ![p] = job] /\ UNCHANGED up

\* (fi && fi->fh) ? open_files->at(fi->fh) : vol->navigate_to(path); at throws
\* std::out_of_range.
EntryOf(p) ==
    LET fh == proc[p].fh
    IN  IF fh = 0 THEN NavigateTo(vol, proc[p].path)
        ELSE IF fh \in DOMAIN open_files THEN open_files[fh] ELSE Failed("abort")

-----------------------------------------------------------------------------
(* The handlers *)

Job(entry) == IF entry.type = "dir" THEN "dir" ELSE "file"

\* open_files->emplace(fd, entry), which keeps an entry that is there.
Emplaced(entry) ==
    [h \in DOMAIN open_files \cup {fd} |->
        IF h \in DOMAIN open_files THEN open_files[h] ELSE entry]

\* Mutant: the handle is not counted on.
OpenEntry_SameFd(entry) == open_files' = Emplaced(entry) /\ UNCHANGED fd

OpenEntry(entry) == open_files' = Emplaced(entry) /\ fd' = fd + 1

\* apfs_fuse_open, and on Windows apfs_winfsp_opendir; Linux opens a directory
\* without asking.  An open that fails leaves everything as it is.
Open(p, path) ==
    /\ Serving(p, {"none"}) /\ fd <= MaxFd
    /\ LET entry == NavigateTo(vol, path)
           job == [Idle EXCEPT !.job = Job(entry), !.path = path]
       IN  IF entry = Failed("abort") THEN Abort /\ UNCHANGED <<fd, open_files>>
           ELSE /\ entry # Failed("error")
                /\ IF job.job = "dir" /\ platform = "linux"
                   THEN Set(p, job) /\ UNCHANGED <<fd, open_files>>
                   ELSE Set(p, [job EXCEPT !.fh = fd]) /\ OpenEntry(entry)
    /\ UNCHANGED <<vol, platform, closing>>

\* apfs_fuse_getattr on the handle or, without one, on the path.
Getattr(p) ==
    /\ Serving(p, {"file", "dir"})
    /\ LET entry == EntryOf(p)
           inode == IF entry \in Failures THEN entry ELSE LoadInode(vol, entry.id)
       IN  IF inode = Failed("abort") THEN Abort
           ELSE Set(p, [proc[p] EXCEPT !.stat = inode.id])
    /\ UNCHANGED <<vol, platform, fd, open_files, closing>>

\* apfs_fuse_read of the bytes behind those the process has: a reply without any is
\* the end of the file to it.
Read(p) ==
    /\ Serving(p, {"file"}) /\ proc[p].end = "open"
    /\ LET entry == EntryOf(p)
           bytes == vol.bytes[entry.id]
           off == Len(proc[p].got)
           upto == IF off + Window < Len(bytes) THEN off + Window ELSE Len(bytes)
           inode == IF entry \in Failures THEN entry ELSE LoadInode(vol, entry.id)
       IN  IF inode = Failed("abort") THEN Abort
           ELSE IF inode = Failed("error") \/ off > Len(bytes)
           THEN Set(p, [proc[p] EXCEPT !.end = "error"])
           ELSE \E reply \in ReadFile(vol, entry.id, off, upto) :
                    Set(p, IF reply.how = "error" THEN [proc[p] EXCEPT !.end = "error"]
                           ELSE [proc[p] EXCEPT !.got = @ \o reply.bytes,
                                                !.end = IF reply.bytes = <<>> THEN "eof" ELSE "open"])
    /\ UNCHANGED <<vol, platform, fd, open_files, closing>>

\* Mutant: the offset an entry is given with is its own.
ResumeAt_Entry(got) == IF got = <<>> THEN 0 ELSE Len(got) - 1

\* Where readdir resumes: the offset the last entry was given with, i + 1.
ResumeAt(got) == Len(got)

\* apfs_fuse_readdir: the children from the offset on; the inode of an entry is
\* loaded before the filler says that the entry does not fit.
Readdir(p) ==
    /\ Serving(p, {"dir"}) /\ proc[p].end = "open"
    /\ LET entry == EntryOf(p)
           list == ListChildren(vol, entry.id)
           chs == list.keys
           off == ResumeAt(proc[p].got)
           upto == IF off + Window < Len(chs) THEN off + Window ELSE Len(chs)
           tried == off + 1 .. IF upto < Len(chs) THEN upto + 1 ELSE upto
           How(i) == LoadInode(vol, vol.entry[chs[i]].id).type
           failing == {i \in tried : How(i) # "inode"}
           how == IF entry \in Failures THEN entry.type
                  ELSE IF list.how # "ok" THEN list.how
                  ELSE IF failing # {} THEN How(Min(failing)) ELSE "ok"
       IN  IF how = "abort" THEN Abort
           ELSE IF how = "error" THEN Set(p, [proc[p] EXCEPT !.end = "error"])
           ELSE Set(p, [proc[p] EXCEPT !.got = @ \o SubSeq(chs, off + 1, upto),
                                       !.end = IF off = upto THEN "eof" ELSE "open"])
    /\ UNCHANGED <<vol, platform, fd, open_files, closing>>

\* apfs_fuse_release and apfs_winfsp_releasedir
Release(h) ==
    /\ up = "yes" /\ h \in closing
    /\ open_files' = Restrict(open_files, DOMAIN open_files \ {h})
    /\ closing' = closing \ {h}
    /\ UNCHANGED <<vol, platform, up, fd, proc>>

\* apfs_fuse_destroy, when the mount ends with files open or without.
Destroy ==
    /\ up = "yes"
    /\ up' = "destroyed" /\ open_files' = <<>>
    /\ UNCHANGED <<vol, platform, fd, proc, closing>>

-----------------------------------------------------------------------------
(* The processes and the kernel *)

\* lseek, seekdir: the next read resumes behind the first n bytes or names.
Seek(p, n) ==
    /\ proc[p].job # "none" /\ n \in 0 .. Len(proc[p].got)
    /\ Set(p, [proc[p] EXCEPT !.got = SubSeq(@, 1, n), !.end = "open"])
    /\ UNCHANGED <<vol, platform, fd, open_files, closing>>

Close(p) ==
    /\ proc[p].job # "none"
    /\ Set(p, Idle)
    /\ closing' = closing \cup ({proc[p].fh} \ {0})
    /\ UNCHANGED <<vol, platform, fd, open_files>>

Next ==
    \/ Mount \/ Destroy
    \/ \E p \in Processes :
          \/ \E path \in Paths : Open(p, path)
          \/ Getattr(p) \/ Read(p) \/ Readdir(p) \/ Close(p)
          \/ \E n \in 0 .. Len(proc[p].got) : Seek(p, n)
    \/ \E h \in closing : Release(h)

Spec == Init /\ [][Next]_vars

-----------------------------------------------------------------------------
(* Properties *)

\* The names of a directory, said of the records alone.
Names(v, dir) == {k \in v.keys : k.oid = dir /\ k.type = DirRec}

\* The first names of a set, in the order of their keys and without a gap.
BeginsNames(got, names) ==
    /\ \A i \in DOMAIN got : got[i] \in names
    /\ \A i, j \in DOMAIN got : i < j => Less(got[i], got[j])
    /\ \A i \in DOMAIN got, k \in names : Less(k, got[i]) => k \in Range(got)

\* Whatever else is opened, closed and listed meanwhile and wherever the process
\* resumes, what it has got is the beginning of what its path means, each name or
\* byte once and in order, and all of it once it is told that this is the end; but
\* for a file with an index entry among its extents, and the end comes too early in
\* an extent that is the last record of the volume.
GotIsMeant ==
    \A p \in Processes : proc[p].job # "none" =>
        LET entry == NavigateTo(vol, proc[p].path)
            got == proc[p].got
            all == proc[p].end = "eof"
        IN  IF entry.type = "dir"
            THEN /\ BeginsNames(got, Names(vol, entry.id))
                 /\ all => Range(got) = Names(vol, entry.id)
            ELSE Torn(vol, entry.id, 0) = {} =>
                    /\ IsPrefix(got, vol.bytes[entry.id])
                    /\ all => got = vol.bytes[entry.id] \/ ExtentIsLast(vol, entry.id, Len(got))

\* A handle stands for the entry its process opened until the release that
\* follows its close; no handle is left in the table, and none is missing.
HandlesAreHeld ==
    up = "yes" =>
        /\ \A p \in Processes : proc[p].fh # 0 =>
              /\ proc[p].fh \in DOMAIN open_files \ closing
              /\ open_files[proc[p].fh] = NavigateTo(vol, proc[p].path)
        /\ \A p, q \in Processes : p # q /\ proc[p].fh # 0 => proc[p].fh # proc[q].fh
        /\ DOMAIN open_files = closing \cup ({proc[p].fh : p \in Processes} \ {0})

\* getattr answers with the inode of the entry, from its own record, by the handle
\* as by the path, or with an error.
StatIsOfPath ==
    \A p \in Processes : proc[p].stat \in {0, NavigateTo(vol, proc[p].path).id}

\* An index entry whose value is shorter than the record that is expected.
ShortEntry(v) == \E k \in v.starts : k.oid >= Root /\ k.type \in {Inode, DirRec}

\* A path has to pass a link that leads round in a cycle, or into a short entry.
LinkIn(v, at, name) ==
    LET key == Key(at.id, DirRec, name)
    IN  at.type = "dir" /\ key \in v.keys /\ v.entry[key].type = "link"
EndlessLink(v, at, name) ==
    /\ LinkIn(v, at, name)
    /\ v.target[v.entry[Key(at.id, DirRec, name)].id] = Failed("abort")
PassesEndlessLink(v, path) ==
    \E n \in DOMAIN path : EndlessLink(v, Walk(v, path)[n - 1], path[n])

\* No call of one process ends the mount of all, unless a range of index nodes
\* starts with an inode or a directory record, or one of the paths in use passes a link
\* whose target is never reached: listing such a link does no harm.
AbortHasCause ==
    up = "aborted" => ShortEntry(vol) \/ \E path \in Paths : PassesEndlessLink(vol, path)

=============================================================================
