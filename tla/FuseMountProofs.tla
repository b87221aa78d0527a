-------------------------- MODULE FuseMountProofs --------------------------
(***************************************************************************)
(* The table of open files and the answers of getattr, for every number of *)
(* processes, every volume and every set of paths.                         *)
(***************************************************************************)
EXTENDS FuseMount, NaturalsInduction, FiniteSetTheorems, SequenceTheorems, TLAPS

-----------------------------------------------------------------------------
(* The table of open files *)

Fields == {"job", "path", "fh", "got", "end", "stat"}

\* What a process is at, whatever it has been given so far.
IsJob(r) == r = [f \in Fields |-> r[f]] /\ r.fh \in Nat

FuseTypeInv ==
    /\ up \in {"no", "yes", "destroyed", "aborted"}
    /\ fd \in Nat
    /\ proc = [p \in Processes |-> proc[p]]
    /\ \A p \in Processes : IsJob(proc[p])

\* Before the mount there is nothing, and after it every handle is below fd.
HandleInv ==
    /\ up = "no" => closing = {} /\ \A p \in Processes : proc[p].job = "none"
    /\ up = "yes" => fd # 0 /\ \A h \in DOMAIN open_files : h \in 1 .. fd - 1
    /\ \A p \in Processes : proc[p].job = "none" => proc[p].fh = 0

FuseIInv == FuseTypeInv /\ HandleInv /\ HandlesAreHeld

\* A step that leaves the table and the processes' handles and paths alone.
KeepsHandles ==
    /\ UNCHANGED <<vol, fd, open_files, closing>>
    /\ up' = up \/ up' = "aborted"
    /\ proc' = [p \in Processes |-> proc'[p]]
    /\ \A p \in Processes :
          /\ IsJob(proc'[p])
          /\ proc'[p].fh = proc[p].fh /\ proc'[p].path = proc[p].path
          /\ proc'[p].job = proc[p].job

Held == {proc[p].fh : p \in Processes} \ {0}

LEMMA HandlesKept == FuseIInv /\ KeepsHandles => FuseIInv'
  <1> SUFFICES ASSUME FuseIInv, KeepsHandles PROVE FuseIInv' OBVIOUS
  <1>1. FuseTypeInv' BY DEF FuseIInv, FuseTypeInv, KeepsHandles
  <1>2. HandleInv' BY DEF FuseIInv, HandleInv, KeepsHandles
  <1>3. Held' = Held BY DEF KeepsHandles, Held
  <1>4. HandlesAreHeld'
    <2> SUFFICES ASSUME up' = "yes" PROVE HandlesAreHeld' BY DEF HandlesAreHeld
    <2>1. up = "yes" BY DEF KeepsHandles
    <2>2. DOMAIN open_files' = closing' \cup Held'
      BY <1>3, <2>1 DEF FuseIInv, HandlesAreHeld, KeepsHandles, Held
    <2>3. ASSUME NEW p \in Processes, proc'[p].fh # 0
          PROVE  /\ proc'[p].fh \in DOMAIN open_files' \ closing'
                 /\ open_files'[proc'[p].fh] = NavigateTo(vol', proc'[p].path)
      BY <2>1, <2>3 DEF FuseIInv, HandlesAreHeld, KeepsHandles
    <2>4. ASSUME NEW p \in Processes, NEW q \in Processes, p # q, proc'[p].fh # 0
          PROVE  proc'[p].fh # proc'[q].fh
      BY <2>1, <2>4 DEF FuseIInv, HandlesAreHeld, KeepsHandles
    <2> QED BY <2>2, <2>3, <2>4 DEF HandlesAreHeld, Held
  <1> QED BY <1>1, <1>2, <1>4 DEF FuseIInv

LEMMA IdleIsJob == IsJob(Idle) /\ Idle.fh = 0 /\ Idle.job = "none" /\ Idle.stat = 0
  BY DEF IsJob, Idle, Fields

\* An answer changes what a process has got, the end or the inode it was told.
LEMMA AnswerKeepsHandles ==
    ASSUME FuseIInv, NEW p \in Processes, NEW r,
           r = [f \in Fields |-> r[f]],
           r.fh = proc[p].fh, r.path = proc[p].path, r.job = proc[p].job,
           Set(p, r), UNCHANGED <<vol, fd, open_files, closing>>
    PROVE  KeepsHandles
  BY DEF KeepsHandles, Set, FuseIInv, FuseTypeInv, IsJob

LEMMA EntryStays ==
    ASSUME FuseIInv, up = "yes", NEW p \in Processes
    PROVE  EntryOf(p) = NavigateTo(vol, proc[p].path)
  BY DEF FuseIInv, HandlesAreHeld, EntryOf

LEMMA FuseInit == Init => FuseIInv
  BY IdleIsJob DEF Init, FuseIInv, FuseTypeInv, HandleInv, HandlesAreHeld

LEMMA MountStep == FuseIInv /\ Mount => FuseIInv'
  <1> SUFFICES ASSUME FuseIInv, Mount PROVE FuseIInv' OBVIOUS
  <1>1. closing = {} /\ \A p \in Processes : proc[p].fh = 0
    BY DEF FuseIInv, HandleInv, Mount
  <1>2. UNCHANGED <<closing, proc>> /\ open_files' = <<>> /\ fd' = 1 /\ up' = "yes"
    BY DEF Mount
  <1>3. DOMAIN open_files' = {} BY <1>2
  <1>4. FuseTypeInv' BY <1>2 DEF FuseIInv, FuseTypeInv
  <1>5. HandleInv' BY <1>2, <1>3 DEF FuseIInv, HandleInv
  <1>6. HandlesAreHeld' BY <1>1, <1>2, <1>3 DEF HandlesAreHeld
  <1> QED BY <1>4, <1>5, <1>6 DEF FuseIInv

LEMMA DestroyStep == FuseIInv /\ Destroy => FuseIInv'
  BY DEF FuseIInv, FuseTypeInv, HandleInv, HandlesAreHeld, Destroy

LEMMA ReleaseStep ==
    ASSUME FuseIInv, NEW h \in closing, Release(h)
    PROVE  FuseIInv'
  <1>1. UNCHANGED <<vol, up, fd, proc>> /\ up = "yes" /\ closing' = closing \ {h}
    BY DEF Release
  <1>2. /\ DOMAIN open_files' = DOMAIN open_files \ {h}
        /\ \A g \in DOMAIN open_files' : open_files'[g] = open_files[g]
    BY DEF Release, Restrict
  <1>3. FuseTypeInv' /\ HandleInv' BY <1>1, <1>2 DEF FuseIInv, FuseTypeInv, HandleInv
  <1>4. ASSUME NEW p \in Processes, proc[p].fh # 0
        PROVE  /\ proc[p].fh \in DOMAIN open_files' \ closing'
               /\ open_files'[proc[p].fh] = NavigateTo(vol, proc[p].path)
    BY <1>1, <1>2, <1>4 DEF FuseIInv, HandlesAreHeld
  <1>5. h \notin Held
    BY <1>1 DEF FuseIInv, HandlesAreHeld, Held
  <1>6. DOMAIN open_files' = closing' \cup Held
    BY <1>1, <1>2, <1>5 DEF FuseIInv, HandlesAreHeld, Held
  <1>7. HandlesAreHeld' BY <1>1, <1>4, <1>6 DEF FuseIInv, HandlesAreHeld, Held
  <1> QED BY <1>3, <1>7 DEF FuseIInv

LEMMA CloseStep ==
    ASSUME FuseIInv, NEW p \in Processes, Close(p)
    PROVE  FuseIInv'
  <1>1. /\ UNCHANGED <<vol, up, fd, open_files>>
        /\ closing' = closing \cup ({proc[p].fh} \ {0})
        /\ proc' = [proc EXCEPT ![p] = Idle]
    BY DEF Close, Set
  <1>2. /\ proc' = [q \in Processes |-> proc'[q]] /\ proc'[p] = Idle
        /\ \A q \in Processes \ {p} : proc'[q] = proc[q]
    BY <1>1 DEF FuseIInv, FuseTypeInv
  <1>3. FuseTypeInv' BY <1>1, <1>2, IdleIsJob DEF FuseIInv, FuseTypeInv
  <1>4. up # "no"
    BY IdleIsJob DEF FuseIInv, HandleInv, Close
  <1>5. HandleInv'
    BY <1>1, <1>2, <1>4, IdleIsJob DEF FuseIInv, HandleInv
  <1>6. ASSUME up' = "yes" PROVE HandlesAreHeld'
    <2>1. up = "yes" BY <1>1, <1>6
    <2>2. ASSUME NEW q \in Processes, proc'[q].fh # 0
          PROVE  /\ q # p /\ proc[q].fh # 0 /\ proc'[q] = proc[q]
      BY <1>2, <2>2, IdleIsJob
    <2>3. ASSUME NEW q \in Processes, proc'[q].fh # 0
          PROVE  /\ proc'[q].fh \in DOMAIN open_files' \ closing'
                 /\ open_files'[proc'[q].fh] = NavigateTo(vol', proc'[q].path)
      BY <1>1, <2>1, <2>2, <2>3 DEF FuseIInv, HandlesAreHeld
    <2>4. ASSUME NEW q \in Processes, NEW r \in Processes, q # r, proc'[q].fh # 0
          PROVE  proc'[q].fh # proc'[r].fh
      BY <1>2, <2>1, <2>2, <2>4, IdleIsJob DEF FuseIInv, HandlesAreHeld
    <2>5. Held \ {proc[p].fh} \subseteq Held' /\ Held' \subseteq Held
      BY <1>2, IdleIsJob DEF Held
    <2>6. DOMAIN open_files = closing \cup Held
      BY <2>1 DEF FuseIInv, HandlesAreHeld, Held
    <2>7. DOMAIN open_files' = closing' \cup Held'
      BY <1>1, <2>5, <2>6 DEF Held
    <2> QED BY <2>3, <2>4, <2>7 DEF HandlesAreHeld, Held
  <1> QED BY <1>3, <1>5, <1>6 DEF FuseIInv, HandlesAreHeld

\* A new handle is no other's.
LEMMA NewHandle ==
    ASSUME FuseIInv, up = "yes", NEW p \in Processes, proc[p].job = "none", NEW path,
           NEW r, r = [f \in Fields |-> r[f]], r.fh = fd, r.path = path, r.job # "none",
           Set(p, r), OpenEntry(NavigateTo(vol, path)), UNCHANGED <<vol, platform, closing>>
    PROVE  FuseIInv'
  <1> DEFINE entry == NavigateTo(vol, path)
  <1>1. /\ fd \in Nat /\ fd # 0 /\ fd' = fd + 1 /\ up' = "yes"
        /\ proc' = [proc EXCEPT ![p] = r]
    BY DEF FuseIInv, FuseTypeInv, HandleInv, OpenEntry, Set
  <1>2. /\ proc' = [q \in Processes |-> proc'[q]] /\ proc'[p] = r
        /\ \A q \in Processes \ {p} : proc'[q] = proc[q]
    BY <1>1 DEF FuseIInv, FuseTypeInv
  <1>3. /\ DOMAIN open_files' = DOMAIN open_files \cup {fd}
        /\ open_files'[fd] = IF fd \in DOMAIN open_files THEN open_files[fd] ELSE entry
        /\ \A h \in DOMAIN open_files : open_files'[h] = open_files[h]
    BY DEF OpenEntry, Emplaced
  <1> HIDE DEF entry
  <1>4. \A h \in DOMAIN open_files : h \in 1 .. fd - 1 BY DEF FuseIInv, HandleInv
  <1>5. fd \notin DOMAIN open_files /\ open_files'[fd] = entry BY <1>1, <1>3, <1>4
  <1>6. FuseTypeInv' BY <1>1, <1>2 DEF FuseIInv, FuseTypeInv, IsJob
  <1>7. HandleInv'
    <2>1. \A h \in DOMAIN open_files' : h \in 1 .. fd' - 1 BY <1>1, <1>3, <1>4
    <2>2. fd' # 0 BY <1>1
    <2>3. \A q \in Processes : proc'[q].job = "none" => proc'[q].fh = 0
      BY <1>2 DEF FuseIInv, HandleInv
    <2> QED BY <1>1, <2>1, <2>2, <2>3 DEF HandleInv
  <1>8. DOMAIN open_files = closing \cup Held
    BY DEF FuseIInv, HandlesAreHeld, Held
  <1>9. proc[p].fh = 0 BY DEF FuseIInv, HandleInv
  <1>10. Held' = Held \cup {fd}
    <2>1. ASSUME NEW h \in Held PROVE h \in Held'
      <3>1. PICK q \in Processes : h = proc[q].fh /\ h # 0 BY DEF Held
      <3>2. proc'[q] = proc[q] BY <1>2, <1>9, <3>1
      <3> QED BY <3>1, <3>2 DEF Held
    <2>2. fd \in Held' BY <1>1, <1>2 DEF Held
    <2>3. ASSUME NEW h \in Held' PROVE h \in Held \cup {fd}
      <3>1. PICK q \in Processes : h = proc'[q].fh /\ h # 0 BY DEF Held
      <3> QED BY <1>2, <3>1 DEF Held
    <2> QED BY <2>1, <2>2, <2>3
  <1>11. DOMAIN open_files' = closing' \cup Held' BY <1>3, <1>8, <1>10
  <1>12. ASSUME NEW q \in Processes, proc'[q].fh # 0
         PROVE  /\ proc'[q].fh \in DOMAIN open_files' \ closing'
                /\ open_files'[proc'[q].fh] = NavigateTo(vol', proc'[q].path)
    <2>1. CASE q = p BY <1>2, <1>3, <1>5, <1>8, <2>1 DEF entry
    <2>2. CASE q # p
      BY <1>2, <1>3, <1>12, <2>2 DEF FuseIInv, HandlesAreHeld
    <2> QED BY <2>1, <2>2
  <1>13. ASSUME NEW q \in Processes, NEW o \in Processes, q # o, proc'[q].fh # 0
         PROVE  proc'[q].fh # proc'[o].fh
    <2>1. \A x \in Processes : x # p => proc'[x].fh # fd
      BY <1>1, <1>2, <1>5, <1>8 DEF Held
    <2>2. CASE q # p /\ o # p
      BY <1>2, <1>13, <2>2 DEF FuseIInv, HandlesAreHeld
    <2> QED BY <1>2, <1>13, <2>1, <2>2
  <1>14. HandlesAreHeld' BY <1>11, <1>12, <1>13 DEF HandlesAreHeld, Held
  <1> QED BY <1>6, <1>7, <1>14 DEF FuseIInv

LEMMA OpenStep ==
    ASSUME FuseIInv, NEW p \in Processes, NEW path, Open(p, path)
    PROVE  FuseIInv'
  <1> DEFINE entry == NavigateTo(vol, path)
             job == [Idle EXCEPT !.job = Job(entry), !.path = path]
  <1>1. /\ up = "yes" /\ proc[p].job = "none" /\ UNCHANGED <<vol, platform, closing>>
        /\ \/ Abort /\ UNCHANGED <<fd, open_files>>
           \/ Set(p, job) /\ UNCHANGED <<fd, open_files>>
           \/ Set(p, [job EXCEPT !.fh = fd]) /\ OpenEntry(entry)
    BY DEF Open, Serving
  <1>2. proc[p].fh = 0 /\ fd \in Nat
    BY <1>1 DEF FuseIInv, FuseTypeInv, HandleInv
  <1>3. CASE Abort /\ UNCHANGED <<fd, open_files>>
    BY <1>1, <1>3, HandlesKept DEF Abort, KeepsHandles, FuseIInv, FuseTypeInv
  <1>4. CASE Set(p, job) /\ UNCHANGED <<fd, open_files>>
    <2>1. job = [f \in Fields |-> job[f]] /\ job.fh = 0 /\ job.job # "none"
      BY DEF Idle, Fields, Job
    <2> HIDE DEF job
    <2>2. /\ proc' = [q \in Processes |-> proc'[q]] /\ proc'[p] = job
          /\ \A q \in Processes \ {p} : proc'[q] = proc[q]
          /\ UNCHANGED up
      BY <1>4 DEF Set, FuseIInv, FuseTypeInv
    <2>3. FuseTypeInv' BY <1>4, <2>1, <2>2 DEF FuseIInv, FuseTypeInv, IsJob
    <2>4. HandleInv' BY <1>1, <1>4, <2>1, <2>2 DEF FuseIInv, HandleInv
    <2>5. \A q \in Processes : proc'[q].fh = proc[q].fh
      BY <1>2, <2>1, <2>2
    <2>6. HandlesAreHeld'
      <3>1. \A q \in Processes : proc'[q].fh # 0 => proc'[q].path = proc[q].path
        BY <2>1, <2>2
      <3>2. Held' = Held BY <2>5 DEF Held
      <3>3. DOMAIN open_files' = closing' \cup Held'
        BY <1>1, <1>4, <3>2 DEF FuseIInv, HandlesAreHeld, Held
      <3>4. ASSUME NEW q \in Processes, proc'[q].fh # 0
            PROVE  /\ proc'[q].fh \in DOMAIN open_files' \ closing'
                   /\ open_files'[proc'[q].fh] = NavigateTo(vol', proc'[q].path)
        BY <1>1, <1>4, <2>5, <3>1, <3>4 DEF FuseIInv, HandlesAreHeld
      <3>5. ASSUME NEW q \in Processes, NEW o \in Processes, q # o, proc'[q].fh # 0
            PROVE  proc'[q].fh # proc'[o].fh
        BY <1>1, <2>5, <3>5 DEF FuseIInv, HandlesAreHeld
      <3> QED BY <3>3, <3>4, <3>5 DEF HandlesAreHeld, Held
    <2> QED BY <2>3, <2>4, <2>6 DEF FuseIInv
  <1>5. CASE Set(p, [job EXCEPT !.fh = fd]) /\ OpenEntry(entry)
    <2> DEFINE r == [job EXCEPT !.fh = fd]
    <2>1. r = [f \in Fields |-> r[f]] /\ r.fh = fd /\ r.path = path /\ r.job # "none"
      BY <1>2 DEF Idle, Fields, Job
    <2>2. Set(p, r) BY <1>5
    <2> HIDE DEF r, job
    <2> QED BY <1>1, <1>5, <2>1, <2>2, NewHandle
  <1> QED BY <1>1, <1>3, <1>4, <1>5

\* The calls that only answer.
LEMMA AnswersKeep ==
    ASSUME FuseIInv, NEW p \in Processes,
           Getattr(p) \/ Read(p) \/ Readdir(p) \/ \E n \in 0 .. Len(proc[p].got) : Seek(p, n)
    PROVE  KeepsHandles
  <1>1. proc[p] = [f \in Fields |-> proc[p][f]] /\ UNCHANGED <<vol, fd, open_files, closing>>
    BY DEF FuseIInv, FuseTypeInv, IsJob, Getattr, Read, Readdir, Seek
  <1>2. \/ Abort
        \/ \E v : Set(p, [proc[p] EXCEPT !.stat = v])
        \/ \E e : Set(p, [proc[p] EXCEPT !.end = e])
        \/ \E g, e : Set(p, [proc[p] EXCEPT !.got = g, !.end = e])
    <2>1. CASE Getattr(p) BY <2>1 DEF Getattr
    <2>2. CASE Read(p)
      <3>1. \/ Abort
            \/ Set(p, [proc[p] EXCEPT !.end = "error"])
            \/ \E reply : Set(p, IF reply.how = "error" THEN [proc[p] EXCEPT !.end = "error"]
                                 ELSE [proc[p] EXCEPT !.got = @ \o reply.bytes,
                                        !.end = IF reply.bytes = <<>> THEN "eof" ELSE "open"])
        BY <2>2 DEF Read
      <3> QED BY <3>1
    <2>3. CASE Readdir(p) BY <2>3 DEF Readdir
    <2>4. CASE \E n \in 0 .. Len(proc[p].got) : Seek(p, n) BY <2>4 DEF Seek
    <2> QED BY <2>1, <2>2, <2>3, <2>4
  <1>3. CASE Abort
    BY <1>1, <1>3 DEF Abort, KeepsHandles, FuseIInv, FuseTypeInv
  <1>4. ASSUME NEW v, Set(p, [proc[p] EXCEPT !.stat = v]) PROVE KeepsHandles
    BY <1>1, <1>4, AnswerKeepsHandles DEF Fields
  <1>5. ASSUME NEW e, Set(p, [proc[p] EXCEPT !.end = e]) PROVE KeepsHandles
    BY <1>1, <1>5, AnswerKeepsHandles DEF Fields
  <1>6. ASSUME NEW g, NEW e, Set(p, [proc[p] EXCEPT !.got = g, !.end = e])
        PROVE  KeepsHandles
    BY <1>1, <1>6, AnswerKeepsHandles DEF Fields
  <1> QED BY <1>2, <1>3, <1>4, <1>5, <1>6

LEMMA FuseStep == FuseIInv /\ [Next]_vars => FuseIInv'
  <1> SUFFICES ASSUME FuseIInv, [Next]_vars PROVE FuseIInv' OBVIOUS
  <1>1. CASE UNCHANGED vars
    BY <1>1, HandlesKept DEF vars, KeepsHandles, FuseIInv, FuseTypeInv
  <1>2. CASE Mount BY <1>2, MountStep
  <1>3. CASE Destroy BY <1>3, DestroyStep
  <1>4. ASSUME NEW p \in Processes, NEW path \in Paths, Open(p, path) PROVE FuseIInv'
    BY <1>4, OpenStep
  <1>5. ASSUME NEW p \in Processes,
               Getattr(p) \/ Read(p) \/ Readdir(p)
               \/ \E n \in 0 .. Len(proc[p].got) : Seek(p, n)
        PROVE  FuseIInv'
    BY <1>5, AnswersKeep, HandlesKept
  <1>6. ASSUME NEW p \in Processes, Close(p) PROVE FuseIInv' BY <1>6, CloseStep
  <1>7. ASSUME NEW h \in closing, Release(h) PROVE FuseIInv' BY <1>7, ReleaseStep
  <1> QED BY <1>1, <1>2, <1>3, <1>4, <1>5, <1>6, <1>7 DEF Next

\* A handle stands for the entry its process opened, whatever the other processes
\* open and close, and a closed one leaves the table.
THEOREM HandlesHeld == Spec => []HandlesAreHeld
  <1>1. FuseIInv => HandlesAreHeld BY DEF FuseIInv
  <1> QED BY FuseInit, FuseStep, <1>1, PTL DEF Spec

-----------------------------------------------------------------------------
(* The order of the records *)

HasLeast(S) == \E n \in S : \A m \in S : n <= m

LEMMA NumbersHaveLeast ==
    ASSUME NEW S \in SUBSET Nat, S # {}
    PROVE  HasLeast(S)
  <1> DEFINE R == OpToRel(<, Nat)
  <1>1. IsWellFoundedOn(R, Nat) BY NatLessThanWellFounded
  <1>2. \A x, y \in Nat : y < x => <<y, x>> \in R BY DEF OpToRel
  <1> HIDE DEF R
  <1>3. PICK x \in S : \A y \in S : ~(<<y, x>> \in R) BY <1>1, WFMin, Zenon
  <1>4. ASSUME NEW y \in S PROVE x <= y
    <2>1. ~(<<y, x>> \in R) BY <1>3, Zenon
    <2>2. x \in Nat /\ y \in Nat BY Zenon
    <2>3. ~(y < x) BY <2>1, <2>2, <1>2, Zenon
    <2> QED BY <2>2, <2>3, SMT
  <1> QED BY <1>4 DEF HasLeast

Keys == [oid : Nat, type : Nat, sub : Nat]

HasLeastKey(S) == \E k \in S : \A q \in S : ~Less(q, k)

LEMMA KeysHaveLeast ==
    ASSUME NEW S \in SUBSET Keys, S # {}
    PROVE  HasLeastKey(S)
  <1>1. PICK o \in {k.oid : k \in S} : \A n \in {k.oid : k \in S} : o <= n
    <2>1. {k.oid : k \in S} \in SUBSET Nat /\ {k.oid : k \in S} # {} BY DEF Keys
    <2> QED BY <2>1, NumbersHaveLeast DEF HasLeast
  <1> DEFINE SO == {k \in S : k.oid = o}
  <1>2. PICK t \in {k.type : k \in SO} : \A n \in {k.type : k \in SO} : t <= n
    <2>1. {k.type : k \in SO} \in SUBSET Nat /\ {k.type : k \in SO} # {} BY <1>1 DEF Keys
    <2> QED BY <2>1, NumbersHaveLeast DEF HasLeast
  <1> DEFINE ST == {k \in SO : k.type = t}
  <1>3. PICK s \in {k.sub : k \in ST} : \A n \in {k.sub : k \in ST} : s <= n
    <2>1. {k.sub : k \in ST} \in SUBSET Nat /\ {k.sub : k \in ST} # {} BY <1>2 DEF Keys
    <2> QED BY <2>1, NumbersHaveLeast DEF HasLeast
  <1>4. PICK k \in ST : k.sub = s BY <1>3
  <1>5. ASSUME NEW q \in S PROVE ~Less(q, k)
    <2>1. /\ o <= q.oid /\ q.oid \in Nat /\ o \in Nat
          /\ q.oid = o => t <= q.type /\ q.type \in Nat /\ t \in Nat
          /\ q.oid = o /\ q.type = t => s <= q.sub /\ q.sub \in Nat /\ s \in Nat
      BY <1>1, <1>2, <1>3 DEF Keys
    <2> QED BY <1>4, <2>1 DEF Less
  <1> QED BY <1>4, <1>5 DEF HasLeastKey

LEMMA LeastOfIs ==
    ASSUME NEW S \in SUBSET Keys, S # {}
    PROVE  LeastOf(S) \in S /\ \A q \in S : ~Less(q, LeastOf(S))
  BY KeysHaveLeast DEF HasLeastKey, LeastOf

LEMMA LessIsOrder ==
    ASSUME NEW k \in Keys, NEW l \in Keys, NEW m \in Keys
    PROVE  /\ ~Less(k, k)
           /\ Less(k, l) /\ Less(l, m) => Less(k, m)
           /\ Less(k, l) => ~Less(l, k)
           /\ ~Less(k, l) /\ ~Less(l, k) => k.oid = l.oid /\ k.type = l.type
  BY DEF Less, Keys

\* An object with an inode record is answered with it, and an answer that ends the
\* program is an index entry with that record's key.
LEMMA InodeIsOwn ==
    ASSUME NEW v, v.keys \subseteq Keys, NEW id \in Nat, Key(id, Inode, 0) \in v.keys
    PROVE  /\ LoadInode(v, id).id \in {0, id}
           /\ LoadInode(v, id).type = "abort" =>
                 \E k \in v.starts : k.oid = id /\ k.type = Inode
  <1> DEFINE key == Key(id, Inode, 0)
             S == {r \in v.keys : ~Less(r, key)}
             k == LeastOf(S)
             answer == LowerBound(v.keys, v.starts, key)
             how == Outcome(v, key, answer)
  <1>1. key \in Keys BY DEF Key, Keys, Inode
  <1>2. key \in S /\ S \in SUBSET Keys BY <1>1, LessIsOrder
  <1>3. k \in S /\ ~Less(key, k) BY <1>2, LeastOfIs
  <1>4. k.oid = id /\ k.type = Inode
    <2>1. ~Less(k, key) /\ k \in Keys BY <1>3
    <2>2. k.oid = key.oid /\ k.type = key.type BY <1>1, <1>3, <2>1, LessIsOrder, Zenon
    <2> QED BY <2>2 DEF Key
  <1>5. answer = Answer(k, k \notin v.starts) BY DEF LowerBound
  <1>6. answer.key = k /\ answer.isRecord = (k \notin v.starts) BY <1>5 DEF Answer
  <1> HIDE DEF k, S
  <1>7. how = "abort" => k \in v.starts BY <1>6 DEF Outcome
  <1>8. LoadInode(v, id) = IF how = "ok" THEN [id |-> k.oid, type |-> "inode"] ELSE Failed(how)
    BY <1>6 DEF LoadInode
  <1> HIDE DEF how, answer, key
  <1>9. CASE how = "ok" BY <1>4, <1>8, <1>9 DEF Failed
  <1>10. CASE how # "ok"
    <2>1. LoadInode(v, id).id = 0 BY <1>8, <1>10 DEF Failed
    <2>2. LoadInode(v, id).type = "abort" => how = "abort" BY <1>8, <1>10 DEF Failed
    <2> QED BY <1>4, <1>7, <2>1, <2>2
  <1> QED BY <1>9, <1>10

-----------------------------------------------------------------------------
(* Paths *)

\* What a path may lead to: an entry with an inode of its own, an error, or the end of
\* the program, for a cause.
Known(v, entry, cause) ==
    \/ HasInode(v, entry)
    \/ entry = Failed("error")
    \/ entry = Failed("abort") /\ cause

RootEntry == [id |-> Root, type |-> "dir"]

LEMMA RootIsKnown ==
    ASSUME NEW v, WellFormed(v), NEW cause
    PROVE  Known(v, RootEntry, cause)
  BY DEF Known, HasInode, WellFormed, RootEntry, Root

LEMMA StepIsKnown ==
    ASSUME NEW v, WellFormed(v), NEW cause, NEW at, Known(v, at, cause), NEW name \in Nat,
           ShortEntry(v) \/ EndlessLink(v, at, name) => cause
    PROVE  Known(v, Step(v, at, name), cause)
  <1> DEFINE key == Key(at.id, DirRec, name)
             S == {r \in v.keys : ~Less(r, key)}
             k == LeastOf(S)
             answer == LowerBound(v.keys, v.starts, key)
             how == Outcome(v, key, answer)
  <1>1. CASE at \in Failures
    BY <1>1 DEF Step
  <1>2. CASE at \notin Failures /\ at.type # "dir"
    BY <1>2 DEF Step, Known
  <1>3. CASE at \notin Failures /\ at.type = "dir"
    <2>1. HasInode(v, at) BY <1>3 DEF Known, Failures
    <2>2. key \in Keys /\ key.oid >= Root /\ key.type = DirRec
      BY <2>1 DEF HasInode, Key, Keys, DirRec
    <2>3. S \in SUBSET Keys BY DEF WellFormed, Keys
    <2>4. key # Sentinel BY DEF Key, Sentinel, DirRec
    <2>5. answer.key = k /\ answer.isRecord = (k \notin v.starts)
      BY DEF LowerBound, Answer
    <2>6. k = key => key \in v.keys
      <3>1. CASE S = {} BY <2>4, <3>1 DEF LeastOf
      <3>2. CASE S # {} BY <2>3, <3>2, LeastOfIs
      <3> QED BY <3>1, <3>2
    <2>7. Step(v, at, name) = IF how = "error" \/ answer.key # key THEN Failed("error")
                              ELSE IF how = "abort" THEN Failed("abort")
                              ELSE Follow(v, v.entry[key])
      BY <1>3 DEF Step
    <2>8. how = "abort" => k \in v.starts BY <2>5 DEF Outcome
    <2> HIDE DEF key, S, k, answer, how
    <2>9. CASE how = "error" \/ answer.key # key BY <2>7, <2>9 DEF Known
    <2>10. CASE ~(how = "error" \/ answer.key # key) /\ how = "abort"
      <3>1. ShortEntry(v) BY <2>2, <2>5, <2>8, <2>10 DEF ShortEntry
      <3> QED BY <2>7, <2>10, <3>1 DEF Known
    <2>11. CASE ~(how = "error" \/ answer.key # key) /\ how # "abort"
      <3>1. key \in v.keys /\ Step(v, at, name) = Follow(v, v.entry[key])
        BY <2>5, <2>6, <2>7, <2>11
      <3>2. /\ HasInode(v, v.entry[key])
            /\ v.entry[key].type = "link" =>
                  \/ HasInode(v, v.target[v.entry[key].id])
                  \/ v.target[v.entry[key].id] \in Failures
        BY <2>2, <3>1 DEF WellFormed
      <3>3. ASSUME v.entry[key].type = "link", v.target[v.entry[key].id] = Failed("abort")
            PROVE  cause
        <4>1. EndlessLink(v, at, name) BY <1>3, <3>1, <3>3 DEF EndlessLink, LinkIn, key
        <4> QED BY <4>1
      <3> QED BY <3>1, <3>2, <3>3 DEF Known, Follow, Failures
    <2> QED BY <2>9, <2>10, <2>11
  <1> QED BY <1>1, <1>2, <1>3

\* The walk is what its definition says: there is one for every number of names.
Walks(v, path, n, f) ==
    f = [m \in 0 .. n |-> IF m = 0 THEN RootEntry ELSE Step(v, f[m - 1], path[m])]
HasWalk(v, path, n) == \E f : Walks(v, path, n, f)

LEMMA OneNameMore ==
    ASSUME NEW v, NEW path, NEW n \in Nat, HasWalk(v, path, n)
    PROVE  HasWalk(v, path, n + 1)
  <1>1. PICK f : Walks(v, path, n, f) BY DEF HasWalk
  <1> DEFINE g == [m \in 0 .. n + 1 |-> IF m <= n THEN f[m] ELSE Step(v, f[n], path[n + 1])]
  <1>2. ASSUME NEW m \in 0 .. n + 1
        PROVE  g[m] = IF m = 0 THEN RootEntry ELSE Step(v, g[m - 1], path[m])
    <2>1. CASE m = 0 BY <1>1, <2>1 DEF Walks
    <2>2. CASE m # 0 /\ m <= n
      <3>1. m - 1 \in 0 .. n + 1 /\ m - 1 <= n /\ m \in 0 .. n BY <2>2
      <3>2. g[m] = f[m] /\ g[m - 1] = f[m - 1] BY <2>2, <3>1
      <3> HIDE DEF g
      <3>3. f[m] = Step(v, f[m - 1], path[m]) BY <1>1, <2>2, <3>1 DEF Walks
      <3> QED BY <2>2, <3>2, <3>3
    <2>3. CASE m = n + 1
      <3>1. n \in 0 .. n + 1 /\ n <= n /\ ~(n + 1 <= n) /\ m # 0 /\ m - 1 = n BY <2>3
      <3>2. g[n] = f[n] /\ g[m] = Step(v, f[n], path[n + 1]) BY <2>3, <3>1
      <3> HIDE DEF g
      <3> QED BY <2>3, <3>1, <3>2
    <2> QED BY <2>1, <2>2, <2>3
  <1> DEFINE h == [m \in 0 .. n + 1 |-> IF m = 0 THEN RootEntry ELSE Step(v, g[m - 1], path[m])]
  <1>3. g = h
    <2>1. \A m \in 0 .. n + 1 : g[m] = h[m] BY <1>2
    <2> HIDE DEF h
    <2>2. h = [m \in 0 .. n + 1 |-> h[m]] BY DEF h
    <2>3. g = [m \in 0 .. n + 1 |-> g[m]] OBVIOUS
    <2> HIDE DEF g
    <2> QED BY <2>1, <2>2, <2>3
  <1> HIDE DEF g
  <1>4. Walks(v, path, n + 1, g) BY <1>3 DEF Walks
  <1> QED BY <1>4 DEF HasWalk

LEMMA WalkExists ==
    ASSUME NEW v, NEW path, NEW len \in Nat
    PROVE  HasWalk(v, path, len)
  <1> DEFINE Without == {n \in Nat : ~HasWalk(v, path, n)}
  <1>1. HasWalk(v, path, 0)
    <2> DEFINE f == [m \in 0 .. 0 |-> RootEntry]
    <2>1. f = [m \in 0 .. 0 |-> IF m = 0 THEN RootEntry ELSE Step(v, f[m - 1], path[m])]
      OBVIOUS
    <2> HIDE DEF f
    <2>2. Walks(v, path, 0, f) BY <2>1 DEF Walks
    <2> QED BY <2>2 DEF HasWalk
  <1>2. Without = {}
    <2> SUFFICES ASSUME Without # {} PROVE FALSE OBVIOUS
    <2>1. PICK n \in Without : \A m \in Without : n <= m BY NumbersHaveLeast DEF HasLeast
    <2>2. n \in Nat /\ n # 0 BY <1>1
    <2>3. n - 1 \in Nat /\ ~(n <= n - 1) BY <2>2
    <2>4. HasWalk(v, path, n - 1) BY <2>1, <2>3
    <2>5. HasWalk(v, path, (n - 1) + 1) BY <2>3, <2>4, OneNameMore
    <2> QED BY <2>1, <2>2, <2>5
  <1> QED BY <1>2

LEMMA WalkIs ==
    ASSUME NEW v, NEW path, Len(path) \in Nat
    PROVE  Walks(v, path, Len(path), Walk(v, path))
  <1>1. PICK f : Walks(v, path, Len(path), f) BY WalkExists DEF HasWalk
  <1> QED BY <1>1 DEF Walk, Walks, RootEntry

LEMMA PathIsKnown ==
    ASSUME NEW v, WellFormed(v), NEW path \in Seq(Nat)
    PROVE  Known(v, NavigateTo(v, path), ShortEntry(v) \/ PassesEndlessLink(v, path))
  <1> DEFINE at == Walk(v, path)
             cause == ShortEntry(v) \/ PassesEndlessLink(v, path)
             Unknown == {n \in 0 .. Len(path) : ~Known(v, at[n], cause)}
  <1>1. Len(path) \in Nat OBVIOUS
  <1>2. at = [m \in 0 .. Len(path) |->
                IF m = 0 THEN RootEntry ELSE Step(v, at[m - 1], path[m])]
    BY <1>1, WalkIs DEF Walks
  <1>5. \A n \in 1 .. Len(path) : ShortEntry(v) \/ EndlessLink(v, at[n - 1], path[n]) => cause
    BY <1>1 DEF PassesEndlessLink
  <1> HIDE DEF at, cause
  <1>3. Unknown = {}
    <2> SUFFICES ASSUME Unknown # {} PROVE FALSE OBVIOUS
    <2>1. PICK n \in Unknown : \A m \in Unknown : n <= m
      <3>1. Unknown \in SUBSET Nat OBVIOUS
      <3> QED BY <3>1, NumbersHaveLeast DEF HasLeast
    <2>2. n \in 0 .. Len(path) /\ ~Known(v, at[n], cause) BY <2>1
    <2>3. CASE n = 0 BY <1>2, <2>2, <2>3, RootIsKnown
    <2>4. CASE n # 0
      <3>1. /\ n - 1 \in 0 .. Len(path) /\ ~(n <= n - 1)
            /\ n \in 1 .. Len(path) /\ path[n] \in Nat
        BY <2>2, <2>4
      <3>2. Known(v, at[n - 1], cause) BY <2>1, <3>1
      <3>3. at[n] = Step(v, at[n - 1], path[n]) BY <1>2, <2>2, <2>4
      <3> QED BY <1>5, <2>2, <3>1, <3>2, <3>3, StepIsKnown
    <2> QED BY <2>3, <2>4
  <1>4. Len(path) \in 0 .. Len(path) BY <1>1
  <1> QED BY <1>3, <1>4 DEF NavigateTo, at, cause

-----------------------------------------------------------------------------
(* Induction over the keys of a volume, from the last to the first *)

HasSmallest(F) == \E S \in F : \A T \in F : T \subseteq S => T = S

LEMMA SmallestSubset ==
    ASSUME NEW B, IsFiniteSet(B), NEW F, F \subseteq SUBSET B, F # {}
    PROVE  HasSmallest(F)
  <1> DEFINE R == StrictSubsetOrdering(B)
  <1>1. IsWellFoundedOn(R, SUBSET B)
    BY FS_StrictSubsetOrderingWellFounded, FS_FiniteSubsetsOfFinite, Zenon
  <1>2. \A S, T \in SUBSET B : T \subseteq S /\ T # S => <<T, S>> \in R
    BY DEF StrictSubsetOrdering
  <1> HIDE DEF R
  <1>3. PICK S \in F : \A T \in F : ~(<<T, S>> \in R) BY <1>1, WFMin, Zenon
  <1>4. ASSUME NEW T \in F, T \subseteq S PROVE T = S
    BY <1>2, <1>3, <1>4, Zenon
  <1> QED BY <1>4, Zenon DEF HasSmallest

\* The last keys of D.
IsTail(T, D) == T \subseteq D /\ \A a \in T, b \in D : Less(a, b) => b \in T

\* What holds of no key, and of the last keys of D if it holds of those behind the
\* first of them, holds of D.
Inherited(G, D) ==
    \A T \in SUBSET D : \A x \in T :
        IsTail(T, D) /\ (\A y \in T : ~Less(y, x)) /\ T \ {x} \in G => T \in G

LEMMA FromTheLast ==
    ASSUME NEW D \in SUBSET Keys, IsFiniteSet(D), NEW G, {} \in G, Inherited(G, D)
    PROVE  D \in G
  <1> SUFFICES ASSUME D \notin G PROVE FALSE OBVIOUS
  <1> DEFINE Bad == {T \in SUBSET D : IsTail(T, D) /\ T \notin G}
  <1>1. D \in Bad BY DEF IsTail
  <1>2. PICK T \in Bad : \A S \in Bad : S \subseteq T => S = T
    <2>1. Bad \subseteq SUBSET D /\ Bad # {} BY <1>1
    <2> HIDE DEF Bad
    <2>2. HasSmallest(Bad) BY <2>1, SmallestSubset, Zenon
    <2> QED BY <2>2 DEF HasSmallest
  <1>3. T # {} /\ T \in SUBSET Keys BY <1>2
  <1>4. PICK x \in T : \A y \in T : ~Less(y, x) BY <1>3, KeysHaveLeast DEF HasLeastKey
  <1>5. IsTail(T \ {x}, D)
    <2>1. ASSUME NEW a \in T \ {x}, NEW b \in D, Less(a, b) PROVE b \in T \ {x}
      BY <1>2, <1>4, <2>1 DEF IsTail
    <2> QED BY <1>2, <2>1 DEF IsTail
  <1>6. T \ {x} \in G BY <1>2, <1>4, <1>5
  <1> QED BY <1>2, <1>4, <1>6 DEF Inherited

-----------------------------------------------------------------------------
(* The children of a directory *)

Start(dir) == Key(dir, DirRec, 0)

LEMMA StartIsKey ==
    ASSUME NEW v, WellFormed(v), NEW dir \in Nat
    PROVE  /\ Start(dir) \in Keys /\ Start(dir) \notin v.keys
           /\ Start(dir).oid = dir /\ Start(dir).type = DirRec /\ Start(dir).sub = 0
           /\ v.keys \cup {Start(dir)} \in SUBSET Keys
           /\ IsFiniteSet(v.keys \cup {Start(dir)})
  <1>1. /\ Start(dir) \in Keys /\ Start(dir).oid = dir
        /\ Start(dir).type = DirRec /\ Start(dir).sub = 0
    BY DEF Start, Key, Keys, DirRec
  <1>2. Start(dir) \notin v.keys BY <1>1 DEF WellFormed
  <1>3. v.keys \cup {Start(dir)} \in SUBSET Keys BY <1>1 DEF WellFormed, Keys
  <1>4. IsFiniteSet(v.keys \cup {Start(dir)}) BY FS_AddElement DEF WellFormed
  <1> QED BY <1>1, <1>2, <1>3, <1>4

\* What the search behind a child answers with: the next record, if it is a child,
\* and otherwise there is no child left.
NextIsRight(v, key, answer) ==
    /\ answer.isRecord = (answer.key \notin v.starts)
    /\ IsChild(answer.key) =>
          /\ answer.key \in v.keys /\ Less(key, answer.key)
          /\ \A r \in v.keys : Less(key, r) => ~Less(r, answer.key)
    /\ ~IsChild(answer.key) /\ key.type = DirRec =>
          \A k \in v.keys : Less(key, k) => ~(k.oid = key.oid /\ k.type = DirRec)

LEMMA NextIs ==
    ASSUME NEW v, WellFormed(v), NEW dir \in Nat, NEW key \in v.keys \cup {Start(dir)}
    PROVE  NextIsRight(v, key, NextAnswer(v, Start(dir), key))
  <1> DEFINE S == IF key = Start(dir) THEN {r \in v.keys : ~Less(r, key)}
                                      ELSE {r \in v.keys : Less(key, r)}
             n == LeastOf(S)
  <1>1. v.keys \subseteq Keys /\ key \in Keys BY StartIsKey DEF WellFormed, Keys
  <1>2. NextAnswer(v, Start(dir), key) = Answer(n, n \notin v.starts)
    BY DEF NextAnswer, LowerBound, UpperBound
  <1>3. ASSUME NEW r \in v.keys PROVE Less(key, r) => r \in S
    BY <1>1, LessIsOrder
  <1>4. ASSUME NEW r \in S, r.type = DirRec PROVE Less(key, r)
    <2>1. CASE key = Start(dir)
      <3>1. /\ r \in v.keys /\ ~Less(r, key) /\ r \in Keys /\ r.sub # 0
            /\ key.oid = dir /\ key.type = DirRec /\ key.sub = 0
        BY <1>1, <1>4, <2>1, StartIsKey DEF WellFormed
      <3> QED BY <3>1, <1>4 DEF Less, Keys
    <2>2. CASE key # Start(dir) BY <2>2
    <2> QED BY <2>1, <2>2
  <1>5. S \in SUBSET Keys BY <1>1
  <1> HIDE DEF S
  <1>6. CASE S = {}
    <2>1. n = Sentinel BY <1>6 DEF LeastOf
    <2>2. ~IsChild(n) BY <2>1 DEF IsChild, Sentinel, Key, DirRec
    <2> HIDE DEF n
    <2> QED BY <1>2, <1>3, <1>6, <2>2 DEF NextIsRight, Answer
  <1>7. CASE S # {}
    <2>1. n \in S /\ \A q \in S : ~Less(q, n) BY <1>5, <1>7, LeastOfIs
    <2>2. n \in v.keys /\ n \in Keys /\ ~Less(n, key)
      BY <1>1, <2>1, LessIsOrder DEF S
    <2> HIDE DEF n
    <2>3. ASSUME NEW k \in v.keys, Less(key, k), k.oid = key.oid, k.type = DirRec,
                 key.type = DirRec
          PROVE  IsChild(n)
      <3>1. ~Less(k, n) /\ k \in Keys BY <1>1, <1>3, <2>1, <2>3
      <3> QED BY <1>1, <2>2, <2>3, <3>1 DEF Less, Keys, IsChild
    <2>4. IsChild(n) => Less(key, n) BY <1>4, <2>1 DEF IsChild
    <2> QED BY <1>2, <1>3, <2>1, <2>2, <2>3, <2>4 DEF NextIsRight, Answer
  <1> QED BY <1>6, <1>7

\* The children from key on, by those from the next child on.
From(v, start, f, key) ==
    LET answer == NextAnswer(v, start, key)
        how == Outcome(v, key, answer)
    IN  IF how = "error" THEN [keys |-> <<>>, how |-> "error"]
        ELSE IF ~IsChild(answer.key) THEN [keys |-> <<>>, how |-> "ok"]
        ELSE IF how = "abort" THEN [keys |-> <<>>, how |-> "abort"]
        ELSE [keys |-> <<answer.key>> \o f[answer.key].keys, how |-> f[answer.key].how]

Lists(v, start, T, f) == f = [key \in T |-> From(v, start, f, key)]
HasLists(v, start, T) == \E f : Lists(v, start, T, f)

LEMMA ListsExist ==
    ASSUME NEW v, WellFormed(v), NEW dir \in Nat
    PROVE  HasLists(v, Start(dir), v.keys \cup {Start(dir)})
  <1> DEFINE start == Start(dir)
             D == v.keys \cup {start}
             G == {T \in SUBSET D : HasLists(v, start, T)}
  <1>1. D \in SUBSET Keys /\ IsFiniteSet(D) BY StartIsKey
  <1>2. {} \in G
    <2>1. Lists(v, start, {}, [key \in {} |-> {}]) BY DEF Lists
    <2> QED BY <2>1 DEF HasLists
  <1>3. ASSUME NEW T \in SUBSET D, NEW x \in T, IsTail(T, D), \A y \in T : ~Less(y, x),
               HasLists(v, start, T \ {x})
        PROVE  HasLists(v, start, T)
    <2>1. PICK g : Lists(v, start, T \ {x}, g) BY <1>3 DEF HasLists
    <2> DEFINE f == [key \in T |-> IF key = x THEN From(v, start, g, x) ELSE g[key]]
    <2>2. ASSUME NEW key \in T PROVE f[key] = From(v, start, f, key)
      <3> DEFINE n == NextAnswer(v, start, key).key
      <3>1. key \in D BY <1>3
      <3>2. IsChild(n) => n \in v.keys /\ Less(key, n)
        BY <3>1, NextIs, Zenon DEF NextIsRight
      <3>3. IsChild(n) => n \in T \ {x}
        BY <1>3, <3>2 DEF IsTail
      <3>4. IsChild(n) => f[n] = g[n] BY <3>3
      <3> HIDE DEF f
      <3>5. From(v, start, f, key) = From(v, start, g, key)
        BY <3>4 DEF From
      <3>6. CASE key = x BY <3>5, <3>6 DEF f
      <3>7. CASE key # x
        <4>1. f[key] = g[key] BY <3>7 DEF f
        <4>2. g[key] = From(v, start, g, key) BY <2>1, <3>7 DEF Lists
        <4> QED BY <3>5, <4>1, <4>2
      <3> QED BY <3>6, <3>7
    <2> DEFINE h == [key \in T |-> From(v, start, f, key)]
    <2>3. f = [key \in T |-> f[key]] OBVIOUS
    <2> HIDE DEF f
    <2>4. f = h BY <2>2, <2>3
    <2>5. Lists(v, start, T, f) BY <2>4 DEF Lists
    <2> QED BY <2>5 DEF HasLists
  <1> HIDE DEF D
  <1>4. Inherited(G, D) BY <1>3 DEF Inherited
  <1> HIDE DEF G
  <1>5. D \in G BY <1>1, <1>2, <1>4, FromTheLast, Zenon
  <1> QED BY <1>5 DEF G, D

LEMMA ChildrenAre ==
    ASSUME NEW v, WellFormed(v), NEW dir \in Nat
    PROVE  Lists(v, Start(dir), v.keys \cup {Start(dir)}, Children(v, Start(dir)))
  <1>1. PICK f : Lists(v, Start(dir), v.keys \cup {Start(dir)}, f)
    BY ListsExist DEF HasLists
  <1> QED BY <1>1 DEF Children, Lists, From

LEMMA OneInFront ==
    ASSUME NEW S, NEW x \in S, NEW s \in Seq(S)
    PROVE  /\ <<x>> \o s \in Seq(S) /\ Len(<<x>> \o s) = Len(s) + 1
           /\ (<<x>> \o s)[1] = x
           /\ \A i \in 2 .. Len(s) + 1 : (<<x>> \o s)[i] = s[i - 1]
  OBVIOUS

\* All names behind key, in order, as far as the call got.
Listing(v, dir, key, res) ==
    /\ res.keys \in Seq(Names(v, dir))
    /\ res.how \in {"ok", "error", "abort"}
    /\ res.how = "abort" => ShortEntry(v)
    /\ \A i \in 1 .. Len(res.keys) : Less(key, res.keys[i])
    /\ \A i, j \in 1 .. Len(res.keys) : i < j => Less(res.keys[i], res.keys[j])
    /\ \A i \in 1 .. Len(res.keys), k \in Names(v, dir) :
          Less(key, k) /\ Less(k, res.keys[i]) => \E j \in 1 .. Len(res.keys) : res.keys[j] = k
    /\ res.how = "ok" => \A k \in Names(v, dir) :
          Less(key, k) => \E j \in 1 .. Len(res.keys) : res.keys[j] = k

\* The child behind a child of dir is a child of dir: the next object has a record
\* of its own before its names.
LEMMA NextOfDir ==
    ASSUME NEW v, WellFormed(v), NEW dir \in Nat, dir >= Root,
           NEW key \in v.keys \cup {Start(dir)}, key.oid = dir, key.type = DirRec,
           IsChild(NextAnswer(v, Start(dir), key).key)
    PROVE  NextAnswer(v, Start(dir), key).key \in Names(v, dir)
  <1> DEFINE n == NextAnswer(v, Start(dir), key).key
             inode == Key(n.oid, Inode, 0)
  <1>1. /\ n \in v.keys /\ Less(key, n)
        /\ \A r \in v.keys : Less(key, r) => ~Less(r, n)
    BY NextIs, Zenon DEF NextIsRight
  <1> HIDE DEF n
  <1>2. key \in Keys /\ n \in Keys /\ n.type = DirRec
    BY <1>1, StartIsKey DEF WellFormed, Keys, n, IsChild
  <1>3. n.oid = dir
    <2> SUFFICES ASSUME n.oid # dir PROVE FALSE OBVIOUS
    <2>1. n.oid > dir BY <1>1, <1>2 DEF Less, Keys
    <2>2. n.oid > Root BY <1>2, <2>1 DEF Root, Keys
    <2>3. inode \in v.keys BY <1>1, <1>2, <2>2 DEF WellFormed
    <2>4. Less(key, inode) /\ Less(inode, n)
      BY <1>2, <2>1 DEF Less, Key, Inode, DirRec, Keys
    <2> HIDE DEF inode
    <2> QED BY <1>1, <2>3, <2>4
  <1>4. n \in Names(v, dir) BY <1>1, <1>2, <1>3 DEF Names
  <1> QED BY <1>4 DEF n

LEMMA ListingFrom ==
    ASSUME NEW v, WellFormed(v), NEW dir \in Nat, dir >= Root, NEW f,
           NEW key \in v.keys \cup {Start(dir)}, key.oid = dir, key.type = DirRec,
           LET n == NextAnswer(v, Start(dir), key).key
           IN  IsChild(n) => Listing(v, dir, n, f[n])
    PROVE  Listing(v, dir, key, From(v, Start(dir), f, key))
  <1> DEFINE answer == NextAnswer(v, Start(dir), key)
             n == answer.key
             how == Outcome(v, key, answer)
             res == From(v, Start(dir), f, key)
  <1> SUFFICES Listing(v, dir, key, res) OBVIOUS
  <1>1. NextIsRight(v, key, answer) BY NextIs, Zenon
  <1>2. res = IF how = "error" THEN [keys |-> <<>>, how |-> "error"]
              ELSE IF ~IsChild(n) THEN [keys |-> <<>>, how |-> "ok"]
              ELSE IF how = "abort" THEN [keys |-> <<>>, how |-> "abort"]
              ELSE [keys |-> <<n>> \o f[n].keys, how |-> f[n].how]
    BY DEF From
  <1>3. how = "abort" => n \in v.starts BY <1>1 DEF Outcome, NextIsRight
  <1>4. IsChild(n) => n \in Names(v, dir) BY NextOfDir
  <1>5. IsChild(n) => Listing(v, dir, n, f[n]) OBVIOUS
  <1>6. IsChild(n) => Less(key, n) /\ \A r \in v.keys : Less(key, r) => ~Less(r, n)
    BY <1>1 DEF NextIsRight
  <1>7. ~IsChild(n) => \A k \in Names(v, dir) : ~Less(key, k)
    BY <1>1 DEF NextIsRight, Names
  <1> HIDE DEF answer, n, how, res
  <1>8. CASE how = "error" \/ ~IsChild(n) \/ how = "abort"
    <2>1. res.keys = <<>> /\ res.how \in {"ok", "error", "abort"} BY <1>2, <1>8
    <2>2. res.how = "abort" => ShortEntry(v)
      <3>1. res.how = "abort" => n \in v.starts /\ n \in Names(v, dir)
        BY <1>2, <1>3, <1>4, <1>8
      <3> QED BY <3>1 DEF ShortEntry, Names
    <2>3. res.how = "ok" => \A k \in Names(v, dir) : ~Less(key, k)
      BY <1>2, <1>7, <1>8
    <2> HIDE DEF res
    <2>4. res.keys \in Seq(Names(v, dir)) /\ Len(res.keys) = 0 BY <2>1
    <2>5. 1 .. Len(res.keys) = {} BY <2>4
    <2> QED BY <2>1, <2>2, <2>3, <2>4, <2>5 DEF Listing
  <1>9. CASE how # "error" /\ IsChild(n) /\ how # "abort"
    <2> DEFINE rest == f[n].keys
               all == res.keys
    <2>1. all = <<n>> \o rest /\ res.how = f[n].how BY <1>2, <1>9
    <2>2. rest \in Seq(Names(v, dir)) /\ Listing(v, dir, n, f[n])
      BY <1>5, <1>9 DEF Listing
    <2>3. /\ all \in Seq(Names(v, dir)) /\ Len(all) = Len(rest) + 1 /\ all[1] = n
          /\ \A i \in 2 .. Len(rest) + 1 : all[i] = rest[i - 1]
      BY <1>4, <1>9, <2>1, <2>2, OneInFront
    <2> HIDE DEF rest, all
    <2>4. Len(rest) \in Nat BY <2>2
    <2>5. n \in Keys /\ key \in Keys /\ Names(v, dir) \subseteq Keys
      BY <1>4, <1>9, StartIsKey DEF Names, WellFormed, Keys
    <2>6. \A i \in 1 .. Len(all) : i = 1 \/ (i - 1 \in 1 .. Len(rest) /\ all[i] = rest[i - 1])
      BY <2>3, <2>4
    <2>7. \A j \in 1 .. Len(rest) : j + 1 \in 1 .. Len(all) /\ all[j + 1] = rest[j]
      BY <2>3, <2>4
    <2>8. \A i \in 1 .. Len(all) : Less(key, all[i])
      <3>1. \A j \in 1 .. Len(rest) : Less(n, rest[j]) BY <2>2 DEF Listing, rest
      <3>2. \A j \in 1 .. Len(rest) : rest[j] \in Keys BY <2>2, <2>5
      <3>3. \A j \in 1 .. Len(rest) : Less(key, rest[j])
        BY <1>6, <1>9, <2>5, <3>1, <3>2, LessIsOrder
      <3> QED BY <1>6, <1>9, <2>3, <2>6, <3>3
    <2>9. ASSUME NEW i \in 1 .. Len(all), NEW j \in 1 .. Len(all), i < j
          PROVE  Less(all[i], all[j])
      <3>1. j # 1 /\ j - 1 \in 1 .. Len(rest) /\ all[j] = rest[j - 1]
        BY <2>3, <2>4, <2>6, <2>9
      <3>2. CASE i = 1
        BY <2>2, <2>3, <3>1, <3>2 DEF Listing, rest
      <3>3. CASE i # 1
        <4>1. i - 1 \in 1 .. Len(rest) /\ all[i] = rest[i - 1] /\ i - 1 < j - 1
          BY <2>3, <2>4, <2>6, <2>9, <3>3
        <4> QED BY <2>2, <3>1, <4>1 DEF Listing, rest
      <3> QED BY <3>2, <3>3
    <2>10. ASSUME NEW k \in Names(v, dir), Less(key, k), k # n
           PROVE  Less(n, k)
      <3>1. k \in v.keys /\ k.oid = dir /\ k.type = DirRec /\ k \in Keys
        BY <2>5 DEF Names
      <3>2. n.oid = dir /\ n.type = DirRec BY <1>4, <1>9 DEF Names
      <3>3. ~Less(k, n) BY <1>6, <1>9, <2>10, <3>1
      <3> QED BY <2>5, <2>10, <3>1, <3>2, <3>3 DEF Less, Keys, DirRec
    <2>11. ASSUME NEW k \in Names(v, dir), Less(key, k),
                  k # n => \E j \in 1 .. Len(rest) : rest[j] = k
           PROVE  \E j \in 1 .. Len(all) : all[j] = k
      BY <2>3, <2>4, <2>7, <2>11
    <2>12. ASSUME NEW i \in 1 .. Len(all), NEW k \in Names(v, dir),
                  Less(key, k), Less(k, all[i])
           PROVE  \E j \in 1 .. Len(all) : all[j] = k
      <3>1. CASE k = n BY <2>11, <2>12, <3>1
      <3>2. CASE k # n
        <4>1. Less(n, k) BY <2>10, <2>12, <3>2
        <4>2. i # 1 BY <2>3, <2>5, <2>12, <4>1, LessIsOrder
        <4>3. i - 1 \in 1 .. Len(rest) /\ Less(k, rest[i - 1]) BY <2>6, <2>12, <4>2
        <4>4. \E j \in 1 .. Len(rest) : rest[j] = k
          BY <2>2, <4>1, <4>3 DEF Listing, rest
        <4> QED BY <2>11, <2>12, <4>4
      <3> QED BY <3>1, <3>2
    <2>13. ASSUME res.how = "ok", NEW k \in Names(v, dir), Less(key, k)
           PROVE  \E j \in 1 .. Len(all) : all[j] = k
      <3>1. CASE k = n BY <2>11, <2>13, <3>1
      <3>2. CASE k # n
        <4>1. Less(n, k) BY <2>10, <2>13, <3>2
        <4>2. \E j \in 1 .. Len(rest) : rest[j] = k
          BY <2>1, <2>2, <2>13, <4>1 DEF Listing, rest
        <4> QED BY <2>11, <2>13, <4>2
      <3> QED BY <3>1, <3>2
    <2>14. res.how \in {"ok", "error", "abort"} /\ (res.how = "abort" => ShortEntry(v))
      BY <2>1, <2>2 DEF Listing
    <2> QED BY <2>3, <2>8, <2>9, <2>12, <2>13, <2>14 DEF Listing, all
  <1> QED BY <1>8, <1>9

LEMMA ListingIs ==
    ASSUME NEW v, WellFormed(v), NEW dir \in Nat, dir >= Root
    PROVE  Listing(v, dir, Start(dir), ListChildren(v, dir))
  <1> DEFINE start == Start(dir)
             D == v.keys \cup {start}
             f == Children(v, start)
             Right(T) == \A key \in T : key.oid = dir /\ key.type = DirRec =>
                            Listing(v, dir, key, f[key])
             G == {T \in SUBSET D : Right(T)}
  <1>1. D \in SUBSET Keys /\ IsFiniteSet(D) BY StartIsKey
  <1>2. {} \in G OBVIOUS
  <1>3. \A key \in D : f[key] = From(v, start, f, key)
    BY ChildrenAre DEF Lists
  <1> HIDE DEF f
  <1>4. ASSUME NEW T \in SUBSET D, NEW x \in T, IsTail(T, D), \A y \in T : ~Less(y, x),
               Right(T \ {x}), x.oid = dir, x.type = DirRec
        PROVE  Listing(v, dir, x, f[x])
    <2> DEFINE n == NextAnswer(v, start, x).key
    <2>1. x \in D BY <1>4
    <2>2. IsChild(n) => n \in v.keys /\ Less(x, n)
      BY <2>1, NextIs, Zenon DEF NextIsRight
    <2>3. IsChild(n) => n \in Names(v, dir) BY <1>4, <2>1, NextOfDir
    <2>4. IsChild(n) => n \in T \ {x} BY <1>4, <2>2 DEF IsTail
    <2>5. IsChild(n) => Listing(v, dir, n, f[n]) BY <1>4, <2>3, <2>4 DEF Names
    <2>6. Listing(v, dir, x, From(v, start, f, x)) BY <1>4, <2>1, <2>5, ListingFrom
    <2> QED BY <1>3, <2>1, <2>6
  <1> HIDE DEF D
  <1>5. Inherited(G, D) BY <1>4 DEF Inherited
  <1> HIDE DEF G
  <1>6. D \in G BY <1>1, <1>2, <1>5, FromTheLast, Zenon
  <1>7. start \in D /\ start.oid = dir /\ start.type = DirRec BY StartIsKey DEF D
  <1>8. Listing(v, dir, start, f[start]) BY <1>6, <1>7 DEF G
  <1> QED BY <1>8 DEF ListChildren, f, Start

-----------------------------------------------------------------------------
(* What the processes have got *)

\* All that may be read of an entry, piece by piece.
Whole(v, entry) ==
    IF entry.type = "dir" THEN ListChildren(v, entry.id).keys ELSE v.bytes[entry.id]
Pieces(v, entry) ==
    IF entry.type = "dir" THEN Names(v, entry.id) ELSE Range(v.bytes[entry.id])
Listed(v, entry) == entry.type = "dir" => ListChildren(v, entry.id).how = "ok"

\* A file with an index entry among its extents, of which nothing is promised, and an
\* offset in the extent that is the last record.
TornFile(v, entry) == entry.type # "dir" /\ Torn(v, entry.id, 0) # {}
LastExtent(v, entry, n) == entry.type # "dir" /\ ExtentIsLast(v, entry.id, n)

\* A process with the job r has got the first n pieces of its entry.
HasPieces(v, r, n) ==
    LET entry == NavigateTo(v, r.path)
    IN  /\ r.got = SubSeq(Whole(v, entry), 1, n)
        /\ r.end = "eof" => n = Len(Whole(v, entry)) \/ LastExtent(v, entry, n)
        /\ n # 0 \/ r.end = "eof" => Listed(v, entry)
HasGot(v, r) ==
    LET entry == NavigateTo(v, r.path)
    IN  /\ HasInode(v, entry) /\ r.job = Job(entry)
        /\ TornFile(v, entry) \/ \E n \in 0 .. Len(Whole(v, entry)) : HasPieces(v, r, n)

JobInv(v, r) ==
    /\ r.path \in Seq(Nat)
    /\ r.stat \in {0, NavigateTo(v, r.path).id}
    /\ r.job # "none" => HasGot(v, r)

MayEnd(v) == ShortEntry(v) \/ \E path \in Paths : PassesEndlessLink(v, path)

AnswerInv ==
    /\ vol \in Volumes
    /\ \A p \in Processes : JobInv(vol, proc[p])
    /\ up = "aborted" => MayEnd(vol)

LEMMA WholeIsSeq ==
    ASSUME NEW v, WellFormed(v), NEW entry, HasInode(v, entry)
    PROVE  Whole(v, entry) \in Seq(Pieces(v, entry))
  <1>1. CASE entry.type = "dir"
    BY <1>1, ListingIs DEF HasInode, Listing, Whole, Pieces
  <1>2. CASE entry.type # "dir"
    BY <1>2 DEF HasInode, WellFormed, Whole, Pieces
  <1> QED BY <1>1, <1>2

\* How many pieces there are when a reply has been added.
UpTo(n, len) == IF n + Window < len THEN n + Window ELSE len

LEMMA GotMore ==
    ASSUME NEW S, NEW whole \in Seq(S), NEW n \in 0 .. Len(whole)
    PROVE  /\ Len(SubSeq(whole, 1, n)) = n
           /\ UpTo(n, Len(whole)) \in 0 .. Len(whole)
           /\ n = UpTo(n, Len(whole)) => n = Len(whole)
           /\ SubSeq(whole, 1, n) \o SubSeq(whole, n + 1, UpTo(n, Len(whole)))
                 = SubSeq(whole, 1, UpTo(n, Len(whole)))
  <1> DEFINE u == UpTo(n, Len(whole))
  <1>1. Len(whole) \in Nat /\ n \in Nat /\ n <= Len(whole) OBVIOUS
  <1>2. u \in n .. Len(whole) /\ u \in 0 .. Len(whole) /\ (n = u => n = Len(whole))
    BY <1>1, MountAssumption DEF UpTo
  <1> HIDE DEF u
  <1>3. \A i \in 1 .. n : whole[i] \in S BY <1>1, ElementOfSeq
  <1>4. Len(SubSeq(whole, 1, n)) = n BY <1>1, <1>3, SubSeqProperties
  <1>5. 1 \in 1 .. Len(whole) + 1 /\ n \in 1 - 1 .. Len(whole) BY <1>1
  <1>6. SubSeq(whole, 1, n) \o SubSeq(whole, n + 1, u) = SubSeq(whole, 1, u)
    BY <1>2, <1>5, ConcatAdjacentSubSeq
  <1> QED BY <1>2, <1>4, <1>6 DEF u

LEMMA GotLess ==
    ASSUME NEW S, NEW whole \in Seq(S), NEW n \in 0 .. Len(whole),
           NEW m \in 0 .. Len(SubSeq(whole, 1, n))
    PROVE  /\ m \in 0 .. n
           /\ SubSeq(SubSeq(whole, 1, n), 1, m) = SubSeq(whole, 1, m)
  <1>1. Len(SubSeq(whole, 1, n)) = n BY GotMore
  <1>2. m \in 0 .. n /\ n \in 0 .. Len(whole) /\ Len(whole) \in Nat BY <1>1
  <1>3. CASE m = 0
    BY <1>3, SubSeqEmpty
  <1>4. CASE m # 0
    <2>1. /\ 1 \in 1 .. Len(whole) /\ n \in 1 .. Len(whole)
          /\ 1 \in 1 .. n - 1 + 1 /\ m \in 1 .. n - 1 + 1
          /\ 1 + 1 - 1 = 1 /\ 1 + m - 1 = m
      BY <1>2, <1>4
    <2>2. SubSeq(SubSeq(whole, 1, n), 1, m) = SubSeq(whole, 1 + 1 - 1, 1 + m - 1)
      BY <2>1, SubSeqOfSubSeq
    <2> QED BY <1>2, <2>1, <2>2
  <1> QED BY <1>2, <1>3, <1>4

LEMMA FirstPieces ==
    ASSUME NEW S, NEW whole \in Seq(S), NEW n \in 0 .. Len(whole), NEW got,
           got = SubSeq(whole, 1, n)
    PROVE  /\ DOMAIN got = 1 .. n /\ Len(got) = n
           /\ \A i \in 1 .. n : i \in 1 .. Len(whole) /\ got[i] = whole[i] /\ got[i] \in S
           /\ IsPrefix(got, whole)
           /\ n = Len(whole) => got = whole
  <1>1. Len(whole) \in Nat /\ n \in Nat /\ n <= Len(whole) OBVIOUS
  <1>2. \A i \in 1 .. n : i \in 1 .. Len(whole) /\ whole[i] \in S BY <1>1, ElementOfSeq
  <1>3. got \in Seq(S) /\ Len(got) = n /\ \A i \in 1 .. n : got[i] = whole[i]
    <2>1. 1 \in Int /\ n \in Int /\ \A i \in 1 .. n - 1 + 1 : 1 + i - 1 = i BY <1>1
    <2>2. /\ SubSeq(whole, 1, n) \in Seq(S)
          /\ Len(SubSeq(whole, 1, n)) = IF 1 <= n THEN n - 1 + 1 ELSE 0
          /\ \A i \in 1 .. n - 1 + 1 : SubSeq(whole, 1, n)[i] = whole[1 + i - 1]
      BY <1>2, <2>1, SubSeqProperties
    <2>3. n - 1 + 1 = n /\ (IF 1 <= n THEN n - 1 + 1 ELSE 0) = n BY <1>1
    <2> QED BY <2>1, <2>2, <2>3
  <1>4. DOMAIN got = 1 .. n BY <1>3, LenProperties
  <1>5. SubSeq(got, 1, Len(got)) = got BY <1>3, SubSeqFull
  <1>6. SubSeq(whole, 1, Len(whole)) = whole BY SubSeqFull
  <1> QED BY <1>1, <1>2, <1>3, <1>4, <1>5, <1>6 DEF IsPrefix

LEMMA NothingGot ==
    ASSUME NEW v, WellFormed(v), NEW r, HasInode(v, NavigateTo(v, r.path)),
           r.job = Job(NavigateTo(v, r.path)), r.got = <<>>, r.end = "open"
    PROVE  HasGot(v, r)
  <1> DEFINE whole == Whole(v, NavigateTo(v, r.path))
  <1>1. Len(whole) \in Nat BY WholeIsSeq, LenProperties
  <1>2. 0 \in 0 .. Len(whole) BY <1>1
  <1>3. SubSeq(whole, 1, 0) = <<>> BY SubSeqEmpty
  <1>4. HasPieces(v, r, 0) BY <1>3 DEF HasPieces
  <1> QED BY <1>2, <1>4 DEF HasGot

LEMMA NewJob ==
    ASSUME FuseIInv, AnswerInv, NEW p \in Processes, NEW r, JobInv(vol, r),
           Set(p, r), UNCHANGED vol
    PROVE  AnswerInv'
  <1>1. proc' = [proc EXCEPT ![p] = r] /\ UNCHANGED <<vol, up>> BY DEF Set
  <1>2. ASSUME NEW q \in Processes PROVE JobInv(vol', proc'[q])
    <2>1. proc'[q] = IF q = p THEN r ELSE proc[q]
      BY <1>1 DEF FuseIInv, FuseTypeInv
    <2>2. JobInv(vol, proc[q]) BY DEF AnswerInv
    <2>3. JobInv(vol, proc'[q]) BY <2>1, <2>2
    <2> QED BY <1>1, <2>3
  <1>3. vol' \in Volumes /\ (up' = "aborted" => MayEnd(vol'))
    BY <1>1 DEF AnswerInv
  <1> QED BY <1>2, <1>3 DEF AnswerInv

LEMMA SameJobs ==
    ASSUME AnswerInv, UNCHANGED <<vol, proc>>, up' = "aborted" => MayEnd(vol)
    PROVE  AnswerInv'
  <1>1. \A q \in Processes : JobInv(vol', proc'[q]) BY DEF AnswerInv
  <1>2. vol' \in Volumes /\ (up' = "aborted" => MayEnd(vol')) BY DEF AnswerInv
  <1> QED BY <1>1, <1>2 DEF AnswerInv

LEMMA VolumeIsWell == AnswerInv => WellFormed(vol)
  BY MountAssumption DEF AnswerInv

\* The entry of a process that has one open.
LEMMA OpenEntryIs ==
    ASSUME FuseIInv, AnswerInv, up = "yes", NEW p \in Processes, proc[p].job # "none"
    PROVE  LET entry == NavigateTo(vol, proc[p].path)
           IN  /\ EntryOf(p) = entry /\ HasInode(vol, entry) /\ entry \notin Failures
               /\ proc[p].job = Job(entry)
               /\ LoadInode(vol, entry.id).id \in {0, entry.id}
               /\ LoadInode(vol, entry.id).type = "abort" => ShortEntry(vol)
  <1> DEFINE entry == NavigateTo(vol, proc[p].path)
  <1>1. EntryOf(p) = entry BY EntryStays
  <1>2. HasInode(vol, entry) /\ proc[p].job = Job(entry)
    BY DEF AnswerInv, JobInv, HasGot
  <1> HIDE DEF entry
  <1>3. entry \notin Failures BY <1>2 DEF HasInode, Failures, Failed, Root
  <1>4. /\ vol.keys \subseteq Keys /\ entry.id \in Nat /\ entry.id >= Root
        /\ Key(entry.id, Inode, 0) \in vol.keys
    BY <1>2, VolumeIsWell DEF HasInode, WellFormed, Keys
  <1>5. /\ LoadInode(vol, entry.id).id \in {0, entry.id}
        /\ LoadInode(vol, entry.id).type = "abort" =>
              \E k \in vol.starts : k.oid = entry.id /\ k.type = Inode
    BY <1>4, InodeIsOwn
  <1>6. LoadInode(vol, entry.id).type = "abort" => ShortEntry(vol)
    BY <1>4, <1>5 DEF ShortEntry
  <1> QED BY <1>1, <1>2, <1>3, <1>5, <1>6 DEF entry

LEMMA SameGot ==
    ASSUME NEW v, NEW r, NEW s, r.path = s.path, r.got = s.got, r.end = s.end, r.job = s.job
    PROVE  HasGot(v, r) = HasGot(v, s)
  BY DEF HasGot, HasPieces

LEMMA GetattrAnswers ==
    ASSUME FuseIInv, AnswerInv, NEW p \in Processes, Getattr(p)
    PROVE  AnswerInv'
  <1> DEFINE entry == NavigateTo(vol, proc[p].path)
             inode == LoadInode(vol, entry.id)
             r == [proc[p] EXCEPT !.stat = inode.id]
  <1>1. up = "yes" /\ proc[p].job # "none" BY DEF Getattr, Serving
  <1>2. /\ EntryOf(p) = entry /\ entry \notin Failures /\ inode.id \in {0, entry.id}
        /\ inode.type = "abort" => ShortEntry(vol)
    BY <1>1, OpenEntryIs
  <1>3. IF inode = Failed("abort") THEN Abort ELSE Set(p, r)
    BY <1>2 DEF Getattr
  <1>4. UNCHANGED vol BY DEF Getattr
  <1>5. CASE inode = Failed("abort")
    <2>1. ShortEntry(vol) BY <1>2, <1>5 DEF Failed
    <2> QED BY <1>3, <1>4, <1>5, <2>1, SameJobs DEF Abort, MayEnd
  <1>6. CASE inode # Failed("abort")
    <2>1. JobInv(vol, proc[p]) /\ IsJob(proc[p]) BY DEF AnswerInv, FuseIInv, FuseTypeInv
    <2>2. /\ r.path = proc[p].path /\ r.got = proc[p].got /\ r.end = proc[p].end
          /\ r.job = proc[p].job /\ r.stat = inode.id
      BY <2>1 DEF IsJob, Fields
    <2> HIDE DEF r, inode
    <2>3. r.job # "none" => HasGot(vol, r) BY <2>1, <2>2, SameGot DEF JobInv
    <2>4. JobInv(vol, r) BY <1>2, <2>1, <2>2, <2>3 DEF JobInv
    <2> QED BY <1>3, <1>4, <1>6, <2>4, NewJob
  <1> QED BY <1>5, <1>6

\* Whatever a process gets of a torn file.
LEMMA TornReply ==
    ASSUME FuseIInv, AnswerInv, NEW p \in Processes, proc[p].job # "none", UNCHANGED vol,
           TornFile(vol, NavigateTo(vol, proc[p].path)), NEW g, NEW e,
           Set(p, [proc[p] EXCEPT !.got = g, !.end = e])
    PROVE  AnswerInv'
  <1> DEFINE r == [proc[p] EXCEPT !.got = g, !.end = e]
  <1>1. JobInv(vol, proc[p]) /\ IsJob(proc[p]) /\ HasGot(vol, proc[p])
    BY DEF AnswerInv, JobInv, FuseIInv, FuseTypeInv
  <1>2. r.path = proc[p].path /\ r.job = proc[p].job /\ r.stat = proc[p].stat
    BY <1>1 DEF IsJob, Fields
  <1> HIDE DEF r
  <1>3. JobInv(vol, r) BY <1>1, <1>2 DEF JobInv, HasGot
  <1> QED BY <1>3, NewJob DEF r

\* A reply that is an error leaves what the process has got.
LEMMA ErrorReply ==
    ASSUME FuseIInv, AnswerInv, NEW p \in Processes, proc[p].job # "none", UNCHANGED vol,
           Set(p, [proc[p] EXCEPT !.end = "error"])
    PROVE  AnswerInv'
  <1> DEFINE entry == NavigateTo(vol, proc[p].path)
             r == [proc[p] EXCEPT !.end = "error"]
  <1>1. JobInv(vol, proc[p]) /\ IsJob(proc[p]) /\ HasGot(vol, proc[p])
    BY DEF AnswerInv, JobInv, FuseIInv, FuseTypeInv
  <1>2. /\ r.path = proc[p].path /\ r.got = proc[p].got /\ r.end = "error"
        /\ r.job = proc[p].job /\ r.stat = proc[p].stat
    BY <1>1 DEF IsJob, Fields
  <1> HIDE DEF r
  <1>3. \A n : HasPieces(vol, proc[p], n) => HasPieces(vol, r, n) BY <1>2 DEF HasPieces
  <1>4. HasGot(vol, r) BY <1>1, <1>2, <1>3 DEF HasGot
  <1>5. JobInv(vol, r) BY <1>1, <1>2, <1>4 DEF JobInv
  <1> QED BY <1>5, NewJob DEF r

\* A reply adds the pieces up to the window, or none, and that is the end.
LEMMA ReplyIsRight ==
    ASSUME FuseIInv, AnswerInv, NEW p \in Processes, proc[p].job # "none", UNCHANGED vol,
           LET entry == NavigateTo(vol, proc[p].path)
               whole == Whole(vol, entry)
               off == Len(proc[p].got)
               upto == UpTo(off, Len(whole))
           IN  /\ ~TornFile(vol, entry) /\ Listed(vol, entry)
               /\ \/ Set(p, [proc[p] EXCEPT !.got = @ \o SubSeq(whole, off + 1, upto),
                                            !.end = IF off = upto THEN "eof" ELSE "open"])
                  \/ /\ LastExtent(vol, entry, off)
                     /\ Set(p, [proc[p] EXCEPT !.got = @ \o <<>>, !.end = "eof"])
    PROVE  AnswerInv'
  <1> DEFINE entry == NavigateTo(vol, proc[p].path)
             whole == Whole(vol, entry)
             off == Len(proc[p].got)
             upto == UpTo(off, Len(whole))
             none == [proc[p] EXCEPT !.got = @ \o <<>>, !.end = "eof"]
             more == [proc[p] EXCEPT !.got = @ \o SubSeq(whole, off + 1, upto),
                                     !.end = IF off = upto THEN "eof" ELSE "open"]
  <1>1. JobInv(vol, proc[p]) /\ IsJob(proc[p]) /\ HasGot(vol, proc[p])
    BY DEF AnswerInv, JobInv, FuseIInv, FuseTypeInv
  <1>2. /\ none.path = proc[p].path /\ none.got = proc[p].got \o <<>> /\ none.end = "eof"
        /\ none.job = proc[p].job /\ none.stat = proc[p].stat
        /\ more.path = proc[p].path /\ more.job = proc[p].job /\ more.stat = proc[p].stat
        /\ more.got = proc[p].got \o SubSeq(whole, off + 1, upto)
        /\ more.end = IF off = upto THEN "eof" ELSE "open"
    BY <1>1 DEF IsJob, Fields
  <1>3. Set(p, more) \/ (LastExtent(vol, entry, off) /\ Set(p, none)) OBVIOUS
  <1> HIDE DEF none, more
  <1>4. ~TornFile(vol, entry) /\ Listed(vol, entry) OBVIOUS
  <1>5. PICK n \in 0 .. Len(whole) : HasPieces(vol, proc[p], n) BY <1>1, <1>4 DEF HasGot
  <1>6. HasInode(vol, entry) /\ proc[p].job = Job(entry) BY <1>1 DEF HasGot
  <1>7. whole \in Seq(Pieces(vol, entry)) BY <1>6, VolumeIsWell, WholeIsSeq
  <1>8. proc[p].got = SubSeq(whole, 1, n) BY <1>5 DEF HasPieces
  <1>9. off = n /\ proc[p].got \o <<>> = proc[p].got
    <2> HIDE DEF whole
    <2>1. SubSeq(whole, 1, n) \in Seq(Pieces(vol, entry))
      BY <1>7, FirstPieces
    <2> QED BY <1>7, <1>8, <2>1, GotMore
  <1>10. CASE Set(p, none) /\ LastExtent(vol, entry, off)
    <2>1. HasPieces(vol, none, n) BY <1>2, <1>4, <1>8, <1>9, <1>10 DEF HasPieces
    <2>2. HasGot(vol, none) BY <1>2, <1>5, <1>6, <2>1 DEF HasGot
    <2>3. JobInv(vol, none) BY <1>1, <1>2, <2>2 DEF JobInv
    <2> QED BY <1>10, <2>3, NewJob
  <1>11. CASE Set(p, more)
    <2>1. /\ upto \in 0 .. Len(whole) /\ (off = upto => upto = Len(whole))
          /\ more.got = SubSeq(whole, 1, upto)
      <3> HIDE DEF whole
      <3>1. upto = UpTo(n, Len(whole)) BY <1>9
      <3>2. /\ UpTo(n, Len(whole)) \in 0 .. Len(whole)
            /\ n = UpTo(n, Len(whole)) => n = Len(whole)
            /\ SubSeq(whole, 1, n) \o SubSeq(whole, n + 1, UpTo(n, Len(whole)))
                  = SubSeq(whole, 1, UpTo(n, Len(whole)))
        BY <1>7, GotMore
      <3>3. more.got = SubSeq(whole, 1, n) \o SubSeq(whole, n + 1, upto)
        BY <1>2, <1>8, <1>9
      <3> HIDE DEF off, upto
      <3> QED BY <1>9, <3>1, <3>2, <3>3
    <2> HIDE DEF upto
    <2>2. HasPieces(vol, more, upto) BY <1>2, <1>4, <2>1 DEF HasPieces
    <2>3. HasGot(vol, more) BY <1>2, <1>6, <2>1, <2>2 DEF HasGot
    <2>4. JobInv(vol, more) BY <1>1, <1>2, <2>3 DEF JobInv
    <2> QED BY <1>11, <2>4, NewJob
  <1> QED BY <1>3, <1>10, <1>11

LEMMA NoElement == ASSUME NEW c PROVE [i \in 1 .. 0 |-> c] = <<>>
  OBVIOUS

\* What read_file writes of a file that is not torn: the bytes asked for, or nothing
\* in the last extent.
LEMMA ReadFileIs ==
    ASSUME NEW v, WellFormed(v), NEW id \in DOMAIN v.bytes, Torn(v, id, 0) = {},
           NEW off \in 0 .. Len(v.bytes[id]), NEW upto \in off .. Len(v.bytes[id]),
           NEW reply \in ReadFile(v, id, off, upto)
    PROVE  \/ reply.how = "error"
           \/ reply.how = "ok" /\ reply.bytes = <<>> /\ off = upto
           \/ reply.how = "ok" /\ reply.bytes = <<>> /\ ExtentIsLast(v, id, off)
           \/ /\ reply.how = "ok" /\ off # upto
              /\ reply.bytes = SubSeq(v.bytes[id], off + 1, upto)
  <1> DEFINE torn == {k.sub : k \in Torn(v, id, off)} \cap off .. upto - 1
             part == SubSeq(v.bytes[id], off + 1, upto)
  <1>1. v.bytes[id] \in Seq(Range(v.bytes[id])) BY DEF WellFormed
  <1>2. off \in Nat /\ upto \in Nat /\ upto <= Len(v.bytes[id]) BY <1>1
  <1>3. torn = {}
    <2>1. \A k \in Extents(v, id) : k.sub \in Nat BY DEF Extents, WellFormed
    <2>2. Torn(v, id, off) = {} BY <1>2, <2>1 DEF Torn
    <2> QED BY <2>2
  <1>4. part \in Seq(Range(v.bytes[id]))
    <2>1. \A i \in off + 1 .. upto : v.bytes[id][i] \in Range(v.bytes[id])
      BY <1>1, <1>2, ElementOfSeq
    <2> QED BY <1>2, <2>1, SubSeqProperties
  <1>5. part \o [i \in 1 .. 0 |-> "other"] = part BY <1>4, NoElement
  <1>6. \A n \in 0 .. upto - upto : n = 0 BY <1>2
  <1> DEFINE sure == IF torn = {} THEN upto ELSE Min(torn)
             written == {[how |-> "ok", bytes |-> SubSeq(v.bytes[id], off + 1, sure)
                                                    \o [i \in 1 .. n |-> "other"]] :
                            n \in 0 .. upto - sure}
  <1>7. \/ reply = [how |-> "ok", bytes |-> <<>>] /\ off = upto
        \/ reply = [how |-> "error", bytes |-> <<>>]
        \/ reply = [how |-> "ok", bytes |-> <<>>] /\ ExtentIsLast(v, id, off)
        \/ off # upto /\ reply \in written
    BY DEF ReadFile
  <1>8. reply \in written => reply = [how |-> "ok", bytes |-> part]
    <2> SUFFICES ASSUME reply \in written PROVE reply = [how |-> "ok", bytes |-> part] OBVIOUS
    <2>1. sure = upto BY <1>3
    <2>2. PICK n \in 0 .. upto - upto :
              reply = [how |-> "ok", bytes |-> part \o [i \in 1 .. n |-> "other"]]
      BY <2>1
    <2>3. n = 0 BY <1>6
    <2> QED BY <1>5, <2>2, <2>3
  <1> HIDE DEF written, part
  <1>9. CASE reply \in written /\ off # upto
    <2>1. reply.how = "ok" /\ reply.bytes = part BY <1>8, <1>9
    <2> QED BY <1>9, <2>1 DEF part
  <1> QED BY <1>7, <1>9

LEMMA ReadAnswers ==
    ASSUME FuseIInv, AnswerInv, NEW p \in Processes, Read(p)
    PROVE  AnswerInv'
  <1> DEFINE entry == NavigateTo(vol, proc[p].path)
             bytes == vol.bytes[entry.id]
             off == Len(proc[p].got)
             upto == IF off + Window < Len(bytes) THEN off + Window ELSE Len(bytes)
             inode == LoadInode(vol, entry.id)
  <1>1. up = "yes" /\ proc[p].job = "file" /\ UNCHANGED vol BY DEF Read, Serving
  <1>2. /\ EntryOf(p) = entry /\ entry \notin Failures /\ proc[p].job = Job(entry)
        /\ HasInode(vol, entry) /\ (inode.type = "abort" => ShortEntry(vol))
    BY <1>1, OpenEntryIs
  <1>3. entry.type # "dir" BY <1>1, <1>2 DEF Job
  <1>4. \/ inode = Failed("abort") /\ Abort
        \/ Set(p, [proc[p] EXCEPT !.end = "error"])
        \/ /\ ~(off > Len(bytes))
           /\ \E reply \in ReadFile(vol, entry.id, off, upto) :
                 Set(p, IF reply.how = "error" THEN [proc[p] EXCEPT !.end = "error"]
                        ELSE [proc[p] EXCEPT !.got = @ \o reply.bytes,
                                 !.end = IF reply.bytes = <<>> THEN "eof" ELSE "open"])
    BY <1>2 DEF Read
  <1>5. CASE inode = Failed("abort") /\ Abort
    <2>1. ShortEntry(vol) BY <1>2, <1>5 DEF Failed
    <2> QED BY <1>1, <1>5, <2>1, SameJobs DEF Abort, MayEnd
  <1>6. CASE Set(p, [proc[p] EXCEPT !.end = "error"]) BY <1>1, <1>6, ErrorReply
  <1>7. ASSUME NEW reply \in ReadFile(vol, entry.id, off, upto), reply.how # "error",
               Set(p, [proc[p] EXCEPT !.got = @ \o reply.bytes,
                           !.end = IF reply.bytes = <<>> THEN "eof" ELSE "open"])
        PROVE  AnswerInv'
    <2>1. CASE TornFile(vol, entry) BY <1>1, <1>7, <2>1, TornReply
    <2>2. CASE ~TornFile(vol, entry)
      <3>1. Torn(vol, entry.id, 0) = {} /\ entry.id \in DOMAIN vol.bytes /\ WellFormed(vol)
        BY <1>2, <1>3, <2>2, VolumeIsWell DEF TornFile, HasInode
      <3>2. bytes = Whole(vol, entry) /\ Listed(vol, entry) /\ upto = UpTo(off, Len(bytes))
        BY <1>3 DEF Whole, Listed, UpTo
      <3>3. /\ off \in 0 .. Len(bytes) /\ upto \in off .. Len(bytes)
            /\ off # upto => SubSeq(bytes, off + 1, upto) # <<>>
            /\ off = upto => SubSeq(bytes, off + 1, upto) = <<>>
        <4>1. HasGot(vol, proc[p]) BY <1>1 DEF AnswerInv, JobInv
        <4> HIDE DEF bytes, entry
        <4>2. PICK n \in 0 .. Len(bytes) : HasPieces(vol, proc[p], n)
          BY <2>2, <3>2, <4>1 DEF HasGot, entry
        <4>3. bytes \in Seq(Range(bytes)) BY <3>1 DEF WellFormed, bytes
        <4>4. proc[p].got = SubSeq(bytes, 1, n) BY <3>2, <4>2 DEF HasPieces, entry
        <4>5. off = n BY <4>3, <4>4, GotMore
        <4>6. off \in 0 .. Len(bytes) /\ Len(bytes) \in Nat BY <4>3, <4>5
        <4> HIDE DEF off
        <4>7. upto \in off .. Len(bytes) /\ upto <= Len(bytes) /\ upto \in Nat
          BY <4>6, MountAssumption
        <4> HIDE DEF upto
        <4>8. CASE off = upto BY <4>6, <4>8, SubSeqEmpty
        <4>9. CASE off # upto
          <5>1. \A i \in off + 1 .. upto : bytes[i] \in Range(bytes)
            BY <4>3, <4>6, <4>7, ElementOfSeq
          <5>2. Len(SubSeq(bytes, off + 1, upto)) = upto - off
            BY <4>6, <4>7, <4>9, <5>1, SubSeqProperties
          <5> QED BY <4>6, <4>7, <4>9, <5>2
        <4> QED BY <4>6, <4>7, <4>8, <4>9
      <3>4. \/ reply.bytes = <<>> /\ ExtentIsLast(vol, entry.id, off)
            \/ reply.bytes = SubSeq(bytes, off + 1, upto)
        <4>1. /\ off \in 0 .. Len(vol.bytes[entry.id]) /\ upto \in off .. Len(vol.bytes[entry.id])
              /\ SubSeq(bytes, off + 1, upto) = SubSeq(vol.bytes[entry.id], off + 1, upto)
              /\ off = upto => SubSeq(bytes, off + 1, upto) = <<>>
          BY <3>3
        <4> HIDE DEF bytes, entry, off, upto
        <4>2. \/ reply.bytes = <<>> /\ off = upto
              \/ reply.bytes = <<>> /\ ExtentIsLast(vol, entry.id, off)
              \/ reply.bytes = SubSeq(vol.bytes[entry.id], off + 1, upto)
          <5>1. reply \in ReadFile(vol, entry.id, off, upto) /\ reply.how # "error" BY <1>7
          <5> QED BY <3>1, <4>1, <5>1, ReadFileIs
        <4> QED BY <4>1, <4>2
      <3>5. CASE reply.bytes = <<>> /\ ExtentIsLast(vol, entry.id, off)
        <4>1. LastExtent(vol, entry, off) BY <1>3, <3>5 DEF LastExtent
        <4>2. Set(p, [proc[p] EXCEPT !.got = @ \o <<>>, !.end = "eof"]) BY <1>7, <3>5
        <4> HIDE DEF bytes, upto
        <4> QED BY <1>1, <2>2, <3>2, <4>1, <4>2, ReplyIsRight
      <3>6. CASE reply.bytes = SubSeq(bytes, off + 1, upto)
        <4>1. Set(p, [proc[p] EXCEPT !.got = @ \o SubSeq(bytes, off + 1, upto),
                                     !.end = IF off = upto THEN "eof" ELSE "open"])
          BY <1>7, <3>3, <3>6
        <4> HIDE DEF bytes, upto
        <4> QED BY <1>1, <2>2, <3>2, <4>1, ReplyIsRight
      <3> QED BY <3>4, <3>5, <3>6
    <2> QED BY <2>1, <2>2
  <1> QED BY <1>4, <1>5, <1>6, <1>7

LEMMA ReaddirAnswers ==
    ASSUME FuseIInv, AnswerInv, NEW p \in Processes, Readdir(p)
    PROVE  AnswerInv'
  <1> DEFINE entry == EntryOf(p)
             list == ListChildren(vol, entry.id)
             chs == list.keys
             off == Len(proc[p].got)
             upto == IF off + Window < Len(chs) THEN off + Window ELSE Len(chs)
             tried == off + 1 .. IF upto < Len(chs) THEN upto + 1 ELSE upto
             How(i) == LoadInode(vol, vol.entry[chs[i]].id).type
             failing == {i \in tried : How(i) # "inode"}
             how == IF list.how # "ok" THEN list.how
                    ELSE IF failing # {} THEN How(Min(failing)) ELSE "ok"
  <1>1. up = "yes" /\ proc[p].job = "dir" /\ UNCHANGED vol BY DEF Readdir, Serving
  <1>2. /\ entry = NavigateTo(vol, proc[p].path) /\ entry \notin Failures /\ proc[p].job = Job(entry)
        /\ HasInode(vol, entry)
    BY <1>1, OpenEntryIs
  <1>3. entry.type = "dir" BY <1>1, <1>2 DEF Job
  <1>4. IF how = "abort" THEN Abort
        ELSE IF how = "error" THEN Set(p, [proc[p] EXCEPT !.end = "error"])
        ELSE Set(p, [proc[p] EXCEPT !.got = @ \o SubSeq(chs, off + 1, upto),
                                    !.end = IF off = upto THEN "eof" ELSE "open"])
    BY <1>2 DEF Readdir, ResumeAt
  <1>5. /\ chs \in Seq(Names(vol, entry.id)) /\ list.how \in {"ok", "error", "abort"}
        /\ list.how = "abort" => ShortEntry(vol)
    BY <1>2, VolumeIsWell, ListingIs DEF HasInode, Listing
  <1>6. PICK n \in 0 .. Len(chs) : HasPieces(vol, proc[p], n)
    <2> HIDE DEF entry
    <2>1. HasGot(vol, proc[p]) BY <1>1 DEF AnswerInv, JobInv
    <2>2. chs = Whole(vol, entry) /\ ~TornFile(vol, entry) BY <1>3 DEF Whole, TornFile
    <2> HIDE DEF chs
    <2> QED BY <1>2, <2>1, <2>2 DEF HasGot
  <1>7. off = n
    <2> HIDE DEF entry
    <2>1. chs = Whole(vol, entry) BY <1>3 DEF Whole
    <2> HIDE DEF chs
    <2>2. proc[p].got = SubSeq(chs, 1, n) BY <1>2, <1>6, <2>1 DEF HasPieces
    <2> QED BY <1>5, <2>2, GotMore
  <1>8. ASSUME NEW i \in tried PROVE How(i) = "abort" => ShortEntry(vol)
    <2>1. i \in 1 .. Len(chs)
      <3> HIDE DEF off, chs
      <3>1. Len(chs) \in Nat /\ n \in Nat /\ n <= Len(chs) /\ Window \in Nat
        BY <1>5, MountAssumption
      <3> QED BY <1>7, <3>1
    <2>2. chs[i] \in Names(vol, entry.id) BY <1>5, <2>1
    <2>3. HasInode(vol, vol.entry[chs[i]]) BY <2>2, VolumeIsWell DEF WellFormed, Names
    <2> DEFINE id == vol.entry[chs[i]].id
    <2>4. id \in Nat /\ id >= Root /\ Key(id, Inode, 0) \in vol.keys /\ vol.keys \subseteq Keys
      BY <2>3, VolumeIsWell DEF HasInode, WellFormed, Keys
    <2> HIDE DEF id
    <2>5. LoadInode(vol, id).type = "abort" =>
              \E k \in vol.starts : k.oid = id /\ k.type = Inode
      BY <2>4, InodeIsOwn
    <2>6. LoadInode(vol, id).type = "abort" => ShortEntry(vol) BY <2>4, <2>5 DEF ShortEntry
    <2> QED BY <2>6 DEF id
  <1>9. failing # {} => Min(failing) \in tried
    <2> SUFFICES ASSUME failing # {} PROVE Min(failing) \in tried OBVIOUS
    <2>1. tried \subseteq Nat
      <3> HIDE DEF off, chs
      <3>1. n \in Nat BY <1>6
      <3> QED BY <1>7, <3>1
    <2>2. failing \in SUBSET Nat /\ failing \subseteq tried BY <2>1
    <2> HIDE DEF failing, tried
    <2>3. HasLeast(failing) BY <2>2, NumbersHaveLeast
    <2> QED BY <2>2, <2>3 DEF HasLeast, Min
  <1> HIDE DEF How, failing, tried
  <1>10. how = "abort" => ShortEntry(vol) BY <1>5, <1>8, <1>9
  <1>11. how # "abort" /\ how # "error" => list.how = "ok" BY <1>5
  <1> HIDE DEF how
  <1>12. CASE how = "abort"
    BY <1>1, <1>4, <1>10, <1>12, SameJobs DEF Abort, MayEnd
  <1>13. CASE how # "abort"
    <2>1. chs = Whole(vol, entry) /\ upto = UpTo(off, Len(chs)) BY <1>3 DEF Whole, UpTo
    <2>2. how # "error" => Listed(vol, entry) BY <1>11, <1>13 DEF Listed
    <2>3. ~TornFile(vol, entry) BY <1>3 DEF TornFile
    <2>4. CASE how = "error" BY <1>1, <1>4, <1>13, <2>4, ErrorReply
    <2> HIDE DEF chs, upto, entry
    <2>5. CASE how # "error"
      BY <1>1, <1>2, <1>4, <1>13, <2>1, <2>2, <2>3, <2>5, ReplyIsRight
    <2> QED BY <2>4, <2>5
  <1> QED BY <1>12, <1>13

LEMMA SeekAnswers ==
    ASSUME FuseIInv, AnswerInv, NEW p \in Processes, NEW m, Seek(p, m)
    PROVE  AnswerInv'
  <1> DEFINE entry == NavigateTo(vol, proc[p].path)
             whole == Whole(vol, entry)
             r == [proc[p] EXCEPT !.got = SubSeq(@, 1, m), !.end = "open"]
  <1>1. proc[p].job # "none" /\ m \in 0 .. Len(proc[p].got) /\ Set(p, r) /\ UNCHANGED vol
    BY DEF Seek
  <1>2. JobInv(vol, proc[p]) /\ IsJob(proc[p]) /\ HasGot(vol, proc[p])
    BY <1>1 DEF AnswerInv, JobInv, FuseIInv, FuseTypeInv
  <1>3. /\ r.path = proc[p].path /\ r.job = proc[p].job /\ r.stat = proc[p].stat
        /\ r.got = SubSeq(proc[p].got, 1, m) /\ r.end = "open"
    BY <1>2 DEF IsJob, Fields
  <1> HIDE DEF r
  <1>13. CASE TornFile(vol, entry)
    <2>1. HasGot(vol, r) BY <1>2, <1>3, <1>13 DEF HasGot
    <2>2. JobInv(vol, r) BY <1>2, <1>3, <2>1 DEF JobInv
    <2> QED BY <1>1, <2>2, NewJob
  <1> SUFFICES ASSUME ~TornFile(vol, entry) PROVE AnswerInv' BY <1>13
  <1>4. PICK n \in 0 .. Len(whole) : HasPieces(vol, proc[p], n) BY <1>2 DEF HasGot
  <1>5. HasInode(vol, entry) /\ proc[p].job = Job(entry) BY <1>2 DEF HasGot
  <1>6. whole \in Seq(Pieces(vol, entry)) BY <1>5, VolumeIsWell, WholeIsSeq
  <1>7. proc[p].got = SubSeq(whole, 1, n) /\ (n # 0 => Listed(vol, entry))
    BY <1>4 DEF HasPieces
  <1>8. m \in 0 .. n /\ r.got = SubSeq(whole, 1, m)
    <2> HIDE DEF whole
    <2>1. m \in 0 .. Len(SubSeq(whole, 1, n)) BY <1>1, <1>7
    <2>2. m \in 0 .. n /\ SubSeq(SubSeq(whole, 1, n), 1, m) = SubSeq(whole, 1, m)
      BY <1>6, <2>1, GotLess
    <2> QED BY <1>3, <1>7, <2>2
  <1>9. m \in 0 .. Len(whole) /\ (m # 0 => n # 0)
    <2> HIDE DEF whole
    <2>1. Len(whole) \in Nat BY <1>6
    <2> QED BY <1>8, <2>1
  <1>10. HasPieces(vol, r, m) BY <1>3, <1>7, <1>8, <1>9 DEF HasPieces
  <1>11. HasGot(vol, r) BY <1>3, <1>5, <1>9, <1>10 DEF HasGot
  <1>12. JobInv(vol, r) BY <1>2, <1>3, <1>11 DEF JobInv
  <1> QED BY <1>1, <1>12, NewJob

LEMMA IdleJob == JobInv(vol, Idle)
  BY DEF JobInv, Idle

LEMMA OpenAnswers ==
    ASSUME FuseIInv, AnswerInv, NEW p \in Processes, NEW path \in Paths, Open(p, path)
    PROVE  AnswerInv'
  <1> DEFINE entry == NavigateTo(vol, path)
             job == [Idle EXCEPT !.job = Job(entry), !.path = path]
             open == [job EXCEPT !.fh = fd]
  <1>1. /\ UNCHANGED vol
        /\ \/ Abort /\ entry = Failed("abort")
           \/ /\ entry # Failed("abort") /\ entry # Failed("error")
              /\ Set(p, job) \/ Set(p, open)
    BY DEF Open
  <1>2. path \in Seq(Nat) BY MountAssumption
  <1>3. Known(vol, entry, ShortEntry(vol) \/ PassesEndlessLink(vol, path))
    BY <1>2, PathIsKnown, VolumeIsWell
  <1>4. CASE Abort /\ entry = Failed("abort")
    <2>1. MayEnd(vol)
      BY <1>3, <1>4 DEF Known, HasInode, Failed, Root, MayEnd
    <2> QED BY <1>1, <1>4, <2>1, SameJobs DEF Abort, MayEnd
  <1>5. ASSUME NEW r \in {job, open}, Set(p, r),
               entry # Failed("abort"), entry # Failed("error")
        PROVE  AnswerInv'
    <2>1. /\ r.path = path /\ r.job = Job(entry) /\ r.got = <<>>
          /\ r.end = "open" /\ r.stat = 0
      BY DEF Idle
    <2> HIDE DEF job, open
    <2>2. HasInode(vol, NavigateTo(vol, r.path)) /\ r.job = Job(NavigateTo(vol, r.path))
      BY <1>3, <1>5, <2>1 DEF Known
    <2>3. HasGot(vol, r) BY <2>1, <2>2, NothingGot, VolumeIsWell
    <2>4. JobInv(vol, r) BY <1>2, <2>1, <2>3 DEF JobInv
    <2> QED BY <1>1, <1>5, <2>4, NewJob
  <1> HIDE DEF job, open, entry
  <1> QED BY <1>1, <1>4, <1>5

LEMMA AnswerInit == Init => AnswerInv
  <1> SUFFICES ASSUME Init PROVE AnswerInv OBVIOUS
  <1>1. \A p \in Processes : proc[p] = Idle BY DEF Init
  <1>2. \A p \in Processes : JobInv(vol, proc[p]) BY <1>1, IdleJob
  <1> QED BY <1>2 DEF Init, AnswerInv

LEMMA AnswerStep == FuseIInv /\ AnswerInv /\ [Next]_vars => AnswerInv'
  <1> SUFFICES ASSUME FuseIInv, AnswerInv, [Next]_vars PROVE AnswerInv' OBVIOUS
  <1>1. CASE UNCHANGED vars \/ Mount \/ Destroy \/ \E h \in closing : Release(h)
    <2>1. UNCHANGED <<vol, proc>> /\ (up' = "aborted" => up = "aborted")
      BY <1>1 DEF vars, Mount, Destroy, Release
    <2> QED BY <2>1, SameJobs DEF AnswerInv
  <1>2. ASSUME NEW p \in Processes, NEW path \in Paths, Open(p, path) PROVE AnswerInv'
    BY <1>2, OpenAnswers
  <1>3. ASSUME NEW p \in Processes, Getattr(p) PROVE AnswerInv' BY <1>3, GetattrAnswers
  <1>4. ASSUME NEW p \in Processes, Read(p) PROVE AnswerInv' BY <1>4, ReadAnswers
  <1>5. ASSUME NEW p \in Processes, Readdir(p) PROVE AnswerInv' BY <1>5, ReaddirAnswers
  <1>6. ASSUME NEW p \in Processes, NEW n \in 0 .. Len(proc[p].got), Seek(p, n)
        PROVE  AnswerInv'
    BY <1>6, SeekAnswers
  <1>7. ASSUME NEW p \in Processes, Close(p) PROVE AnswerInv'
    <2>1. Set(p, Idle) /\ UNCHANGED vol BY <1>7 DEF Close
    <2> QED BY <1>7, <2>1, IdleJob, NewJob
  <1> QED BY <1>1, <1>2, <1>3, <1>4, <1>5, <1>6, <1>7 DEF Next

\* What every process has been given and told, in every state of a mount.
THEOREM AnswersInvariant == Spec => [](FuseIInv /\ AnswerInv)
  BY FuseInit, FuseStep, AnswerInit, AnswerStep, PTL DEF Spec

\* getattr answers with the inode of the entry it is asked about or with an error.
THEOREM StatIsRight == Spec => []StatIsOfPath
  <1>1. AnswerInv => StatIsOfPath BY DEF AnswerInv, JobInv, StatIsOfPath
  <1> QED BY <1>1, AnswersInvariant, PTL

\* Only an index entry of an inode or a directory record ends the program, or a path
\* that passes a link whose target is never reached.
THEOREM AbortsHaveCulprit == Spec => []AbortHasCause
  <1>1. AnswerInv => AbortHasCause
    BY DEF AnswerInv, MayEnd, AbortHasCause
  <1> QED BY <1>1, AnswersInvariant, PTL

-----------------------------------------------------------------------------
(* The names and the bytes *)

LEMMA NamesAreMeant ==
    ASSUME NEW v, WellFormed(v), NEW dir \in Nat, dir >= Root,
           NEW n \in 0 .. Len(ListChildren(v, dir).keys), NEW got,
           got = SubSeq(ListChildren(v, dir).keys, 1, n)
    PROVE  /\ BeginsNames(got, Names(v, dir))
           /\ n = Len(ListChildren(v, dir).keys) /\ ListChildren(v, dir).how = "ok" =>
                 Range(got) = Names(v, dir)
  <1> DEFINE list == ListChildren(v, dir)
             chs == list.keys
  <1>1. Listing(v, dir, Start(dir), list) BY ListingIs
  <1>2. chs \in Seq(Names(v, dir)) BY <1>1 DEF Listing
  <1> SUFFICES ASSUME n \in 0 .. Len(chs), got = SubSeq(chs, 1, n)
               PROVE  /\ BeginsNames(got, Names(v, dir))
                      /\ n = Len(chs) /\ list.how = "ok" => Range(got) = Names(v, dir)
    OBVIOUS
  <1> HIDE DEF list
  <1>3. /\ DOMAIN got = 1 .. n
        /\ \A i \in 1 .. n : i \in 1 .. Len(chs) /\ got[i] = chs[i] /\ got[i] \in Names(v, dir)
    BY <1>2, FirstPieces
  <1>4. Names(v, dir) \subseteq Keys BY DEF Names, WellFormed, Keys
  <1>5. ASSUME NEW k \in Names(v, dir) PROVE Less(Start(dir), k)
    <2>1. k \in Keys /\ k.oid = dir /\ k.type = DirRec /\ k.sub # 0
      BY <1>4, <1>5 DEF Names, WellFormed
    <2>2. /\ Start(dir) \in Keys /\ Start(dir).oid = dir
          /\ Start(dir).type = DirRec /\ Start(dir).sub = 0
      BY StartIsKey
    <2> QED BY <2>1, <2>2 DEF Less, Keys
  <1>6. \A i, j \in 1 .. Len(chs) : i < j => Less(chs[i], chs[j]) BY <1>1 DEF Listing
  <1>7. ASSUME NEW i \in 1 .. n, NEW k \in Names(v, dir), Less(k, got[i])
        PROVE  k \in Range(got)
    <2>1. PICK j \in 1 .. Len(chs) : chs[j] = k
      BY <1>1, <1>3, <1>5, <1>7 DEF Listing
    <2>2. j < i
      <3>1. /\ Less(chs[j], chs[i]) /\ chs[i] \in Keys /\ chs[j] \in Keys
            /\ i \in 1 .. Len(chs)
        BY <1>3, <1>4, <1>7, <2>1
      <3>2. ~Less(chs[i], chs[j]) /\ chs[i] # chs[j] BY <3>1, LessIsOrder
      <3>3. ~(i < j) /\ i # j BY <1>6, <3>1, <3>2
      <3> QED BY <3>3
    <2>3. j \in 1 .. n /\ got[j] = k BY <1>3, <2>1, <2>2
    <2> QED BY <1>3, <2>3 DEF Range
  <1>8. BeginsNames(got, Names(v, dir)) BY <1>3, <1>6, <1>7 DEF BeginsNames
  <1>9. ASSUME n = Len(chs), list.how = "ok" PROVE Range(got) = Names(v, dir)
    <2>1. \A k \in Names(v, dir) : \E j \in 1 .. n : chs[j] = k
      BY <1>1, <1>5, <1>9 DEF Listing
    <2> QED BY <1>3, <2>1 DEF Range
  <1> QED BY <1>8, <1>9

\* What a process has got of a file or a directory is the beginning of what the
\* records say, and all of it at the end.
THEOREM GotMeant == Spec => []GotIsMeant
  <1>1. AnswerInv => GotIsMeant
    <2> SUFFICES ASSUME AnswerInv, NEW p \in Processes, proc[p].job # "none"
                 PROVE  LET entry == NavigateTo(vol, proc[p].path)
                            got == proc[p].got
                            all == proc[p].end = "eof"
                        IN  IF entry.type = "dir"
                            THEN /\ BeginsNames(got, Names(vol, entry.id))
                                 /\ all => Range(got) = Names(vol, entry.id)
                            ELSE Torn(vol, entry.id, 0) = {} =>
                                    /\ IsPrefix(got, vol.bytes[entry.id])
                                    /\ all => \/ got = vol.bytes[entry.id]
                                              \/ ExtentIsLast(vol, entry.id, Len(got))
      BY DEF GotIsMeant
    <2> DEFINE entry == NavigateTo(vol, proc[p].path)
               whole == Whole(vol, entry)
    <2>1. HasInode(vol, entry) BY DEF AnswerInv, JobInv, HasGot
    <2>7. CASE TornFile(vol, entry) BY <2>7 DEF TornFile
    <2> SUFFICES ASSUME ~TornFile(vol, entry)
                 PROVE  IF entry.type = "dir"
                        THEN /\ BeginsNames(proc[p].got, Names(vol, entry.id))
                             /\ proc[p].end = "eof" => Range(proc[p].got) = Names(vol, entry.id)
                        ELSE /\ IsPrefix(proc[p].got, vol.bytes[entry.id])
                             /\ proc[p].end = "eof" =>
                                   \/ proc[p].got = vol.bytes[entry.id]
                                   \/ ExtentIsLast(vol, entry.id, Len(proc[p].got))
      BY <2>7
    <2>2. PICK n \in 0 .. Len(whole) : HasPieces(vol, proc[p], n)
      BY DEF AnswerInv, JobInv, HasGot
    <2>3. /\ proc[p].got = SubSeq(whole, 1, n)
          /\ proc[p].end = "eof" => /\ n = Len(whole) \/ LastExtent(vol, entry, n)
                                    /\ Listed(vol, entry)
      BY <2>2 DEF HasPieces
    <2>4. whole \in Seq(Pieces(vol, entry)) BY <2>1, VolumeIsWell, WholeIsSeq
    <2> HIDE DEF entry
    <2>5. CASE entry.type = "dir"
      <3>1. whole = ListChildren(vol, entry.id).keys BY <2>5 DEF Whole
      <3>2. Listed(vol, entry) => ListChildren(vol, entry.id).how = "ok" BY <2>5 DEF Listed
      <3>3. entry.id \in Nat /\ entry.id >= Root BY <2>1 DEF HasInode
      <3>4. ~LastExtent(vol, entry, n) BY <2>5 DEF LastExtent
      <3> QED BY <2>3, <2>5, <3>1, <3>2, <3>3, <3>4, NamesAreMeant, VolumeIsWell
    <2>6. CASE entry.type # "dir"
      <3>1. whole = vol.bytes[entry.id] BY <2>6 DEF Whole
      <3> HIDE DEF whole
      <3>2. /\ IsPrefix(proc[p].got, whole) /\ Len(proc[p].got) = n
            /\ n = Len(whole) => proc[p].got = whole
        <4> DEFINE got == proc[p].got
        <4>1. got = SubSeq(whole, 1, n) BY <2>3
        <4> HIDE DEF got
        <4>2. /\ IsPrefix(got, whole) /\ Len(got) = n
              /\ n = Len(whole) => got = whole
          <5>1. n \in 0 .. Len(whole) BY <2>2
          <5>2. IsPrefix(got, whole) BY <2>4, <4>1, <5>1, FirstPieces, ZenonT(30)
          <5>3. Len(got) = n BY <2>4, <4>1, <5>1, GotMore
          <5>4. n = Len(whole) => got = whole BY <2>4, <4>1, <5>1, FirstPieces, ZenonT(30)
          <5> QED BY <5>2, <5>3, <5>4
        <4> QED BY <4>2 DEF got
      <3>3. LastExtent(vol, entry, n) => ExtentIsLast(vol, entry.id, n) BY DEF LastExtent
      <3> QED BY <2>3, <2>6, <3>1, <3>2, <3>3
    <2> QED BY <2>5, <2>6
  <1> QED BY <1>1, AnswersInvariant, PTL
=============================================================================
