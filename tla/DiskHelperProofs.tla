-------------------------- MODULE DiskHelperProofs --------------------------
(***************************************************************************)
(* Theorems about the disk helper and their proofs, for any number of      *)
(* daemons, drives, pipe instances and handle values.                      *)
(*                                                                         *)
(* The inductive invariant follows a request: the connection is the        *)
(* client's (ConnInv, ClientInv), each handle value of the helper names    *)
(* what its thread takes it for and no other thread has it (TableInv), and *)
(* a client's process owns the drives it knows of and the one that is on   *)
(* its way to it (OwnedInv).                                               *)
(***************************************************************************)
EXTENDS DiskHelper, WellFoundedInduction, TLAPS

Jobs == Disks \cup {List}
States == {"off", "idle", "connecting", "waiting", "mounted", "dead"}
Places == {"none", "read", "process", "duplicate", "close disk", "reply"}
Busy == {"process", "duplicate", "close disk", "reply"}

ClientRecords == [st : States, want : Jobs \cup {None}, conn : Connections \cup {0},
                  inbox : Answers \cup {None}, todo : SUBSET Disks, files : SUBSET Disks]
ClientType == client \in [Clients -> ClientRecords]
ConnRecords == [st : {"none", "listening", "connected"}, client : Clients \cup {None},
                request : Jobs \cup {None}, open : BOOLEAN]
ConnType == conn \in [Connections -> ConnRecords]
ThreadRecords == [pc : Places, pipe : Handles \cup {0}, disk : Handles \cup {0},
                  process : Handles \cup {0}]
ThreadType == thread \in [Connections -> ThreadRecords]
\* Named parts: gui, helper and misclosed range over a few values; the table's
\* domain is made of handle values.
TypeInv ==
    /\ gui \in {"prompt", "running", "gone"} /\ helper \in {"none", "up", "gone"}
    /\ ClientType /\ ConnType /\ ThreadType
    /\ DOMAIN table \subseteq Handles
    /\ DOMAIN owned = Clients /\ attached \subseteq Disks
    /\ misclosed \in BOOLEAN

\* A connection: who has its end, and what becomes of its request.
ConnOk(t) ==
    /\ conn[t].st = "none" => thread[t] = NoThread /\ conn[t] = NoConn
    /\ conn[t].st = "listening" => thread[t].pc = "none" /\ ~conn[t].open /\ conn[t].request = None
    /\ conn[t].st = "connected" => conn[t].client \in Clients /\ client[conn[t].client].st # "off"
    /\ conn[t].open => conn[t].st = "connected" /\ client[conn[t].client].conn = t
    /\ thread[t].pc # "none" => conn[t].st = "connected"
    /\ thread[t].pc \in Busy => conn[t].request \in Disks
    /\ conn[t].request # None /\ ~conn[t].open => client[conn[t].client].st = "dead"
    /\ thread[t].pc = "close disk" => client[conn[t].client].st = "dead"
    /\ helper # "up" => conn[t].st = "none"
ConnInv == \A t \in Connections : ConnOk(t)

\* A client: its connection is its own, and its request is there until the answer is.
ClientOk(c) ==
    /\ client[c].st # "waiting" => client[c].conn = 0 /\ client[c].inbox = None
    /\ client[c].st = "off" => client[c].files = {} /\ owned[c] = {}
    /\ client[c].st \in {"connecting", "waiting"} => client[c].want \in Jobs
    /\ client[c].st = "waiting" /\ helper # "gone" => client[c].conn # 0
    /\ client[c].conn # 0 =>
          /\ conn[client[c].conn].open /\ conn[client[c].conn].client = c
          /\ conn[client[c].conn].request = IF client[c].inbox = None THEN client[c].want ELSE None
ClientInv == \A c \in Clients : ClientOk(c)

\* Each handle value names what its thread takes it for.
Holds(t) ==
    /\ conn[t].st # "none" => thread[t].pipe \in DOMAIN table /\ table[thread[t].pipe] = Pipe(t)
    /\ thread[t].pc \in {"process", "duplicate"} =>
          thread[t].disk \in DOMAIN table /\ table[thread[t].disk] = Drive(conn[t].request)
    /\ thread[t].pc = "duplicate" =>
          /\ thread[t].process \in DOMAIN table
          /\ table[thread[t].process] = Process(conn[t].client)
\* No two threads have the same.
Apart(t, u) ==
    /\ thread[t].pc \in {"process", "duplicate"} /\ thread[u].pc \in {"process", "duplicate"} =>
          thread[t].disk # thread[u].disk
    /\ thread[t].pc = "duplicate" /\ thread[u].pc = "duplicate" =>
          thread[t].process # thread[u].process
\* And each handle value is one of a thread.
IsOf(v, t) ==
    \/ v = thread[t].pipe /\ conn[t].st # "none" /\ table[v] = Pipe(t)
    \/ v = thread[t].disk /\ thread[t].pc \in {"process", "duplicate"}
       /\ table[v] = Drive(conn[t].request)
    \/ v = thread[t].process /\ thread[t].pc \in {"duplicate"}
       /\ table[v] = Process(conn[t].client)
TableInv ==
    /\ \A t \in Connections : Holds(t)
    /\ \A t, u \in Connections : t # u => Apart(t, u)
    /\ \A v \in DOMAIN table : \E t \in Connections : IsOf(v, t)

\* What a client's process owns: what it knows of and what is on its way.
Known(c) == {Drive(d) : d \in client[c].files}
Got(c) == client[c].inbox # None /\ client[c].inbox.kind = "ok"
Handed(c) == Got(c) \/ (client[c].conn # 0 /\ thread[client[c].conn].pc = "reply")
OwnedOk(c) ==
    Alive(c) =>
        /\ Known(c) \subseteq owned[c]
        /\ Got(c) => client[c].want \in Disks /\ Drive(client[c].want) \in owned[c]
        /\ helper # "gone" =>
              owned[c] = IF Handed(c) THEN Known(c) \cup {Drive(client[c].want)} ELSE Known(c)
OwnedInv == \A c \in Clients : OwnedOk(c)

Sane == ConnInv /\ ClientInv /\ TableInv /\ OwnedInv

HelperIInv ==
    /\ TypeInv
    /\ OnlyDeathMiscloses
    /\ ~misclosed => Sane

-----------------------------------------------------------------------------
LEMMA HelperInit == Init => HelperIInv
  <1> SUFFICES ASSUME Init PROVE HelperIInv OBVIOUS
  <1> USE DEF Init
  <1>1. TypeInv
    <2>1. ClientType
      <3>1. ASSUME NEW c \in Clients
            PROVE  client[c] = [Off EXCEPT !.st = "idle"] \/ client[c] = Off
        OBVIOUS
      <3> QED BY <3>1 DEF ClientType, ClientRecords, Off, States
    <2>2. ConnType BY DEF ConnType, ConnRecords, NoConn
    <2>3. ThreadType BY DEF ThreadType, ThreadRecords, NoThread, Places
    <2>4. DOMAIN table \subseteq Handles /\ DOMAIN owned = Clients /\ attached \subseteq Disks
      OBVIOUS
    <2> QED BY <2>1, <2>2, <2>3, <2>4 DEF TypeInv
  <1>2. OnlyDeathMiscloses BY DEF OnlyDeathMiscloses
  <1>3. ConnInv BY DEF ConnInv, ConnOk, NoConn, NoThread, Busy
  <1>4. ClientInv BY DEF ClientInv, ClientOk, Off
  <1>5. TableInv BY DEF TableInv, Holds, Apart, NoConn, NoThread
  <1>6. OwnedInv BY DEF OwnedInv, OwnedOk, Known, Got, Handed, Off
  <1> QED BY <1>1, <1>2, <1>3, <1>4, <1>5, <1>6 DEF HelperIInv, Sane

-----------------------------------------------------------------------------
(* Handle values *)

HasLeast(S) == \E n \in S : \A m \in S : n <= m

LEMMA NumbersHaveLeast ==
    ASSUME NEW S \in SUBSET Nat, S # {}
    PROVE  HasLeast(S)
  <1> DEFINE R == OpToRel(<, Nat)
  <1>1. IsWellFoundedOn(R, Nat) BY NatLessThanWellFounded
  <1>2. \A x, y \in Nat : y < x => <<y, x>> \in R BY DEF OpToRel
  <1> HIDE DEF R
  <1>3. PICK x \in S : \A y \in S : ~(<<y, x>> \in R) BY <1>1, WFMin, Zenon
  <1>4. ASSUME NEW y \in S PROVE x <= y
    <2>1. ~(<<y, x>> \in R) BY <1>3, Zenon
    <2>2. x \in Nat /\ y \in Nat BY Zenon
    <2>3. ~(y < x) BY <2>1, <2>2, <1>2, Zenon
    <2> QED BY <2>2, <2>3, SMT
  <1> QED BY <1>4 DEF HasLeast

\* A value that is opened is a new one, and names what was opened.
OpensValue(v, object) ==
    /\ v \in Handles /\ v \notin DOMAIN table
    /\ DOMAIN table' = DOMAIN table \cup {v}
    /\ table'[v] = object
    /\ \A w \in DOMAIN table : table'[w] = table[w]

LEMMA OpenIsNew ==
    ASSUME FreeValues # {}, NEW object, table' = Add(table, Opened(object))
    PROVE  OpensValue(Min(FreeValues), object)
  <1> DEFINE v == Min(FreeValues)
  <1>1. v \in FreeValues
    <2>1. FreeValues \in SUBSET Nat BY HelperAssumption DEF FreeValues
    <2>2. PICK n \in FreeValues : \A m \in FreeValues : n <= m
      BY <2>1, NumbersHaveLeast DEF HasLeast
    <2> QED BY <2>2 DEF Min
  <1>2. Opened(object) = [w \in {v} |-> object] BY DEF Opened
  <1> HIDE DEF v
  <1>3. v \in Handles /\ v \notin DOMAIN table BY <1>1 DEF FreeValues
  <1>4. OpensValue(v, object) BY <1>2, <1>3 DEF Add, OpensValue
  <1> QED BY <1>4 DEF v

\* Values that are closed name nothing, and the others what they did.
ClosesValues(S) ==
    /\ DOMAIN table' = DOMAIN table \ S
    /\ \A w \in DOMAIN table \ S : table'[w] = table[w]

LEMMA CloseIs ==
    ASSUME NEW v, table' = Closed(v)
    PROVE  ClosesValues({v})
  BY DEF Closed, Restrict, ClosesValues

-----------------------------------------------------------------------------
(* What a client does to its connection *)

\* The handle values do not change, nor what they are for.
LEMMA TableKept ==
    ASSUME TableInv, thread' = thread, table' = table,
           \A t \in Connections :
              /\ (conn'[t].st = "none") = (conn[t].st = "none")
              /\ thread[t].pc \in Busy => /\ conn'[t].request = conn[t].request
                                          /\ conn'[t].client = conn[t].client
    PROVE  TableInv'
  <1>1. \A t \in Connections : Holds(t)' BY DEF TableInv, Holds, Busy
  <1>2. \A t, u \in Connections : t # u => Apart(t, u)' BY DEF TableInv, Apart
  <1>3. \A v \in DOMAIN table' : \E t \in Connections : IsOf(v, t)'
    BY ZenonT(30) DEF TableInv, IsOf, Busy
  <1> QED BY <1>1, <1>2, <1>3 DEF TableInv

LEMMA EndClosed ==
    ASSUME ConnType, NEW t \in Connections
    PROVE  [conn EXCEPT ![t].open = FALSE] \in [Connections -> ConnRecords]
  BY DEF ConnType, ConnRecords

\* The record of a client, whatever its fields.
LEMMA ClientRecord ==
    ASSUME ClientType, NEW c \in Clients
    PROVE  /\ client[c] \in ClientRecords
           /\ client[c].st \in States /\ client[c].want \in Jobs \cup {None}
           /\ client[c].conn \in Connections \cup {0} /\ client[c].inbox \in Answers \cup {None}
           /\ client[c].todo \subseteq Disks /\ client[c].files \subseteq Disks
  BY DEF ClientType, ClientRecords

\* The client's end of its connection is closed, if it has one.
LEMMA OneClosed ==
    ASSUME ConnType, 0 \notin Connections, NEW t0 \in Connections \cup {0},
           conn' = IF t0 = 0 THEN conn ELSE [conn EXCEPT ![t0].open = FALSE]
    PROVE  \A t \in Connections :
              /\ conn'[t].st = conn[t].st /\ conn'[t].client = conn[t].client
              /\ conn'[t].request = conn[t].request
              /\ conn'[t].open = (conn[t].open /\ t # t0)
  <1> SUFFICES ASSUME NEW t \in Connections
               PROVE  /\ conn'[t].st = conn[t].st /\ conn'[t].client = conn[t].client
                      /\ conn'[t].request = conn[t].request
                      /\ conn'[t].open = (conn[t].open /\ t # t0)
    OBVIOUS
  <1>1. conn[t] \in ConnRecords /\ t \in DOMAIN conn BY DEF ConnType
  <1>2. conn[t].open \in BOOLEAN BY <1>1 DEF ConnRecords
  <1>3. CASE t = t0
    <2>1. conn'[t] = [conn[t] EXCEPT !.open = FALSE] BY <1>1, <1>3
    <2> QED BY <1>1, <1>3, <2>1 DEF ConnRecords
  <1>4. CASE t # t0
    <2>1. conn'[t] = conn[t] BY <1>1, <1>4
    <2> QED BY <1>2, <1>4, <2>1
  <1> QED BY <1>3, <1>4

LEMMA ProcessEnds ==
    ASSUME TypeInv, Sane, NEW c \in Clients, EndProcess(c),
           UNCHANGED <<helper, thread, table, misclosed>>
    PROVE  /\ ClientType' /\ ConnType' /\ ThreadType' /\ DOMAIN owned' = Clients
           /\ Sane' /\ client'[c].st = "dead"
  <1> USE DEF EndProcess
  <1> DEFINE gone == [Off EXCEPT !.st = "dead"]
             t0 == client[c].conn
  <1>0. /\ gone.st = "dead" /\ gone.conn = 0 /\ gone.inbox = None /\ gone.files = {}
        /\ gone \in ClientRecords
    BY DEF ClientRecords, Off, States
  <1>1. client' = [client EXCEPT ![c] = gone] OBVIOUS
  <1> HIDE DEF gone
  <1>2. /\ client'[c] = gone
        /\ \A x \in Clients : x # c => client'[x] = client[x]
    BY <1>1 DEF TypeInv, ClientType
  <1>3. /\ t0 # 0 => t0 \in Connections /\ conn[t0].client = c /\ conn[t0].open
        /\ \A t \in Connections :
              /\ conn'[t].st = conn[t].st /\ conn'[t].client = conn[t].client
              /\ conn'[t].request = conn[t].request
              /\ conn'[t].open = (conn[t].open /\ t # t0)
    <2>1. t0 \in Connections \cup {0} BY ClientRecord DEF TypeInv
    <2>2. t0 # 0 => conn[t0].client = c /\ conn[t0].open BY DEF Sane, ClientInv, ClientOk
    <2>3. conn' = IF t0 = 0 THEN conn ELSE [conn EXCEPT ![t0].open = FALSE] OBVIOUS
    <2>4. ConnType BY DEF TypeInv
    <2> HIDE DEF t0
    <2> QED BY <2>1, <2>2, <2>3, <2>4, OneClosed, HelperAssumption
  <1>4. ClientType' BY <1>0, <1>1 DEF TypeInv, ClientType
  <1>5. ConnType' BY ZenonT(30) DEF TypeInv, ConnType, ConnRecords
  <1>6. DOMAIN owned' = Clients /\ owned'[c] = {} /\ \A x \in Clients : x # c => owned'[x] = owned[x]
    BY DEF TypeInv
  <1>7. ConnInv'
    <2> SUFFICES ASSUME NEW t \in Connections PROVE ConnOk(t)' BY DEF ConnInv
    <2>1. ConnOk(t) BY DEF Sane, ConnInv
    <2>2. conn[t].st = "none" => conn'[t] = NoConn
      BY <1>3, <1>5, <2>1 DEF ConnOk, NoConn, TypeInv, ConnType, ConnRecords
    <2>3. conn[t].open /\ conn[t].client = c => t = t0 BY <2>1 DEF ConnOk
    <2>4. conn'[t].st = "none" => thread'[t] = NoThread BY <1>3, <2>1 DEF ConnOk
    <2>5. CASE conn[t].st = "connected"
      <3>1. conn[t].client \in Clients BY <2>1, <2>5 DEF ConnOk
      <3>2. CASE conn[t].client = c
        BY <1>0, <1>2, <1>3, <2>1, <2>2, <2>3, <2>4, <2>5, <3>2, ZenonT(30) DEF ConnOk
      <3>3. CASE conn[t].client # c
        <4>1. client'[conn[t].client] = client[conn[t].client] BY <1>2, <3>1, <3>3
        <4>2. conn[t].open => t # t0 BY <1>3, <3>3, HelperAssumption
        <4>3. conn'[t].open = conn[t].open
          <5>1. conn[t].open \in BOOLEAN BY DEF TypeInv, ConnType, ConnRecords
          <5>2. conn'[t].open = (conn[t].open /\ t # t0) BY <1>3
          <5> HIDE DEF t0
          <5> QED BY <4>2, <5>1, <5>2
        <4>4. /\ conn'[t].st = "connected" /\ conn'[t].client = conn[t].client
              /\ conn'[t].request = conn[t].request
              /\ thread'[t] = thread[t] /\ helper' = helper
          BY <1>3, <2>5
        <4> QED BY <2>1, <2>5, <3>1, <4>1, <4>3, <4>4 DEF ConnOk
      <3> QED BY <3>2, <3>3
    <2>6. CASE conn[t].st # "connected"
      <3>1. conn[t].request = None /\ ~conn[t].open /\ thread[t].pc = "none"
        <4>1. conn[t].st \in {"none", "listening"} BY <2>6 DEF TypeInv, ConnType, ConnRecords
        <4>2. conn[t].st = "none" => conn[t] = NoConn /\ thread[t] = NoThread BY <2>1 DEF ConnOk
        <4>3. NoConn.request = None /\ ~NoConn.open /\ NoThread.pc = "none"
          BY DEF NoConn, NoThread
        <4> QED BY <2>1, <4>1, <4>2, <4>3 DEF ConnOk
      <3> QED BY <1>3, <2>1, <2>2, <2>4, <2>6, <3>1 DEF ConnOk, Busy
    <2> QED BY <2>5, <2>6
  <1>8. ClientInv'
    <2> SUFFICES ASSUME NEW x \in Clients PROVE ClientOk(x)' BY DEF ClientInv
    <2>1. ClientOk(x) BY DEF Sane, ClientInv
    <2>2. CASE x = c BY <1>0, <1>2, <1>6, <2>2 DEF ClientOk
    <2>3. CASE x # c
      <3>1. client'[x] = client[x] /\ owned'[x] = owned[x] BY <1>2, <1>6, <2>3
      <3>2. client[x].conn \in Connections \cup {0} BY ClientRecord DEF TypeInv
      <3>3. client[x].conn # 0 => client[x].conn # t0 BY <1>3, <2>1, <2>3 DEF ClientOk
      <3>4. client[x].conn # 0 =>
               /\ conn'[client[x].conn].open /\ conn'[client[x].conn].client = x
               /\ conn'[client[x].conn].request = conn[client[x].conn].request
        BY <1>3, <2>1, <3>2, <3>3 DEF ClientOk
      <3> QED BY <2>1, <3>1, <3>4 DEF ClientOk
    <2> QED BY <2>2, <2>3
  <1>9. TableInv' BY <1>3, TableKept DEF Sane
  <1>10. OwnedInv'
    <2> SUFFICES ASSUME NEW x \in Clients PROVE OwnedOk(x)' BY DEF OwnedInv
    <2>1. OwnedOk(x) BY DEF Sane, OwnedInv
    <2>2. CASE x = c BY <1>0, <1>2, <2>2 DEF OwnedOk, Alive
    <2>3. CASE x # c
      <3>1. client'[x] = client[x] /\ owned'[x] = owned[x] BY <1>2, <1>6, <2>3
      <3> QED BY <2>1, <3>1 DEF OwnedOk, Alive, Known, Got, Handed
    <2> QED BY <2>2, <2>3
  <1> QED BY <1>0, <1>2, <1>4, <1>5, <1>6, <1>7, <1>8, <1>9, <1>10 DEF Sane, TypeInv, ThreadType

-----------------------------------------------------------------------------
(* The window, and the drives *)

LEMMA NothingServed ==
    ASSUME TypeInv, Sane, UNCHANGED <<client, conn, thread, table, owned>>,
           helper' = helper \/ (helper = "none" /\ helper' = "up")
    PROVE  Sane'
  <1>1. ConnInv' BY DEF Sane, ConnInv, ConnOk
  <1>2. ClientInv' BY DEF Sane, ClientInv, ClientOk
  <1>3. TableInv' BY DEF Sane, TableInv, Holds, Apart, IsOf
  <1>4. OwnedInv' BY DEF Sane, OwnedInv, OwnedOk, Alive, Known, Got, Handed
  <1> QED BY <1>1, <1>2, <1>3, <1>4 DEF Sane

LEMMA WindowStep ==
    ASSUME TypeInv, Sane, ~misclosed, Allow \/ Decline \/ \E d \in Disks : Unplug(d)
    PROVE  HelperIInv'
  <1>1. UNCHANGED <<client, conn, thread, table, owned, misclosed>> BY DEF Allow, Decline, Unplug
  <1>2. helper' = helper \/ (helper = "none" /\ helper' = "up") BY DEF Allow, Decline, Unplug
  <1>3. gui' \in {"prompt", "running", "gone"} /\ attached' \subseteq Disks
    BY DEF Allow, Decline, Unplug, TypeInv
  <1>4. TypeInv' BY <1>1, <1>2, <1>3 DEF TypeInv, ClientType, ConnType, ThreadType
  <1>5. Sane' BY <1>1, <1>2, NothingServed
  <1> QED BY <1>1, <1>4, <1>5 DEF HelperIInv, OnlyDeathMiscloses

LEMMA GuiEndsStep ==
    ASSUME TypeInv, Sane, ~misclosed, GuiEnds
    PROVE  HelperIInv'
  <1>1. Gui \in Clients BY DEF Clients
  <1>2. EndProcess(Gui) /\ UNCHANGED <<helper, thread, table, misclosed>> BY DEF GuiEnds
  <1>3. /\ ClientType' /\ ConnType' /\ ThreadType' /\ DOMAIN owned' = Clients /\ Sane'
    BY <1>1, <1>2, ProcessEnds
  <1>4. TypeInv' BY <1>2, <1>3 DEF TypeInv, GuiEnds
  <1> QED BY <1>2, <1>3, <1>4 DEF HelperIInv, OnlyDeathMiscloses

LEMMA ProcessEndStep ==
    ASSUME TypeInv, Sane, ~misclosed, NEW c \in Clients, EndProcess(c),
           UNCHANGED <<Environment, ServerState, misclosed>>
    PROVE  HelperIInv'
  <1>1. UNCHANGED <<gui, helper, attached, thread, table, misclosed>> BY DEF Environment, ServerState
  <1>2. /\ ClientType' /\ ConnType' /\ ThreadType' /\ DOMAIN owned' = Clients /\ Sane'
    BY <1>1, ProcessEnds
  <1>3. TypeInv' BY <1>1, <1>2 DEF TypeInv
  <1> QED BY <1>1, <1>2, <1>3 DEF HelperIInv, OnlyDeathMiscloses

-----------------------------------------------------------------------------
(* The clients *)

\* Only the record of one client changes, which neither has a connection before nor after.
LEMMA ClientMoves ==
    ASSUME TypeInv, Sane, ~misclosed, NEW c \in Clients, NEW record,
           client' = [client EXCEPT ![c] = record],
           record \in ClientRecords,
           UNCHANGED <<Environment, conn, ServerState, misclosed>>,
           DOMAIN owned' = Clients, \A x \in Clients : x # c => owned'[x] = owned[x],
           client[c].conn = 0, record.conn = 0, client[c].st # "dead",
           record.st # "off", record.inbox = None,
           record.st = "waiting" => helper = "gone",
           record.st \in {"connecting", "waiting"} => record.want \in Jobs,
           {Drive(d) : d \in record.files} \subseteq owned'[c],
           helper # "gone" => owned'[c] = {Drive(d) : d \in record.files}
    PROVE  HelperIInv'
  <1>1. UNCHANGED <<gui, helper, attached, thread, table, misclosed>> BY DEF Environment, ServerState
  <1>2. client'[c] = record /\ \A x \in Clients : x # c => client'[x] = client[x]
    BY DEF TypeInv, ClientType
  <1>3. ClientType' BY DEF TypeInv, ClientType
  <1>4. TypeInv' BY <1>1, <1>3 DEF TypeInv, ConnType, ThreadType
  <1>5. ConnInv'
    <2> SUFFICES ASSUME NEW t \in Connections PROVE ConnOk(t)' BY DEF ConnInv
    <2>1. ConnOk(t) BY DEF Sane, ConnInv
    <2>2. ASSUME conn[t].client = c PROVE ConnOk(t)'
      <3>1. ~conn[t].open BY <2>1, <2>2, HelperAssumption DEF ConnOk
      <3>2. conn[t].request = None /\ thread[t].pc # "close disk"
        BY <2>1, <2>2, <3>1 DEF ConnOk
      <3> QED BY <1>1, <1>2, <2>1, <2>2, <3>1, <3>2 DEF ConnOk
    <2>3. ASSUME conn[t].client # c, conn[t].st = "connected" PROVE ConnOk(t)'
      <3>1. conn[t].client \in Clients BY <2>1, <2>3 DEF ConnOk
      <3> QED BY <1>1, <1>2, <2>1, <2>3, <3>1 DEF ConnOk
    <2>4. ASSUME conn[t].st # "connected" PROVE ConnOk(t)'
      <3>1. conn[t].request = None /\ ~conn[t].open /\ thread[t].pc = "none"
        <4>1. conn[t].st \in {"none", "listening"} BY <2>4 DEF TypeInv, ConnType, ConnRecords
        <4>2. conn[t].st = "none" => conn[t] = NoConn /\ thread[t] = NoThread BY <2>1 DEF ConnOk
        <4>3. NoConn.request = None /\ ~NoConn.open /\ NoThread.pc = "none"
          BY DEF NoConn, NoThread
        <4> QED BY <2>1, <4>1, <4>2, <4>3 DEF ConnOk
      <3> QED BY <1>1, <2>1, <2>4, <3>1 DEF ConnOk, Busy
    <2> QED BY <2>2, <2>3, <2>4
  <1>6. ClientInv'
    <2> SUFFICES ASSUME NEW x \in Clients PROVE ClientOk(x)' BY DEF ClientInv
    <2>1. ClientOk(x) BY DEF Sane, ClientInv
    <2>2. CASE x = c BY <1>1, <1>2, <2>2 DEF ClientOk
    <2>3. CASE x # c
      <3>1. client'[x] = client[x] /\ owned'[x] = owned[x] BY <1>2, <2>3
      <3> QED BY <1>1, <2>1, <3>1 DEF ClientOk
    <2> QED BY <2>2, <2>3
  <1>7. TableInv' BY <1>1, TableKept DEF Sane
  <1>8. OwnedInv'
    <2> SUFFICES ASSUME NEW x \in Clients PROVE OwnedOk(x)' BY DEF OwnedInv
    <2>1. OwnedOk(x) BY DEF Sane, OwnedInv
    <2>2. CASE x = c
      <3>1. ~Got(c)' /\ ~Handed(c)' BY <1>2 DEF Got, Handed
      <3>2. Known(c)' = {Drive(d) : d \in record.files} BY <1>2 DEF Known
      <3> QED BY <1>1, <2>2, <3>1, <3>2 DEF OwnedOk
    <2>3. CASE x # c
      <3>1. client'[x] = client[x] /\ owned'[x] = owned[x] BY <1>2, <2>3
      <3> QED BY <1>1, <2>1, <3>1 DEF OwnedOk, Alive, Known, Got, Handed
    <2> QED BY <2>2, <2>3
  <1> QED BY <1>1, <1>4, <1>5, <1>6, <1>7, <1>8 DEF HelperIInv, Sane, OnlyDeathMiscloses

LEMMA ScanStep ==
    ASSUME TypeInv, Sane, ~misclosed, Scan
    PROVE  HelperIInv'
  <1>1. Gui \in Clients /\ Gui \in DOMAIN client BY DEF Clients, TypeInv, ClientType
  <1>2. client[Gui].conn = 0 /\ client[Gui].inbox = None /\ client[Gui].st = "idle"
    BY <1>1 DEF Sane, ClientInv, ClientOk, Scan
  <1>3. ~Got(Gui) /\ ~Handed(Gui) BY <1>2 DEF Got, Handed
  <1>4. Alive(Gui) BY <1>2 DEF Alive
  <1>5. Known(Gui) \subseteq owned[Gui] /\ (helper # "gone" => owned[Gui] = Known(Gui))
    BY <1>1, <1>3, <1>4 DEF Sane, OwnedInv, OwnedOk
  <1> DEFINE r == client[Gui]
  <1>6. CASE client[Gui].todo = {}
    <2> DEFINE s == [r EXCEPT !.st = "connecting", !.want = List, !.files = {}]
    <2>1. client' = [client EXCEPT ![Gui] = s] /\ owned' = [owned EXCEPT ![Gui] = {}]
      BY <1>6 DEF Scan
    <2>2. /\ s.st = "connecting" /\ s.want = List /\ s.files = {} /\ s.conn = 0 /\ s.inbox = None
          /\ s \in ClientRecords
      <3>1. r \in ClientRecords /\ r.conn = 0 /\ r.inbox = None
        BY <1>1, <1>2, ClientRecord DEF TypeInv
      <3> HIDE DEF r
      <3> QED BY <3>1 DEF ClientRecords, Jobs, States
    <2>3. owned'[Gui] = {} /\ DOMAIN owned' = Clients
          /\ \A x \in Clients : x # Gui => owned'[x] = owned[x]
      BY <1>1, <2>1 DEF TypeInv
    <2>4. UNCHANGED <<Environment, conn, ServerState, misclosed>> BY DEF Scan
    <2>5. List \in Jobs /\ {Drive(d) : d \in s.files} = {} BY <2>2 DEF Jobs
    <2> HIDE DEF s
    <2> QED BY <1>1, <1>2, <2>1, <2>2, <2>3, <2>4, <2>5, ClientMoves
  <1>7. CASE client[Gui].todo # {}
    <2>1. PICK d \in r.todo :
             client' = [client EXCEPT ![Gui] =
                          [r EXCEPT !.st = "connecting", !.want = d, !.todo = r.todo \ {d}]]
      BY <1>7, Zenon DEF Scan
    <2> DEFINE s == [r EXCEPT !.st = "connecting", !.want = d, !.todo = r.todo \ {d}]
    <2>2. /\ s.st = "connecting" /\ s.want = d /\ s.files = r.files /\ s.conn = 0 /\ s.inbox = None
          /\ s.want \in Jobs
          /\ s \in ClientRecords
      <3>1. r \in ClientRecords /\ r.conn = 0 /\ r.inbox = None /\ d \in Disks
        BY <1>1, <1>2, <2>1, ClientRecord DEF TypeInv
      <3> HIDE DEF r
      <3> QED BY <3>1 DEF ClientRecords, Jobs, States
    <2>3. owned' = owned /\ DOMAIN owned' = Clients BY <1>7 DEF Scan, TypeInv
    <2>4. UNCHANGED <<Environment, conn, ServerState, misclosed>> BY DEF Scan
    <2>5. {Drive(x) : x \in s.files} = Known(Gui) BY <2>2 DEF Known
    <2>6. client' = [client EXCEPT ![Gui] = s] BY <2>1
    <2> HIDE DEF s
    <2> QED BY <1>1, <1>2, <1>5, <2>2, <2>3, <2>4, <2>5, <2>6, ClientMoves
  <1> QED BY <1>6, <1>7

LEMMA LaunchStep ==
    ASSUME TypeInv, Sane, ~misclosed, NEW c \in Clients, NEW d \in Disks, Launch(c, d)
    PROVE  HelperIInv'
  <1>1. client[c].st = "off" /\ c \in DOMAIN client BY DEF Launch, TypeInv, ClientType
  <1>2. /\ client[c].conn = 0 /\ client[c].inbox = None /\ client[c].files = {} /\ owned[c] = {}
    BY <1>1 DEF Sane, ClientInv, ClientOk
  <1> DEFINE r == client[c]
             s == [r EXCEPT !.st = "connecting", !.want = d]
  <1>3. /\ s.st = "connecting" /\ s.want = d /\ s.files = {} /\ s.conn = 0 /\ s.inbox = None
        /\ s.want \in Jobs
        /\ s \in ClientRecords
    <2>1. r \in ClientRecords /\ r.conn = 0 /\ r.inbox = None /\ r.files = {}
      BY <1>2, ClientRecord DEF TypeInv
    <2> HIDE DEF r
    <2> QED BY <2>1 DEF ClientRecords, Jobs, States
  <1>4. client' = [client EXCEPT ![c] = s] BY <1>1 DEF Launch
  <1>5. owned' = owned /\ DOMAIN owned' = Clients BY DEF Launch, TypeInv
  <1>6. UNCHANGED <<Environment, conn, ServerState, misclosed>> BY DEF Launch
  <1>7. {Drive(x) : x \in s.files} = {} BY <1>3
  <1> HIDE DEF s
  <1> QED BY <1>1, <1>2, <1>3, <1>4, <1>5, <1>6, <1>7, ClientMoves

\* A client without an answer, which is not connected.
LEMMA WithoutAnswerStep ==
    ASSUME TypeInv, Sane, ~misclosed, NEW c \in Clients, WithoutAnswer(c),
           UNCHANGED <<Environment, ServerState, misclosed>>,
           Asking(c), client[c].conn = 0, client[c].inbox = None
    PROVE  HelperIInv'
  <1>1. CASE c # Gui BY <1>1, ProcessEndStep DEF WithoutAnswer
  <1>2. CASE c = Gui
    <2>1. c \in DOMAIN client /\ client[c].st \in {"connecting", "waiting"}
      BY DEF TypeInv, ClientType, Asking
    <2> DEFINE r == client[c]
               s == [r EXCEPT !.st = "idle", !.want = None, !.conn = 0]
    <2>2. /\ s.st = "idle" /\ s.files = r.files /\ s.conn = 0 /\ s.inbox = None
          /\ s \in ClientRecords
      <3>1. r \in ClientRecords /\ r.inbox = None BY ClientRecord DEF TypeInv
      <3> HIDE DEF r
      <3> QED BY <3>1 DEF ClientRecords, States
    <2>3. /\ client' = [client EXCEPT ![c] = s]
          /\ UNCHANGED <<Environment, conn, ServerState, misclosed>>
          /\ owned' = owned /\ DOMAIN owned' = Clients
      BY <1>2, <2>1 DEF WithoutAnswer, TypeInv
    <2>4. {Drive(d) : d \in s.files} = Known(c) BY <2>2 DEF Known
    <2>5. Alive(c) /\ ~Got(c) /\ ~Handed(c) BY <2>1 DEF Alive, Got, Handed
    <2>6. Known(c) \subseteq owned[c] /\ (helper # "gone" => owned[c] = Known(c))
      BY <2>5 DEF Sane, OwnedInv, OwnedOk
    <2> HIDE DEF s
    <2> QED BY <2>1, <2>2, <2>3, <2>4, <2>6, ClientMoves
  <1> QED BY <1>1, <1>2

LEMMA GiveUpStep ==
    ASSUME TypeInv, Sane, ~misclosed, NEW c \in Clients, GiveUp(c)
    PROVE  HelperIInv'
  <1>1. client[c].conn = 0 /\ client[c].inbox = None BY DEF GiveUp, Sane, ClientInv, ClientOk
  <1> QED BY <1>1, WithoutAnswerStep DEF GiveUp, Asking

LEMMA BrokenStep ==
    ASSUME TypeInv, Sane, ~misclosed, NEW c \in Clients, Broken(c)
    PROVE  HelperIInv'
  BY WithoutAnswerStep DEF Broken, Asking

LEMMA KillStep ==
    ASSUME TypeInv, Sane, ~misclosed, NEW c \in Clients, Kill(c)
    PROVE  HelperIInv'
  BY ProcessEndStep DEF Kill

\* A connection nobody has a client's end of serves nobody.
LEMMA NotConnected ==
    ASSUME TypeInv, Sane, NEW t \in Connections, conn[t].st # "connected"
    PROVE  conn[t].request = None /\ ~conn[t].open /\ thread[t].pc = "none"
  <1>0. ConnOk(t) BY DEF Sane, ConnInv
  <1>1. conn[t].st \in {"none", "listening"} BY DEF TypeInv, ConnType, ConnRecords
  <1>2. conn[t].st = "none" => conn[t] = NoConn /\ thread[t] = NoThread BY <1>0 DEF ConnOk
  <1>3. NoConn.request = None /\ ~NoConn.open /\ NoThread.pc = "none" BY DEF NoConn, NoThread
  <1> QED BY <1>0, <1>1, <1>2, <1>3 DEF ConnOk

LEMMA ConnectStep ==
    ASSUME TypeInv, Sane, ~misclosed, NEW c \in Clients, NEW t \in Connections, Connect(c, t)
    PROVE  HelperIInv'
  <1> DEFINE r == client[c]
             s == [r EXCEPT !.st = "waiting", !.conn = t]
             k == [st |-> "connected", client |-> c, request |-> r.want, open |-> TRUE]
  <1>1. UNCHANGED <<gui, helper, attached, thread, table, owned, misclosed>>
    BY DEF Connect, Environment, ServerState
  <1>2. client' = [client EXCEPT ![c] = s] /\ conn' = [conn EXCEPT ![t] = k] /\ helper = "up"
    BY DEF Connect
  <1>3. /\ r.st = "connecting" /\ r.conn = 0 /\ r.inbox = None /\ r.want \in Jobs
        /\ conn[t].st = "listening" /\ thread[t].pc = "none"
    BY DEF Connect, Sane, ClientInv, ClientOk, ConnInv, ConnOk
  <1>4. /\ s.st = "waiting" /\ s.conn = t /\ s.want = r.want /\ s.inbox = None /\ s.files = r.files
        /\ s \in ClientRecords
    <2>1. r \in ClientRecords BY ClientRecord DEF TypeInv
    <2> HIDE DEF r
    <2> QED BY <1>3, <2>1 DEF ClientRecords, States
  <1>5. /\ k.st = "connected" /\ k.client = c /\ k.request = r.want /\ k.open
        /\ k \in ConnRecords
    BY <1>3 DEF ConnRecords
  <1>6. r.want # None /\ t # 0 BY <1>3, HelperAssumption DEF Jobs
  <1> HIDE DEF s, k
  <1>7. client'[c] = s /\ \A x \in Clients : x # c => client'[x] = client[x]
    BY <1>2 DEF TypeInv, ClientType
  <1>8. conn'[t] = k /\ \A u \in Connections : u # t => conn'[u] = conn[u]
    BY <1>2 DEF TypeInv, ConnType, ConnRecords
  <1>9. TypeInv'
    <2>1. ClientType' BY <1>2, <1>4 DEF TypeInv, ClientType
    <2>2. ConnType' BY <1>2, <1>5 DEF TypeInv, ConnType, ConnRecords
    <2> QED BY <1>1, <2>1, <2>2 DEF TypeInv, ThreadType
  <1>10. ConnInv'
    <2> SUFFICES ASSUME NEW u \in Connections PROVE ConnOk(u)' BY DEF ConnInv
    <2>1. ConnOk(u) BY DEF Sane, ConnInv
    <2>2. CASE u = t
      <3>1. /\ conn'[t].st = "connected" /\ conn'[t].client = c /\ conn'[t].open
            /\ client'[c].st = "waiting" /\ client'[c].conn = t
        BY <1>4, <1>5, <1>7, <1>8
      <3>2. thread'[t].pc = "none" /\ helper' = "up" BY <1>1, <1>2, <1>3
      <3> QED BY <2>2, <3>1, <3>2 DEF ConnOk, Busy
    <2>3. CASE u # t /\ conn[u].st = "connected"
      <3>1. conn[u].client \in Clients BY <2>1, <2>3 DEF ConnOk
      <3>2. conn[u].client = c => ~conn[u].open
        BY <1>3, <2>1, HelperAssumption DEF ConnOk
      <3>3. conn[u].client = c => conn[u].request = None /\ thread[u].pc # "close disk"
        BY <1>3, <2>1, <3>2 DEF ConnOk
      <3> QED BY <1>1, <1>4, <1>7, <1>8, <2>1, <2>3, <3>1, <3>2, <3>3 DEF ConnOk
    <2>4. CASE u # t /\ conn[u].st # "connected"
      <3>1. conn[u].request = None /\ ~conn[u].open /\ thread[u].pc = "none"
        BY <2>4, NotConnected
      <3> QED BY <1>1, <1>8, <2>1, <2>4, <3>1 DEF ConnOk, Busy
    <2> QED BY <2>2, <2>3, <2>4
  <1>11. ClientInv'
    <2> SUFFICES ASSUME NEW x \in Clients PROVE ClientOk(x)' BY DEF ClientInv
    <2>1. ClientOk(x) BY DEF Sane, ClientInv
    <2>2. CASE x = c BY <1>1, <1>3, <1>4, <1>5, <1>6, <1>7, <1>8, <2>2 DEF ClientOk
    <2>3. CASE x # c
      <3>1. client'[x] = client[x] BY <1>7, <2>3
      <3>2. client[x].conn \in Connections \cup {0} BY ClientRecord DEF TypeInv
      <3>3. client[x].conn # t
        BY <1>3, <1>6, <2>1, NotConnected DEF ClientOk
      <3>4. client[x].conn # 0 => conn'[client[x].conn] = conn[client[x].conn]
        BY <1>8, <3>2, <3>3
      <3> QED BY <1>1, <2>1, <3>1, <3>4 DEF ClientOk
    <2> QED BY <2>2, <2>3
  <1>12. TableInv'
    <2>1. conn[t].st # "none" /\ thread[t].pc \notin Busy BY <1>3 DEF Busy
    <2> QED BY <1>1, <1>5, <1>8, <2>1, TableKept DEF Sane
  <1>13. OwnedInv'
    <2> SUFFICES ASSUME NEW x \in Clients PROVE OwnedOk(x)' BY DEF OwnedInv
    <2>1. OwnedOk(x) BY DEF Sane, OwnedInv
    <2>2. CASE x = c
      <3>1. ~Got(c) /\ ~Handed(c) /\ ~Got(c)' /\ ~Handed(c)'
        BY <1>1, <1>3, <1>4, <1>7 DEF Got, Handed
      <3>2. Known(c)' = Known(c) /\ Alive(c) BY <1>3, <1>4, <1>7 DEF Known, Alive
      <3> QED BY <1>1, <2>1, <2>2, <3>1, <3>2 DEF OwnedOk
    <2>3. CASE x # c
      <3>1. client'[x] = client[x] BY <1>7, <2>3
      <3> QED BY <1>1, <2>1, <3>1 DEF OwnedOk, Alive, Known, Got, Handed
    <2> QED BY <2>2, <2>3
  <1> QED BY <1>1, <1>9, <1>10, <1>11, <1>12, <1>13 DEF HelperIInv, Sane, OnlyDeathMiscloses

\* A client has read its answer, and closes the connection.
LEMMA ClientReads ==
    ASSUME TypeInv, Sane, ~misclosed, NEW c \in Clients, NEW record,
           client' = [client EXCEPT ![c] = record], record \in ClientRecords,
           conn' = IF client[c].conn = 0 THEN conn
                   ELSE [conn EXCEPT ![client[c].conn].open = FALSE],
           UNCHANGED <<Environment, ServerState, owned, misclosed>>,
           client[c].st = "waiting", client[c].inbox # None,
           record.st \in {"idle", "mounted"}, record.conn = 0, record.inbox = None,
           {Drive(d) : d \in record.files} \subseteq owned[c],
           helper # "gone" => owned[c] = {Drive(d) : d \in record.files}
    PROVE  HelperIInv'
  <1> DEFINE t0 == client[c].conn
  <1>1. UNCHANGED <<gui, helper, attached, thread, table, owned, misclosed>>
    BY DEF Environment, ServerState
  <1>2. client'[c] = record /\ \A x \in Clients : x # c => client'[x] = client[x]
    BY DEF TypeInv, ClientType
  <1>3. /\ t0 # 0 => /\ t0 \in Connections /\ conn[t0].client = c /\ conn[t0].open
                     /\ conn[t0].request = None
        /\ \A t \in Connections :
              /\ conn'[t].st = conn[t].st /\ conn'[t].client = conn[t].client
              /\ conn'[t].request = conn[t].request
              /\ conn'[t].open = (conn[t].open /\ t # t0)
    <2>1. t0 \in Connections \cup {0} BY ClientRecord DEF TypeInv
    <2>2. t0 # 0 => conn[t0].client = c /\ conn[t0].open /\ conn[t0].request = None
      BY DEF Sane, ClientInv, ClientOk
    <2>3. conn' = IF t0 = 0 THEN conn ELSE [conn EXCEPT ![t0].open = FALSE] OBVIOUS
    <2>4. ConnType BY DEF TypeInv
    <2> HIDE DEF t0
    <2> QED BY <2>1, <2>2, <2>3, <2>4, OneClosed, HelperAssumption
  <1>4. TypeInv'
    <2>1. ClientType' BY DEF TypeInv, ClientType
    <2>2. ConnType'
      <3>1. ConnType /\ (t0 = 0 \/ t0 \in Connections) BY <1>3 DEF TypeInv
      <3>2. conn' = conn \/ (t0 \in Connections /\ conn' = [conn EXCEPT ![t0].open = FALSE])
        BY <3>1
      <3> HIDE DEF t0
      <3> QED BY <3>1, <3>2, EndClosed DEF ConnType
    <2> QED BY <1>1, <2>1, <2>2 DEF TypeInv, ThreadType
  <1>5. ConnInv'
    <2> SUFFICES ASSUME NEW t \in Connections PROVE ConnOk(t)' BY DEF ConnInv
    <2>1. ConnOk(t) BY DEF Sane, ConnInv
    <2>2. conn[t].st = "none" => conn'[t] = NoConn
      BY <1>3, <1>4, <2>1 DEF ConnOk, NoConn, TypeInv, ConnType, ConnRecords
    <2>3. CASE conn[t].st = "connected"
      <3>1. conn[t].client \in Clients BY <2>1, <2>3 DEF ConnOk
      <3>2. CASE conn[t].client = c
        <4>1. conn[t].open => t0 = t /\ t0 # 0 BY <2>1, <3>2, HelperAssumption DEF ConnOk
        <4>2. conn[t].request = None
          <5>1. CASE conn[t].open BY <1>3, <4>1, <5>1
          <5>2. CASE ~conn[t].open BY <2>1, <3>2, <5>2 DEF ConnOk
          <5> QED BY <5>1, <5>2
        <4>3. thread[t].pc \notin Busy BY <2>1, <4>2, HelperAssumption DEF ConnOk
        <4>4. thread[t].pc # "close disk" BY <4>3 DEF Busy
        <4>5. /\ conn'[t].request = None /\ ~conn'[t].open
              /\ conn'[t].st = "connected" /\ conn'[t].client = c
          BY <1>3, <2>3, <3>2, <4>1, <4>2
        <4>6. thread'[t] = thread[t] /\ helper' = helper BY <1>1
        <4>7. client'[c].st # "off" BY <1>2
        <4> HIDE DEF t0
        <4> QED BY <2>1, <2>3, <4>3, <4>4, <4>5, <4>6, <4>7 DEF ConnOk
      <3>3. CASE conn[t].client # c
        <4>1. client'[conn[t].client] = client[conn[t].client] BY <1>2, <3>1, <3>3
        <4>2. conn'[t].open = conn[t].open
          <5>1. conn[t].open \in BOOLEAN BY DEF TypeInv, ConnType, ConnRecords
          <5>2. t # t0 BY <1>3, <3>3, HelperAssumption
          <5> QED BY <1>3, <5>1, <5>2
        <4>3. /\ conn'[t].st = "connected" /\ conn'[t].client = conn[t].client
              /\ conn'[t].request = conn[t].request
          BY <1>3, <2>3
        <4>4. thread'[t] = thread[t] /\ helper' = helper BY <1>1
        <4> QED BY <2>1, <2>3, <3>1, <4>1, <4>2, <4>3, <4>4 DEF ConnOk
      <3> QED BY <3>2, <3>3
    <2>4. CASE conn[t].st # "connected"
      <3>1. conn[t].request = None /\ ~conn[t].open /\ thread[t].pc = "none"
        BY <2>4, NotConnected
      <3> QED BY <1>1, <1>3, <2>1, <2>2, <2>4, <3>1 DEF ConnOk, Busy
    <2> QED BY <2>3, <2>4
  <1>6. ClientInv'
    <2> SUFFICES ASSUME NEW x \in Clients PROVE ClientOk(x)' BY DEF ClientInv
    <2>1. ClientOk(x) BY DEF Sane, ClientInv
    <2>2. CASE x = c BY <1>1, <1>2, <2>2 DEF ClientOk
    <2>3. CASE x # c
      <3>1. client'[x] = client[x] BY <1>2, <2>3
      <3>2. client[x].conn \in Connections \cup {0} BY ClientRecord DEF TypeInv
      <3>3. client[x].conn # 0 => client[x].conn # t0 BY <1>3, <2>1, <2>3 DEF ClientOk
      <3>4. client[x].conn # 0 =>
               /\ conn'[client[x].conn].open /\ conn'[client[x].conn].client = x
               /\ conn'[client[x].conn].request = conn[client[x].conn].request
        BY <1>3, <2>1, <3>2, <3>3 DEF ClientOk
      <3> QED BY <1>1, <2>1, <3>1, <3>4 DEF ClientOk
    <2> QED BY <2>2, <2>3
  <1>7. TableInv' BY <1>1, <1>3, TableKept DEF Sane
  <1>8. OwnedInv'
    <2> SUFFICES ASSUME NEW x \in Clients PROVE OwnedOk(x)' BY DEF OwnedInv
    <2>1. OwnedOk(x) BY DEF Sane, OwnedInv
    <2>2. CASE x = c
      <3>1. ~Got(c)' /\ ~Handed(c)' BY <1>2 DEF Got, Handed
      <3>2. Known(c)' = {Drive(d) : d \in record.files} BY <1>2 DEF Known
      <3> QED BY <1>1, <2>2, <3>1, <3>2 DEF OwnedOk
    <2>3. CASE x # c
      <3>1. client'[x] = client[x] BY <1>2, <2>3
      <3> QED BY <1>1, <2>1, <3>1 DEF OwnedOk, Alive, Known, Got, Handed
    <2> QED BY <2>2, <2>3
  <1> QED BY <1>1, <1>4, <1>5, <1>6, <1>7, <1>8 DEF HelperIInv, Sane, OnlyDeathMiscloses

LEMMA ReceiveStep ==
    ASSUME TypeInv, Sane, ~misclosed, NEW c \in Clients, Receive(c)
    PROVE  HelperIInv'
  <1> DEFINE r == client[c]
             answer == client[c].inbox
             read == [client[c] EXCEPT !.want = None, !.conn = 0, !.inbox = None]
             closed == IF client[c].conn = 0 THEN conn
                       ELSE [conn EXCEPT ![client[c].conn].open = FALSE]
  <1>1. r.st = "waiting" /\ r.inbox # None /\ UNCHANGED <<Environment, ServerState, misclosed>>
    BY DEF Receive
  <1>2. r \in ClientRecords /\ answer \in Answers
    BY <1>1, ClientRecord DEF TypeInv
  <1>3. Alive(c) /\ Known(c) \subseteq owned[c] /\ (helper # "gone" /\ ~Handed(c) => owned[c] = Known(c))
    BY <1>1 DEF Alive, Sane, OwnedInv, OwnedOk
  <1>4. answer.kind # "ok" => ~Handed(c)
    <2>1. r.conn # 0 => conn[r.conn].request = None /\ r.conn \in Connections
      BY <1>1, <1>2 DEF Sane, ClientInv, ClientOk, ClientRecords
    <2>2. r.conn # 0 => thread[r.conn].pc # "reply"
      BY <2>1, HelperAssumption DEF Sane, ConnInv, ConnOk, Busy
    <2> QED BY <2>2 DEF Handed, Got
  <1>5. CASE answer.kind = "list"
    <2> DEFINE s == [read EXCEPT !.st = "idle", !.todo = answer.drives]
    <2>1. client' = [client EXCEPT ![c] = s] /\ conn' = closed /\ owned' = owned
      BY <1>5 DEF Receive
    <2>2. /\ s.st = "idle" /\ s.files = r.files /\ s.conn = 0 /\ s.inbox = None
          /\ s \in ClientRecords
      <3>1. answer.drives \in SUBSET Disks BY <1>2, <1>5 DEF Answers
      <3> HIDE DEF answer
      <3>2. s = [[r EXCEPT !.want = None, !.conn = 0, !.inbox = None]
                   EXCEPT !.st = "idle", !.todo = answer.drives]
        OBVIOUS
      <3> HIDE DEF r, s
      <3> QED BY <1>2, <3>1, <3>2 DEF ClientRecords, States
    <2>3. {Drive(d) : d \in s.files} = Known(c) BY <2>2 DEF Known
    <2> HIDE DEF s
    <2> QED BY <1>1, <1>3, <1>4, <1>5, <2>1, <2>2, <2>3, ClientReads
  <1>6. CASE answer.kind = "ok"
    <2> DEFINE w == client[c].want
               s == [read EXCEPT !.st = IF c = Gui THEN "idle" ELSE "mounted",
                                 !.files = @ \cup {w}]
    <2>1. client' = [client EXCEPT ![c] = s] /\ conn' = closed /\ owned' = owned
      BY <1>6 DEF Receive
    <2>2. Got(c) /\ Handed(c) BY <1>1, <1>6 DEF Got, Handed
    <2>3. w \in Disks /\ Drive(w) \in owned[c]
          /\ (helper # "gone" => owned[c] = Known(c) \cup {Drive(w)})
      BY <1>3, <2>2 DEF Sane, OwnedInv, OwnedOk
    <2>4. /\ s.st \in {"idle", "mounted"} /\ s.files = r.files \cup {w}
          /\ s.conn = 0 /\ s.inbox = None
          /\ s \in ClientRecords
      <3> HIDE DEF w
      <3>2. s = [[r EXCEPT !.want = None, !.conn = 0, !.inbox = None]
                   EXCEPT !.st = IF c = Gui THEN "idle" ELSE "mounted", !.files = r.files \cup {w}]
        BY <1>2 DEF ClientRecords
      <3> HIDE DEF r, s
      <3> QED BY <1>2, <2>3, <3>2 DEF ClientRecords, States
    <2>5. {Drive(d) : d \in s.files} = Known(c) \cup {Drive(w)} BY <2>4 DEF Known
    <2> HIDE DEF s, w
    <2> QED BY <1>1, <1>3, <2>1, <2>3, <2>4, <2>5, ClientReads
  <1>7. CASE answer.kind = "error" /\ c = Gui
    <2> DEFINE s == [read EXCEPT !.st = "idle"]
    <2>1. client' = [client EXCEPT ![c] = s] /\ conn' = closed /\ owned' = owned
      BY <1>7 DEF Receive
    <2>2. /\ s.st = "idle" /\ s.files = r.files /\ s.conn = 0 /\ s.inbox = None
          /\ s \in ClientRecords
      <3>1. s = [[r EXCEPT !.want = None, !.conn = 0, !.inbox = None] EXCEPT !.st = "idle"]
        OBVIOUS
      <3> HIDE DEF r, s
      <3> QED BY <1>2, <3>1 DEF ClientRecords, States
    <2>3. {Drive(d) : d \in s.files} = Known(c) BY <2>2 DEF Known
    <2> HIDE DEF s
    <2> QED BY <1>1, <1>3, <1>4, <1>7, <2>1, <2>2, <2>3, ClientReads
  <1>8. CASE answer.kind = "error" /\ c # Gui
    <2>1. EndProcess(c) BY <1>8 DEF Receive
    <2> QED BY <1>1, <2>1, ProcessEndStep
  <1>9. answer.kind \in {"list", "ok", "error"} BY <1>2 DEF Answers
  <1> QED BY <1>5, <1>6, <1>7, <1>8, <1>9

-----------------------------------------------------------------------------
(* The helper's loop *)

LEMMA ThreadRecord ==
    ASSUME ThreadType, NEW t \in Connections
    PROVE  /\ thread[t] \in ThreadRecords
           /\ thread[t].pc \in Places /\ thread[t].pipe \in Handles \cup {0}
           /\ thread[t].disk \in Handles \cup {0} /\ thread[t].process \in Handles \cup {0}
  BY DEF ThreadType, ThreadRecords

LEMMA ConnRecord ==
    ASSUME ConnType, NEW t \in Connections
    PROVE  /\ conn[t] \in ConnRecords
           /\ conn[t].st \in {"none", "listening", "connected"}
           /\ conn[t].client \in Clients \cup {None} /\ conn[t].request \in Jobs \cup {None}
           /\ conn[t].open \in BOOLEAN
  BY DEF ConnType, ConnRecords

\* What an object is, and whose, is told by its name.
LEMMA NamesDiffer ==
    ASSUME NEW a, NEW b, NEW c
    PROVE  /\ Pipe(a) # Drive(b) /\ Pipe(a) # Process(b) /\ Drive(a) # Process(b)
           /\ (Pipe(a) = Pipe(b) => a = b) /\ (Drive(a) = Drive(b) => a = b)
           /\ (Process(a) = Process(b) => a = b)
           /\ Pipe(a) # <<"nothing", c>>
  BY DEF Pipe, Drive, Process

\* What the clients see of the helper does not change.
LEMMA OwnedKept ==
    ASSUME TypeInv, OwnedInv, client' = client, owned' = owned, helper' = helper,
           \A t \in Connections : (thread'[t].pc = "reply") = (thread[t].pc = "reply")
    PROVE  OwnedInv'
  <1> SUFFICES ASSUME NEW x \in Clients PROVE OwnedOk(x)' BY DEF OwnedInv
  <1>1. OwnedOk(x) BY DEF OwnedInv
  <1>2. client[x].conn \in Connections \cup {0} BY ClientRecord DEF TypeInv
  <1> QED BY <1>1, <1>2 DEF OwnedOk, Alive, Known, Got, Handed

LEMMA CreateInstanceStep ==
    ASSUME TypeInv, Sane, ~misclosed, NEW t \in Connections, CreateInstance(t)
    PROVE  HelperIInv'
  <1> DEFINE v == Min(FreeValues)
             k == [conn[t] EXCEPT !.st = "listening"]
             h == [thread[t] EXCEPT !.pipe = v]
  <1>1. UNCHANGED <<gui, helper, attached, client, owned, misclosed>> /\ helper = "up"
    BY DEF CreateInstance, Environment
  <1>2. conn[t] = NoConn /\ thread[t] = NoThread
    BY DEF CreateInstance, Sane, ConnInv, ConnOk
  <1>3. OpensValue(v, Pipe(t)) BY OpenIsNew DEF CreateInstance
  <1>4. k = [NoConn EXCEPT !.st = "listening"] /\ h = [NoThread EXCEPT !.pipe = v]
    BY <1>2
  <1>5. conn' = [conn EXCEPT ![t] = k] /\ thread' = [thread EXCEPT ![t] = h]
    BY DEF CreateInstance
  <1> HIDE DEF v, k, h
  <1>6. /\ k.st = "listening" /\ k.client = None /\ k.request = None /\ ~k.open
        /\ k \in ConnRecords
    BY <1>4 DEF NoConn, ConnRecords
  <1>7. h.pc = "none" /\ h.pipe = v /\ h \in ThreadRecords
    BY <1>3, <1>4 DEF NoThread, ThreadRecords, Places, OpensValue
  <1>8. conn'[t] = k /\ thread'[t] = h
        /\ \A u \in Connections : u # t => conn'[u] = conn[u] /\ thread'[u] = thread[u]
    BY <1>5 DEF TypeInv, ConnType, ThreadType
  <1>9. TypeInv'
    <2>1. ConnType' BY <1>5, <1>6 DEF TypeInv, ConnType
    <2>2. ThreadType' BY <1>5, <1>7 DEF TypeInv, ThreadType
    <2>3. DOMAIN table' \subseteq Handles BY <1>3 DEF OpensValue, TypeInv
    <2> QED BY <1>1, <2>1, <2>2, <2>3 DEF TypeInv, ClientType
  <1>10. ConnInv'
    <2> SUFFICES ASSUME NEW u \in Connections PROVE ConnOk(u)' BY DEF ConnInv
    <2>1. ConnOk(u) BY DEF Sane, ConnInv
    <2>2. CASE u = t BY <1>1, <1>6, <1>7, <1>8, <2>2 DEF ConnOk, Busy
    <2>3. CASE u # t BY <1>1, <1>8, <2>1, <2>3 DEF ConnOk
    <2> QED BY <2>2, <2>3
  <1>11. ClientInv'
    <2> SUFFICES ASSUME NEW x \in Clients PROVE ClientOk(x)' BY DEF ClientInv
    <2>1. ClientOk(x) BY DEF Sane, ClientInv
    <2>2. client[x].conn \in Connections \cup {0} BY ClientRecord DEF TypeInv
    <2>3. client[x].conn # 0 => client[x].conn # t
      BY <1>2, <2>1 DEF ClientOk, NoConn
    <2>4. client[x].conn # 0 => conn'[client[x].conn] = conn[client[x].conn]
      BY <1>8, <2>2, <2>3
    <2> QED BY <1>1, <2>1, <2>4 DEF ClientOk
  <1>12. TableInv'
    <2>1. ASSUME NEW u \in Connections PROVE Holds(u)'
      <3>1. CASE u = t BY <1>3, <1>6, <1>7, <1>8, <3>1 DEF Holds, OpensValue
      <3>2. CASE u # t
        <4>1. Holds(u) BY DEF Sane, TableInv
        <4> QED BY <1>3, <1>8, <3>2, <4>1 DEF Holds, OpensValue
      <3> QED BY <3>1, <3>2
    <2>2. ASSUME NEW u \in Connections, NEW x \in Connections, u # x PROVE Apart(u, x)'
      <3>1. Apart(u, x) BY <2>2 DEF Sane, TableInv
      <3> QED BY <1>7, <1>8, <3>1 DEF Apart
    <2>3. ASSUME NEW w \in DOMAIN table' PROVE \E u \in Connections : IsOf(w, u)'
      <3>1. CASE w = v BY <1>3, <1>6, <1>7, <1>8, <3>1 DEF IsOf, OpensValue
      <3>2. CASE w # v
        <4>1. w \in DOMAIN table /\ table'[w] = table[w] BY <1>3, <2>3, <3>2 DEF OpensValue
        <4>2. PICK u \in Connections : IsOf(w, u) BY <4>1 DEF Sane, TableInv
        <4>3. u # t BY <1>2, <4>2 DEF IsOf, NoConn, NoThread
        <4>4. IsOf(w, u)' BY <1>8, <4>1, <4>2, <4>3 DEF IsOf
        <4> QED BY <4>4
      <3> QED BY <3>1, <3>2
    <2> QED BY <2>1, <2>2, <2>3 DEF TableInv
  <1>13. OwnedInv'
    <2>1. \A u \in Connections : (thread'[u].pc = "reply") = (thread[u].pc = "reply")
      BY <1>2, <1>7, <1>8 DEF NoThread
    <2> QED BY <1>1, <2>1, OwnedKept DEF Sane
  <1> QED BY <1>1, <1>9, <1>10, <1>11, <1>12, <1>13 DEF HelperIInv, Sane, OnlyDeathMiscloses

LEMMA AcceptStep ==
    ASSUME TypeInv, Sane, ~misclosed, NEW t \in Connections, Accept(t)
    PROVE  HelperIInv'
  <1> DEFINE r == thread[t]
             h == [r EXCEPT !.pc = "read"]
  <1>1. UNCHANGED <<gui, helper, attached, client, conn, table, owned, misclosed>>
    BY DEF Accept, Environment
  <1>2. conn[t].st = "connected" /\ thread[t].pc = "none" BY DEF Accept, InAccept
  <1>3. thread' = [thread EXCEPT ![t] = h] BY DEF Accept
  <1>4. h.pc = "read" /\ h.pipe = r.pipe /\ h \in ThreadRecords
    <2>1. r \in ThreadRecords BY ThreadRecord DEF TypeInv
    <2> HIDE DEF r
    <2> QED BY <2>1 DEF ThreadRecords, Places
  <1> HIDE DEF h
  <1>5. thread'[t] = h /\ \A u \in Connections : u # t => thread'[u] = thread[u]
    BY <1>3 DEF TypeInv, ThreadType
  <1>6. TypeInv'
    <2>1. ThreadType' BY <1>3, <1>4 DEF TypeInv, ThreadType
    <2> QED BY <1>1, <2>1 DEF TypeInv, ClientType, ConnType
  <1>7. ConnInv'
    <2> SUFFICES ASSUME NEW u \in Connections PROVE ConnOk(u)' BY DEF ConnInv
    <2>1. ConnOk(u) BY DEF Sane, ConnInv
    <2> QED BY <1>1, <1>2, <1>4, <1>5, <2>1 DEF ConnOk, Busy
  <1>8. ClientInv' BY <1>1 DEF Sane, ClientInv, ClientOk
  <1>9. TableInv'
    <2>1. ASSUME NEW u \in Connections PROVE Holds(u)'
      <3>1. Holds(u) BY DEF Sane, TableInv
      <3> QED BY <1>1, <1>4, <1>5, <3>1 DEF Holds
    <2>2. ASSUME NEW u \in Connections, NEW x \in Connections, u # x PROVE Apart(u, x)'
      <3>1. Apart(u, x) BY <2>2 DEF Sane, TableInv
      <3> QED BY <1>4, <1>5, <3>1 DEF Apart
    <2>3. ASSUME NEW w \in DOMAIN table' PROVE \E u \in Connections : IsOf(w, u)'
      <3>1. PICK u \in Connections : IsOf(w, u) BY <1>1 DEF Sane, TableInv
      <3>2. IsOf(w, u)' BY <1>1, <1>2, <1>4, <1>5, <3>1 DEF IsOf
      <3> QED BY <3>2
    <2> QED BY <2>1, <2>2, <2>3 DEF TableInv
  <1>10. OwnedInv'
    <2>1. \A u \in Connections : (thread'[u].pc = "reply") = (thread[u].pc = "reply")
      BY <1>2, <1>4, <1>5
    <2> QED BY <1>1, <2>1, OwnedKept DEF Sane
  <1> QED BY <1>1, <1>6, <1>7, <1>8, <1>9, <1>10 DEF HelperIInv, Sane, OnlyDeathMiscloses

LEMMA NothingThere ==
    /\ NoConn.st = "none" /\ NoConn.request = None /\ NoConn.open = FALSE
    /\ NoThread.pc = "none"
  BY DEF NoConn, NoThread

\* A connection is closed that its client has left already.
LEMMA ClosePipeStep ==
    ASSUME TypeInv, Sane, ~misclosed, NEW t \in Connections, ClosePipe(t),
           conn[t].st = "connected", ~conn[t].open, thread[t].pc \in {"none", "read"}
    PROVE  HelperIInv'
  <1>1. UNCHANGED <<gui, helper, attached, owned>> BY DEF ClosePipe, Environment
  <1>2. conn' = [conn EXCEPT ![t] = NoConn] /\ thread' = [thread EXCEPT ![t] = NoThread]
    BY DEF ClosePipe
  <1>3. thread[t].pipe \in DOMAIN table /\ table[thread[t].pipe] = Pipe(t)
    BY DEF Sane, TableInv, Holds
  <1>4. misclosed' = misclosed BY <1>3 DEF ClosePipe, Named, TypeInv
  <1>5. ClosesValues({thread[t].pipe}) BY CloseIs DEF ClosePipe
  <1>6. client' = client
    <2>1. \A c \in Clients : client[c].conn # t
      BY HelperAssumption DEF Sane, ClientInv, ClientOk
    <2>2. client = [c \in Clients |-> client[c]] BY DEF TypeInv, ClientType
    <2> QED BY <2>1, <2>2 DEF ClosePipe
  <1>7. /\ conn'[t] = NoConn /\ thread'[t] = NoThread
        /\ \A u \in Connections : u # t => conn'[u] = conn[u] /\ thread'[u] = thread[u]
    BY <1>2 DEF TypeInv, ConnType, ThreadType
  <1>8. TypeInv'
    <2>1. NoConn \in ConnRecords /\ NoThread \in ThreadRecords
      BY DEF NoConn, NoThread, ConnRecords, ThreadRecords, Places
    <2>2. ConnType' BY <1>2, <2>1 DEF TypeInv, ConnType
    <2>3. ThreadType' BY <1>2, <2>1 DEF TypeInv, ThreadType
    <2>4. DOMAIN table' \subseteq Handles BY <1>5 DEF ClosesValues, TypeInv
    <2> QED BY <1>1, <1>4, <1>6, <2>2, <2>3, <2>4 DEF TypeInv, ClientType
  <1>9. ConnInv'
    <2> SUFFICES ASSUME NEW u \in Connections PROVE ConnOk(u)' BY DEF ConnInv
    <2>1. ConnOk(u) BY DEF Sane, ConnInv
    <2>2. CASE u = t BY <1>7, <2>2, NothingThere DEF ConnOk, Busy
    <2>3. CASE u # t BY <1>1, <1>6, <1>7, <2>1, <2>3 DEF ConnOk
    <2> QED BY <2>2, <2>3
  <1>10. ClientInv'
    <2> SUFFICES ASSUME NEW x \in Clients PROVE ClientOk(x)' BY DEF ClientInv
    <2>1. ClientOk(x) BY DEF Sane, ClientInv
    <2>2. client[x].conn \in Connections \cup {0} BY ClientRecord DEF TypeInv
    <2>3. client[x].conn # 0 => conn'[client[x].conn] = conn[client[x].conn]
      BY <1>7, <2>1, <2>2 DEF ClientOk
    <2> QED BY <1>1, <1>6, <2>1, <2>3 DEF ClientOk
  <1>11. TableInv'
    <2>1. ASSUME NEW u \in Connections PROVE Holds(u)'
      <3>1. CASE u = t BY <1>7, <3>1 DEF Holds, NoConn, NoThread
      <3>2. CASE u # t
        <4>1. Holds(u) BY DEF Sane, TableInv
        <4>2. conn'[u] = conn[u] /\ thread'[u] = thread[u] BY <1>7, <3>2
        <4>3. ASSUME NEW w \in DOMAIN table, table[w] # Pipe(t)
              PROVE  w \in DOMAIN table' /\ table'[w] = table[w]
          BY <1>3, <1>5, <4>3 DEF ClosesValues
        <4>4. Pipe(u) # Pipe(t) BY <3>2, NamesDiffer
        <4>5. \A x : Drive(x) # Pipe(t) /\ Process(x) # Pipe(t) BY NamesDiffer
        <4> QED BY <4>1, <4>2, <4>3, <4>4, <4>5 DEF Holds
      <3> QED BY <3>1, <3>2
    <2>2. ASSUME NEW u \in Connections, NEW x \in Connections, u # x PROVE Apart(u, x)'
      <3>1. Apart(u, x) BY <2>2 DEF Sane, TableInv
      <3> QED BY <1>7, <3>1 DEF Apart, NoThread
    <2>3. ASSUME NEW w \in DOMAIN table' PROVE \E u \in Connections : IsOf(w, u)'
      <3>1. w \in DOMAIN table /\ w # thread[t].pipe /\ table'[w] = table[w]
        BY <1>5 DEF ClosesValues
      <3>2. PICK u \in Connections : IsOf(w, u) BY <3>1 DEF Sane, TableInv
      <3>3. u # t BY <3>1, <3>2 DEF IsOf
      <3>4. IsOf(w, u)' BY <1>7, <3>1, <3>2, <3>3 DEF IsOf
      <3> QED BY <3>4
    <2> QED BY <2>1, <2>2, <2>3 DEF TableInv
  <1>12. OwnedInv'
    <2>1. \A u \in Connections : (thread'[u].pc = "reply") = (thread[u].pc = "reply")
      BY <1>7 DEF NoThread
    <2> QED BY <1>1, <1>6, <2>1, OwnedKept DEF Sane
  <1> QED BY <1>4, <1>8, <1>9, <1>10, <1>11, <1>12 DEF HelperIInv, Sane, OnlyDeathMiscloses

LEMMA RefuseStep ==
    ASSUME TypeInv, Sane, ~misclosed, NEW t \in Connections, Refuse(t)
    PROVE  HelperIInv'
  BY ClosePipeStep DEF Refuse, InAccept

LEMMA EndThreadStep ==
    ASSUME TypeInv, Sane, ~misclosed, NEW t \in Connections, EndThread(t)
    PROVE  HelperIInv'
  <1>1. conn[t].st = "connected" BY DEF EndThread, Sane, ConnInv, ConnOk
  <1> QED BY <1>1, ClosePipeStep DEF EndThread

\* The end of the helper: what it has written can still be read.
LEMMA HelperStopsStep ==
    ASSUME TypeInv, Sane, ~misclosed, HelperStops
    PROVE  HelperIInv'
  <1>1. UNCHANGED <<gui, attached, owned, misclosed>> /\ helper' = "gone" BY DEF HelperStops
  <1>2. \A t \in Connections : conn'[t] = NoConn /\ thread'[t] = NoThread BY DEF HelperStops
  <1>3. ASSUME NEW c \in Clients
        PROVE  /\ client'[c].st = client[c].st /\ client'[c].conn = 0
               /\ client'[c].want = client[c].want /\ client'[c].inbox = client[c].inbox
               /\ client'[c].files = client[c].files
               /\ client'[c] \in ClientRecords
    <2> DEFINE r == client[c]
               s == [r EXCEPT !.conn = 0]
    <2>1. r \in ClientRecords BY ClientRecord DEF TypeInv
    <2>2. client'[c] = s BY DEF HelperStops
    <2>3. /\ s.st = r.st /\ s.conn = 0 /\ s.want = r.want /\ s.inbox = r.inbox
          /\ s.files = r.files /\ s \in ClientRecords
      <3> HIDE DEF r
      <3> QED BY <2>1 DEF ClientRecords
    <2> QED BY <2>2, <2>3
  <1>4. DOMAIN table' = {} BY DEF HelperStops
  <1>5. TypeInv'
    <2>1. ClientType'
      <3>1. client' = [c \in Clients |-> client'[c]] BY DEF HelperStops
      <3> QED BY <1>3, <3>1 DEF ClientType
    <2>2. ConnType' BY DEF HelperStops, ConnType, ConnRecords, NoConn
    <2>3. ThreadType' BY DEF HelperStops, ThreadType, ThreadRecords, NoThread, Places
    <2> QED BY <1>1, <1>4, <2>1, <2>2, <2>3 DEF TypeInv
  <1>6. ConnInv' BY <1>2, NothingThere DEF ConnInv, ConnOk, Busy
  <1>7. ClientInv' BY <1>1, <1>3 DEF Sane, ClientInv, ClientOk
  <1>8. TableInv' BY <1>2, <1>4 DEF TableInv, Holds, Apart, NoConn, NoThread
  <1>9. OwnedInv'
    <2> SUFFICES ASSUME NEW x \in Clients PROVE OwnedOk(x)' BY DEF OwnedInv
    <2>1. OwnedOk(x) BY DEF Sane, OwnedInv
    <2> QED BY <1>1, <1>3, <2>1 DEF OwnedOk, Alive, Known, Got
  <1> QED BY <1>1, <1>5, <1>6, <1>7, <1>8, <1>9 DEF HelperIInv, Sane, OnlyDeathMiscloses

-----------------------------------------------------------------------------
(* The helper's threads *)

\* Who has the other end of a connection is waiting for its request.
LEMMA OtherEnd ==
    ASSUME TypeInv, Sane, NEW t \in Connections, conn[t].request # None
    PROVE  /\ conn[t].st = "connected" /\ conn[t].client \in Clients
           /\ conn[t].open =>
                 /\ client[conn[t].client].st = "waiting" /\ client[conn[t].client].conn = t
                 /\ client[conn[t].client].inbox = None
                 /\ client[conn[t].client].want = conn[t].request
           /\ ~conn[t].open =>
                 /\ client[conn[t].client].st = "dead"
                 /\ \A c \in Clients : client[c].conn # t
  <1>1. conn[t].st = "connected" BY NotConnected
  <1>2. ConnOk(t) BY DEF Sane, ConnInv
  <1>3. conn[t].client \in Clients BY <1>1, <1>2 DEF ConnOk
  <1>4. ClientOk(conn[t].client) BY <1>3 DEF Sane, ClientInv
  <1>5. t # 0 BY HelperAssumption
  <1>6. conn[t].open => client[conn[t].client].conn = t BY <1>2 DEF ConnOk
  <1>7. ASSUME ~conn[t].open, NEW c \in Clients PROVE client[c].conn # t
    BY <1>5, <1>7 DEF Sane, ClientInv, ClientOk
  <1>8. ~conn[t].open => client[conn[t].client].st = "dead" BY <1>2 DEF ConnOk
  <1>9. conn[t].open => /\ client[conn[t].client].st = "waiting"
                        /\ client[conn[t].client].inbox = None
                        /\ client[conn[t].client].want = conn[t].request
    BY <1>4, <1>5, <1>6 DEF ClientOk
  <1> QED BY <1>1, <1>3, <1>6, <1>7, <1>8, <1>9

\* A thread answers, and has nothing in hand any more.
LEMMA AnswerStep ==
    ASSUME TypeInv, Sane, ~misclosed, NEW t \in Connections, NEW a \in Answers,
           Answer(t, a), conn[t].request # None,
           UNCHANGED <<gui, helper, attached, owned>>, misclosed' = FALSE,
           (thread' = thread /\ thread[t].pc = "read") \/ thread' = BackToRead(t),
           thread[t].pc \in {"read"} \cup Busy,
           (a.kind = "ok") = (thread[t].pc = "reply"),
           NEW S, ClosesValues(S),
           \/ S = {} /\ thread[t].pc \notin {"process", "duplicate"}
           \/ S = {thread[t].disk} /\ thread[t].pc = "process"
    PROVE  HelperIInv'
  <1> DEFINE c0 == conn[t].client
             r == client[c0]
             s == [r EXCEPT !.inbox = a]
  <1>1. /\ conn[t].st = "connected" /\ c0 \in Clients
        /\ conn[t].open => r.st = "waiting" /\ r.conn = t /\ r.inbox = None
                           /\ r.want = conn[t].request
        /\ ~conn[t].open => r.st = "dead" /\ \A c \in Clients : client[c].conn # t
    BY OtherEnd
  <1>2. a # None /\ t # 0 BY HelperAssumption
  <1>3. Named(thread[t].pipe) = Pipe(t) BY <1>1 DEF Sane, TableInv, Holds, Named
  <1>4. /\ s.st = r.st /\ s.conn = r.conn /\ s.want = r.want /\ s.files = r.files
        /\ s.inbox = a /\ s \in ClientRecords
    <2>1. r \in ClientRecords BY <1>1, ClientRecord DEF TypeInv
    <2> HIDE DEF r
    <2> QED BY <2>1 DEF ClientRecords
  <1>5. client' = IF conn[t].open THEN [client EXCEPT ![c0] = s] ELSE client
    <2>1. client' = IF conn[t].open /\ Named(thread[t].pipe) = Pipe(t)
                    THEN [client EXCEPT ![c0].inbox = a] ELSE client
      BY DEF Answer
    <2>2. CASE conn[t].open BY <1>3, <2>1, <2>2
    <2>3. CASE ~conn[t].open BY <2>1, <2>3
    <2> QED BY <2>2, <2>3
  <1> HIDE DEF s, r, c0
  <1>6. /\ conn[t].open => client'[c0] = s
        /\ \A x \in Clients : x # c0 => client'[x] = client[x]
        /\ ~conn[t].open => \A x \in Clients : client'[x] = client[x]
    BY <1>1, <1>5 DEF TypeInv, ClientType
  <1>7. r = client[c0] BY DEF r
  <1>8. \A x \in Clients : /\ client'[x].st = client[x].st /\ client'[x].conn = client[x].conn
                           /\ client'[x].want = client[x].want /\ client'[x].files = client[x].files
                           /\ x # c0 => client'[x].inbox = client[x].inbox
    <2> SUFFICES ASSUME NEW x \in Clients
                 PROVE  /\ client'[x].st = client[x].st /\ client'[x].conn = client[x].conn
                        /\ client'[x].want = client[x].want /\ client'[x].files = client[x].files
                        /\ x # c0 => client'[x].inbox = client[x].inbox
      OBVIOUS
    <2>1. CASE client'[x] = client[x] BY <2>1
    <2>2. CASE x = c0 /\ client'[x] = s BY <1>4, <1>7, <2>2
    <2> QED BY <1>6, <2>1, <2>2
  <1>9. /\ conn'[t].st = conn[t].st /\ conn'[t].client = c0 /\ conn'[t].open = conn[t].open
        /\ conn'[t].request = None
        /\ \A u \in Connections : u # t => conn'[u] = conn[u]
        /\ conn' \in [Connections -> ConnRecords]
    BY DEF Answer, TypeInv, ConnType, ConnRecords, c0
  <1>10. /\ thread'[t].pc = "read" /\ thread'[t].pipe = thread[t].pipe
         /\ \A u \in Connections : u # t => thread'[u] = thread[u]
         /\ thread' \in [Connections -> ThreadRecords]
    <2> DEFINE h0 == thread[t]
               h == [h0 EXCEPT !.pc = "read", !.disk = 0, !.process = 0]
    <2>1. BackToRead(t) = [thread EXCEPT ![t] = h] BY DEF BackToRead
    <2>2. h0 \in ThreadRecords BY ThreadRecord DEF TypeInv
    <2>3. h.pc = "read" /\ h.pipe = h0.pipe /\ h \in ThreadRecords
      <3> HIDE DEF h0
      <3> QED BY <2>2 DEF ThreadRecords, Places
    <2> HIDE DEF h
    <2> QED BY <2>1, <2>3 DEF TypeInv, ThreadType
  <1>11. TypeInv'
    <2>1. ClientType' BY <1>1, <1>4, <1>5 DEF TypeInv, ClientType
    <2>2. DOMAIN table' \subseteq Handles BY DEF TypeInv, ClosesValues
    <2> QED BY <1>9, <1>10, <2>1, <2>2 DEF TypeInv, ConnType, ThreadType
  <1>12. ConnInv'
    <2> SUFFICES ASSUME NEW u \in Connections PROVE ConnOk(u)' BY DEF ConnInv
    <2>1. ConnOk(u) BY DEF Sane, ConnInv
    <2>2. CASE u = t
      <3>1. client'[c0].st = client[c0].st /\ client'[c0].conn = client[c0].conn BY <1>1, <1>8
      <3>2. client[c0].st # "off" /\ c0 \in Clients
            /\ (helper # "up" => conn[t].st = "none")
            /\ (conn[t].open => client[c0].conn = t)
        BY <1>1, <2>1, <2>2 DEF ConnOk, c0
      <3> QED BY <1>1, <1>9, <1>10, <2>2, <3>1, <3>2 DEF ConnOk, Busy
    <2>3. CASE u # t /\ conn[u].st = "connected"
      <3>1. conn[u].client \in Clients BY <2>1, <2>3 DEF ConnOk
      <3>2. /\ client'[conn[u].client].st = client[conn[u].client].st
            /\ client'[conn[u].client].conn = client[conn[u].client].conn
        BY <1>8, <3>1
      <3>3. conn'[u] = conn[u] /\ thread'[u] = thread[u] BY <1>9, <1>10, <2>3
      <3> QED BY <2>1, <2>3, <3>1, <3>2, <3>3 DEF ConnOk
    <2>4. CASE u # t /\ conn[u].st # "connected"
      <3>1. conn[u].request = None /\ ~conn[u].open /\ thread[u].pc = "none"
        BY <2>4, NotConnected
      <3>2. conn'[u] = conn[u] /\ thread'[u] = thread[u] BY <1>9, <1>10, <2>4
      <3> QED BY <2>1, <2>4, <3>1, <3>2 DEF ConnOk, Busy
    <2> QED BY <2>2, <2>3, <2>4
  <1>13. ClientInv'
    <2> SUFFICES ASSUME NEW x \in Clients PROVE ClientOk(x)' BY DEF ClientInv
    <2>1. ClientOk(x) BY DEF Sane, ClientInv
    <2>2. client[x].conn \in Connections \cup {0} BY ClientRecord DEF TypeInv
    <2>3. CASE conn[t].open /\ x = c0
      <3>1. /\ client'[x].st = "waiting" /\ client'[x].conn = t /\ client'[x].inbox = a
            /\ client'[x].want = client[x].want /\ client[x].st = "waiting"
        BY <1>1, <1>4, <1>6, <1>7, <2>3
      <3>2. conn'[t].open /\ conn'[t].client = x /\ conn'[t].request = None BY <1>9, <2>3
      <3>3. client[x].want \in Jobs BY <2>1, <3>1 DEF ClientOk
      <3> QED BY <1>2, <3>1, <3>2, <3>3 DEF ClientOk
    <2>4. CASE ~(conn[t].open /\ x = c0)
      <3>1. client'[x] = client[x] BY <1>6, <2>4
      <3>2. client[x].conn # t BY <1>1, <1>2, <2>1, <2>4 DEF ClientOk, c0
      <3>3. client[x].conn # 0 => conn'[client[x].conn] = conn[client[x].conn]
        BY <1>9, <2>2, <3>2
      <3> QED BY <2>1, <3>1, <3>3 DEF ClientOk
    <2> QED BY <2>3, <2>4
  <1>14. TableInv'
    <2>0. \A w \in S : w = thread[t].disk /\ thread[t].pc = "process"
                       /\ w \in DOMAIN table /\ table[w] = Drive(conn[t].request)
      BY DEF Sane, TableInv, Holds
    <2>1. ASSUME NEW u \in Connections PROVE Holds(u)'
      <3>1. Holds(u) BY DEF Sane, TableInv
      <3>2. ASSUME NEW w \in DOMAIN table, w \notin S
            PROVE  w \in DOMAIN table' /\ table'[w] = table[w]
        BY <3>2 DEF ClosesValues
      <3>3. conn[u].st # "none" => thread[u].pipe \in DOMAIN table \ S
        BY <2>0, <3>1, NamesDiffer DEF Holds
      <3>4. CASE u = t BY <1>9, <1>10, <3>1, <3>2, <3>3, <3>4 DEF Holds
      <3>5. CASE u # t
        <4>1. Apart(t, u) BY <3>5 DEF Sane, TableInv
        <4>2. thread[u].pc \in {"process", "duplicate"} => thread[u].disk \in DOMAIN table \ S
          BY <2>0, <3>1, <4>1 DEF Holds, Apart
        <4>3. thread[u].pc = "duplicate" => thread[u].process \in DOMAIN table \ S
          BY <2>0, <3>1, NamesDiffer DEF Holds
        <4> QED BY <1>9, <1>10, <3>1, <3>2, <3>3, <3>5, <4>2, <4>3 DEF Holds
      <3> QED BY <3>4, <3>5
    <2>2. ASSUME NEW u \in Connections, NEW x \in Connections, u # x PROVE Apart(u, x)'
      <3>1. Apart(u, x) BY <2>2 DEF Sane, TableInv
      <3> QED BY <1>10, <3>1 DEF Apart
    <2>3. ASSUME NEW w \in DOMAIN table' PROVE \E u \in Connections : IsOf(w, u)'
      <3>1. w \in DOMAIN table /\ w \notin S /\ table'[w] = table[w] BY DEF ClosesValues
      <3>2. PICK u \in Connections : IsOf(w, u) BY <3>1 DEF Sane, TableInv
      <3>3. CASE u = t
        <4>1. w = thread[t].pipe /\ table[w] = Pipe(t) BY <3>1, <3>2, <3>3 DEF IsOf
        <4>2. IsOf(w, t)' BY <1>1, <1>9, <1>10, <3>1, <4>1 DEF IsOf
        <4> QED BY <4>2
      <3>4. CASE u # t
        <4>1. IsOf(w, u)' BY <1>9, <1>10, <3>1, <3>2, <3>4 DEF IsOf
        <4> QED BY <4>1
      <3> QED BY <3>3, <3>4
    <2> QED BY <2>1, <2>2, <2>3 DEF TableInv
  <1>15. OwnedInv'
    <2> SUFFICES ASSUME NEW x \in Clients PROVE OwnedOk(x)' BY DEF OwnedInv
    <2>1. OwnedOk(x) BY DEF Sane, OwnedInv
    <2>2. client[x].conn \in Connections \cup {0} BY ClientRecord DEF TypeInv
    <2>3. Known(x)' = Known(x) BY <1>8 DEF Known
    <2>4. CASE conn[t].open /\ x = c0
      <3>1. Got(x)' <=> a.kind = "ok" BY <1>2, <1>4, <1>6, <2>4 DEF Got
      <3>2. Handed(x)' <=> a.kind = "ok"
        BY <1>1, <1>4, <1>6, <1>10, <2>4, <3>1 DEF Handed
      <3>3. ~Got(x) /\ (Handed(x) <=> a.kind = "ok")
        BY <1>1, <1>2, <1>7, <2>4 DEF Got, Handed
      <3>4. Alive(x) BY <1>1, <1>7, <2>4 DEF Alive
      <3>5. client'[x].want = client[x].want /\ client[x].want = conn[t].request
        BY <1>1, <1>7, <1>8, <2>4
      <3>6. a.kind = "ok" => conn[t].request \in Disks /\ helper = "up"
        BY <1>1 DEF Sane, ConnInv, ConnOk, Busy
      <3> QED BY <2>1, <2>3, <3>1, <3>2, <3>3, <3>4, <3>5, <3>6 DEF OwnedOk
    <2>5. CASE ~(conn[t].open /\ x = c0)
      <3>1. client'[x] = client[x] BY <1>6, <2>5
      <3>2. client[x].conn # t BY <1>1, <1>2, <2>5 DEF Sane, ClientInv, ClientOk, c0
      <3>3. Handed(x)' <=> Handed(x) BY <1>10, <2>2, <3>1, <3>2 DEF Handed, Got
      <3> QED BY <2>1, <2>3, <3>1, <3>3 DEF OwnedOk, Alive, Got
    <2> QED BY <2>4, <2>5
  <1> QED BY <1>11, <1>12, <1>13, <1>14, <1>15 DEF HelperIInv, Sane, OnlyDeathMiscloses

LEMMA HandleListStep ==
    ASSUME TypeInv, Sane, ~misclosed, NEW t \in Connections, HandleList(t)
    PROVE  HelperIInv'
  <1> DEFINE a == [kind |-> "list", drives |-> attached]
  <1>1. a \in Answers /\ a.kind # "ok" BY DEF Answers, TypeInv
  <1>2. /\ UNCHANGED <<gui, helper, attached, owned, thread, table>> /\ misclosed' = FALSE
        /\ Answer(t, a) /\ thread[t].pc = "read" /\ conn[t].request # None
    BY DEF HandleList, Environment, ServerState, InRead, TypeInv
  <1> HIDE DEF a
  <1>3. ClosesValues({}) BY <1>2 DEF ClosesValues
  <1> QED BY <1>1, <1>2, <1>3, AnswerStep

LEMMA ReplyStep ==
    ASSUME TypeInv, Sane, ~misclosed, NEW t \in Connections, Reply(t)
    PROVE  HelperIInv'
  <1> DEFINE a == [kind |-> "ok"]
  <1>1. a \in Answers /\ a.kind = "ok" BY DEF Answers
  <1>2. /\ UNCHANGED <<gui, helper, attached, owned, table>> /\ misclosed' = FALSE
        /\ Answer(t, a) /\ thread[t].pc = "reply" /\ thread' = BackToRead(t)
    BY DEF Reply, Environment, TypeInv
  <1> HIDE DEF a
  <1>3. ClosesValues({}) BY <1>2 DEF ClosesValues
  <1>4. conn[t].request # None /\ thread[t].pc \in Busy
    BY <1>2, HelperAssumption DEF Sane, ConnInv, ConnOk, Busy
  <1> QED BY <1>1, <1>2, <1>3, <1>4, AnswerStep

LEMMA CloseAgainStep ==
    ASSUME TypeInv, Sane, ~misclosed, NEW t \in Connections, CloseAgain(t)
    PROVE  HelperIInv'
  <1>1. /\ UNCHANGED <<gui, helper, attached, owned>> /\ Answer(t, ErrorAnswer)
        /\ thread[t].pc = "close disk" /\ thread' = BackToRead(t) /\ CloseDrive(t)
    BY DEF CloseAgain, Environment
  <1>2. conn[t].request \in Disks /\ conn[t].request # None /\ thread[t].pc \in Busy
        /\ client[conn[t].client].st = "dead"
    BY <1>1, HelperAssumption DEF Sane, ConnInv, ConnOk, Busy
  <1>3. ErrorAnswer \in Answers /\ ErrorAnswer.kind # "ok" BY DEF ErrorAnswer, Answers
  <1>4. CASE thread[t].disk \notin DOMAIN table
    <2>1. misclosed' = FALSE BY <1>1, <1>4 DEF CloseDrive, TypeInv
    <2>2. ClosesValues({})
      <3>1. ClosesValues({thread[t].disk}) BY <1>1, CloseIs DEF CloseDrive
      <3> QED BY <1>4, <3>1 DEF ClosesValues
    <2> QED BY <1>1, <1>2, <1>3, <2>1, <2>2, AnswerStep
  <1>5. CASE thread[t].disk \in DOMAIN table
    <2>1. misclosed' = TRUE BY <1>1, <1>5 DEF CloseDrive, TypeInv
    <2> DEFINE c0 == conn[t].client
    <2>2. c0 \in Clients /\ ~conn[t].open /\ client[c0].st = "dead"
      <3>1. c0 \in Clients BY <1>2, OtherEnd
      <3>2. ~conn[t].open BY <1>2, OtherEnd
      <3> QED BY <1>2, <3>1, <3>2
    <2>3. client' = client BY <1>1, <2>2 DEF Answer
    <2>4. OnlyDeathMiscloses' BY <2>2, <2>3 DEF OnlyDeathMiscloses
    <2>5. ConnType' BY <1>1 DEF Answer, TypeInv, ConnType, ConnRecords
    <2>6. ThreadType'
      <3> DEFINE h0 == thread[t]
                 h == [h0 EXCEPT !.pc = "read", !.disk = 0, !.process = 0]
      <3>1. thread' = [thread EXCEPT ![t] = h] BY <1>1 DEF BackToRead
      <3>2. h0 \in ThreadRecords BY ThreadRecord DEF TypeInv
      <3>3. h \in ThreadRecords
        <4> HIDE DEF h0
        <4> QED BY <3>2 DEF ThreadRecords, Places
      <3> HIDE DEF h
      <3> QED BY <3>1, <3>3 DEF TypeInv, ThreadType
    <2>7. DOMAIN table' \subseteq Handles
      BY <1>1 DEF CloseDrive, Closed, Restrict, TypeInv
    <2>8. TypeInv' BY <1>1, <2>1, <2>3, <2>5, <2>6, <2>7 DEF TypeInv, ClientType
    <2> QED BY <2>1, <2>4, <2>8 DEF HelperIInv
  <1> QED BY <1>4, <1>5

\* A thread opens the drive, or the process of the client.
LEMMA ThreadOpens ==
    ASSUME TypeInv, Sane, ~misclosed, NEW t \in Connections, NEW h \in ThreadRecords,
           NEW v, NEW object, OpensValue(v, object), thread' = [thread EXCEPT ![t] = h],
           UNCHANGED <<gui, helper, attached, client, conn, owned, misclosed>>,
           conn[t].request \in Disks, h.pipe = thread[t].pipe,
           \/ /\ thread[t].pc = "read" /\ h.pc = "process" /\ h.disk = v
              /\ object = Drive(conn[t].request)
           \/ /\ thread[t].pc = "process" /\ h.pc = "duplicate" /\ h.disk = thread[t].disk
              /\ h.process = v /\ object = Process(conn[t].client)
    PROVE  HelperIInv'
  <1>1. thread'[t] = h /\ \A u \in Connections : u # t => thread'[u] = thread[u]
    BY DEF TypeInv, ThreadType
  <1>2. TypeInv'
    <2>1. ThreadType' BY DEF TypeInv, ThreadType
    <2>2. DOMAIN table' \subseteq Handles BY DEF TypeInv, OpensValue
    <2> QED BY <2>1, <2>2 DEF TypeInv, ClientType, ConnType
  <1>3. ConnInv'
    <2> SUFFICES ASSUME NEW u \in Connections PROVE ConnOk(u)' BY DEF ConnInv
    <2>1. ConnOk(u) BY DEF Sane, ConnInv
    <2>2. CASE u = t BY <1>1, <2>1, <2>2, NothingThere DEF ConnOk, Busy
    <2>3. CASE u # t BY <1>1, <2>1, <2>3 DEF ConnOk
    <2> QED BY <2>2, <2>3
  <1>4. ClientInv' BY DEF Sane, ClientInv, ClientOk
  <1>5. \A w \in DOMAIN table : w \in DOMAIN table' /\ table'[w] = table[w] /\ w # v
    BY DEF OpensValue
  <1>6. v \in DOMAIN table' /\ table'[v] = object BY DEF OpensValue
  <1>7. TableInv'
    <2>1. ASSUME NEW u \in Connections PROVE Holds(u)'
      <3>1. Holds(u) BY DEF Sane, TableInv
      <3>2. CASE u = t BY <1>1, <1>5, <1>6, <3>1, <3>2 DEF Holds
      <3>3. CASE u # t BY <1>1, <1>5, <3>1, <3>3 DEF Holds
      <3> QED BY <3>2, <3>3
    <2>2. ASSUME NEW u \in Connections, NEW x \in Connections, u # x PROVE Apart(u, x)'
      <3>1. Apart(u, x) /\ Holds(u) /\ Holds(x) BY <2>2 DEF Sane, TableInv
      <3>2. CASE u = t /\ x # t BY <1>1, <1>5, <3>1, <3>2 DEF Apart, Holds
      <3>3. CASE u # t /\ x = t BY <1>1, <1>5, <3>1, <3>3 DEF Apart, Holds
      <3>4. CASE u # t /\ x # t BY <1>1, <3>1, <3>4 DEF Apart
      <3> QED BY <2>2, <3>2, <3>3, <3>4
    <2>3. ASSUME NEW w \in DOMAIN table' PROVE \E u \in Connections : IsOf(w, u)'
      <3>1. CASE w = v
        <4>1. IsOf(w, t)' BY <1>1, <1>6, <3>1 DEF IsOf
        <4> QED BY <4>1
      <3>2. CASE w # v
        <4>1. w \in DOMAIN table BY <3>2 DEF OpensValue
        <4>2. PICK u \in Connections : IsOf(w, u) BY <4>1 DEF Sane, TableInv
        <4>3. IsOf(w, u)' BY <1>1, <1>5, <4>1, <4>2 DEF IsOf
        <4> QED BY <4>3
      <3> QED BY <3>1, <3>2
    <2> QED BY <2>1, <2>2, <2>3 DEF TableInv
  <1>8. OwnedInv'
    <2>1. \A u \in Connections : (thread'[u].pc = "reply") = (thread[u].pc = "reply")
      BY <1>1
    <2> QED BY <2>1, OwnedKept DEF Sane
  <1> QED BY <1>2, <1>3, <1>4, <1>7, <1>8 DEF HelperIInv, Sane, OnlyDeathMiscloses

LEMMA OpenDeviceStep ==
    ASSUME TypeInv, Sane, ~misclosed, NEW t \in Connections, OpenDevice(t)
    PROVE  HelperIInv'
  <1>1. /\ UNCHANGED <<gui, helper, attached, owned, misclosed>> /\ thread[t].pc = "read"
        /\ conn[t].request \in Disks /\ conn[t].request # None
    BY DEF OpenDevice, Environment, InRead
  <1>2. CASE conn[t].request \in attached
    <2> DEFINE v == Min(FreeValues)
               r == thread[t]
               h == [r EXCEPT !.pc = "process", !.disk = v]
    <2>1. OpensValue(v, Drive(conn[t].request)) BY <1>2, OpenIsNew DEF OpenDevice
    <2>2. thread' = [thread EXCEPT ![t] = h] /\ UNCHANGED <<client, conn>>
      BY <1>2 DEF OpenDevice
    <2> HIDE DEF v
    <2>3. h.pc = "process" /\ h.disk = v /\ h.pipe = r.pipe /\ h \in ThreadRecords
      <3>1. r \in ThreadRecords /\ v \in Handles
        BY <2>1, ThreadRecord DEF TypeInv, OpensValue
      <3> HIDE DEF r
      <3> QED BY <3>1 DEF ThreadRecords, Places
    <2> HIDE DEF h
    <2> QED BY <1>1, <2>1, <2>2, <2>3, ThreadOpens
  <1>3. CASE conn[t].request \notin attached
    <2>1. Answer(t, ErrorAnswer) /\ UNCHANGED <<thread, table>>
      BY <1>3 DEF OpenDevice, ServerState
    <2>2. ErrorAnswer \in Answers /\ ErrorAnswer.kind # "ok" BY DEF ErrorAnswer, Answers
    <2>3. ClosesValues({}) /\ misclosed' = FALSE BY <1>1, <2>1 DEF ClosesValues, TypeInv
    <2> QED BY <1>1, <2>1, <2>2, <2>3, AnswerStep
  <1> QED BY <1>2, <1>3

LEMMA OpenClientStep ==
    ASSUME TypeInv, Sane, ~misclosed, NEW t \in Connections, OpenClient(t)
    PROVE  HelperIInv'
  <1>1. /\ UNCHANGED <<gui, helper, attached, owned>> /\ thread[t].pc = "process"
    BY DEF OpenClient, Environment
  <1>2. conn[t].request \in Disks /\ conn[t].request # None
    BY <1>1, HelperAssumption DEF Sane, ConnInv, ConnOk, Busy
  <1>3. CASE Alive(conn[t].client)
    <2> DEFINE v == Min(FreeValues)
               r == thread[t]
               h == [r EXCEPT !.pc = "duplicate", !.process = v]
    <2>1. OpensValue(v, Process(conn[t].client)) BY <1>3, OpenIsNew DEF OpenClient
    <2>2. thread' = [thread EXCEPT ![t] = h] /\ UNCHANGED <<client, conn, misclosed>>
      BY <1>3 DEF OpenClient
    <2> HIDE DEF v
    <2>3. /\ h.pc = "duplicate" /\ h.process = v /\ h.disk = r.disk /\ h.pipe = r.pipe
          /\ h \in ThreadRecords
      <3>1. r \in ThreadRecords /\ v \in Handles
        BY <2>1, ThreadRecord DEF TypeInv, OpensValue
      <3> HIDE DEF r
      <3> QED BY <3>1 DEF ThreadRecords, Places
    <2> HIDE DEF h
    <2> QED BY <1>1, <1>2, <2>1, <2>2, <2>3, ThreadOpens
  <1>4. CASE ~Alive(conn[t].client)
    <2>1. Answer(t, ErrorAnswer) /\ thread' = BackToRead(t) /\ CloseDrive(t)
      BY <1>4 DEF OpenClient
    <2>2. ErrorAnswer \in Answers /\ ErrorAnswer.kind # "ok" BY DEF ErrorAnswer, Answers
    <2>3. ClosesValues({thread[t].disk}) /\ misclosed' = FALSE
      BY <1>1, <2>1, CloseIs DEF CloseDrive, TypeInv
    <2>4. thread[t].pc \in Busy BY <1>1 DEF Busy
    <2> QED BY <1>1, <1>2, <2>1, <2>2, <2>3, <2>4, AnswerStep
  <1> QED BY <1>3, <1>4

\* The drive is handed over, or the client has died: what was opened is closed.
LEMMA DuplicateStep ==
    ASSUME TypeInv, Sane, ~misclosed, NEW t \in Connections, Duplicate(t)
    PROVE  HelperIInv'
  <1> DEFINE c0 == conn[t].client
             d == conn[t].request
             S == {thread[t].disk, thread[t].process}
             to == {c \in Clients : Alive(c) /\ Process(c) = Named(thread[t].process)}
             ok == to # {} /\ thread[t].disk \in DOMAIN table
             r == thread[t]
             h == [r EXCEPT !.pc = AfterHandOver(ok)]
  <1>1. /\ UNCHANGED <<gui, helper, attached, client, conn, misclosed>>
        /\ thread[t].pc = "duplicate"
    BY DEF Duplicate, Environment
  <1>2. /\ thread' = [thread EXCEPT ![t] = h]
        /\ owned' = [c \in Clients |-> IF ok /\ c \in to THEN owned[c] \cup {Named(thread[t].disk)}
                                       ELSE owned[c]]
    BY DEF Duplicate
  <1>3. ClosesValues(S) BY DEF Duplicate, Restrict, ClosesValues
  <1>4. d \in Disks /\ d # None /\ helper = "up"
    BY <1>1, HelperAssumption DEF Sane, ConnInv, ConnOk, Busy
  <1>5. /\ conn[t].st = "connected" /\ c0 \in Clients
        /\ conn[t].open => /\ client[c0].st = "waiting" /\ client[c0].conn = t
                           /\ client[c0].inbox = None /\ client[c0].want = d
        /\ ~conn[t].open => client[c0].st = "dead" /\ \A c \in Clients : client[c].conn # t
    BY <1>4, OtherEnd
  <1>6. Alive(c0) <=> conn[t].open BY <1>5 DEF Alive
  <1>7. /\ r.disk \in DOMAIN table /\ table[r.disk] = Drive(d)
        /\ r.process \in DOMAIN table /\ table[r.process] = Process(c0)
    BY <1>1 DEF Sane, TableInv, Holds
  <1>8. to = IF conn[t].open THEN {c0} ELSE {}
    <2>1. Named(r.process) = Process(c0) BY <1>7 DEF Named
    <2>2. \A c \in Clients : Process(c) = Process(c0) => c = c0 BY NamesDiffer
    <2> QED BY <1>5, <1>6, <2>1, <2>2
  <1>9. (ok <=> conn[t].open) /\ Named(thread[t].disk) = Drive(d) BY <1>7, <1>8 DEF Named
  <1> HIDE DEF to, ok
  <1>10. /\ h.pc = IF conn[t].open THEN "reply" ELSE "close disk"
         /\ h.pipe = r.pipe /\ h \in ThreadRecords
    <2>1. r \in ThreadRecords BY ThreadRecord DEF TypeInv
    <2>2. AfterHandOver(ok) = IF conn[t].open THEN "reply" ELSE "close disk"
      BY <1>9 DEF AfterHandOver
    <2> HIDE DEF r
    <2> QED BY <2>1, <2>2 DEF ThreadRecords, Places
  <1> HIDE DEF h
  <1>11. thread'[t] = h /\ \A u \in Connections : u # t => thread'[u] = thread[u]
    BY <1>2 DEF TypeInv, ThreadType
  <1>12. /\ conn[t].open => owned'[c0] = owned[c0] \cup {Drive(d)}
         /\ \A x \in Clients : ~(conn[t].open /\ x = c0) => owned'[x] = owned[x]
    BY <1>2, <1>5, <1>8, <1>9
  <1>13. TypeInv'
    <2>1. ThreadType' BY <1>2, <1>10 DEF TypeInv, ThreadType
    <2>2. DOMAIN table' \subseteq Handles BY <1>3 DEF TypeInv, ClosesValues
    <2>3. DOMAIN owned' = Clients BY <1>2
    <2> QED BY <1>1, <2>1, <2>2, <2>3 DEF TypeInv, ClientType, ConnType
  <1>14. ConnInv'
    <2> SUFFICES ASSUME NEW u \in Connections PROVE ConnOk(u)' BY DEF ConnInv
    <2>1. ConnOk(u) BY DEF Sane, ConnInv
    <2>2. CASE u = t
      <3>1. thread'[t].pc \in {"reply", "close disk"}
            /\ (thread'[t].pc = "close disk" => client[c0].st = "dead")
        BY <1>5, <1>10, <1>11
      <3> QED BY <1>1, <1>4, <1>5, <2>1, <2>2, <3>1 DEF ConnOk, Busy
    <2>3. CASE u # t BY <1>1, <1>11, <2>1, <2>3 DEF ConnOk
    <2> QED BY <2>2, <2>3
  <1>15. ClientInv'
    <2> SUFFICES ASSUME NEW x \in Clients PROVE ClientOk(x)' BY DEF ClientInv
    <2>1. ClientOk(x) BY DEF Sane, ClientInv
    <2>2. client[x].st = "off" => owned'[x] = owned[x] BY <1>5, <1>12
    <2> QED BY <1>1, <2>1, <2>2 DEF ClientOk
  <1>16. TableInv'
    <2>1. ASSUME NEW u \in Connections PROVE Holds(u)'
      <3>1. Holds(u) BY DEF Sane, TableInv
      <3>2. ASSUME NEW w \in DOMAIN table, w \notin S
            PROVE  w \in DOMAIN table' /\ table'[w] = table[w]
        BY <1>3, <3>2 DEF ClosesValues
      <3>3. conn[u].st # "none" => thread[u].pipe \in DOMAIN table \ S
        BY <1>7, <3>1, NamesDiffer DEF Holds
      <3>4. CASE u = t
        <4>1. thread'[t].pc \in {"reply", "close disk"} /\ thread'[t].pipe = thread[t].pipe
          BY <1>10, <1>11
        <4> QED BY <1>1, <3>1, <3>2, <3>3, <3>4, <4>1 DEF Holds
      <3>5. CASE u # t
        <4>1. Apart(t, u) BY <3>5 DEF Sane, TableInv
        <4>2. thread[u].pc \in {"process", "duplicate"} => thread[u].disk \in DOMAIN table \ S
          BY <1>1, <1>7, <3>1, <4>1, NamesDiffer DEF Holds, Apart
        <4>3. thread[u].pc = "duplicate" => thread[u].process \in DOMAIN table \ S
          BY <1>1, <1>7, <3>1, <4>1, NamesDiffer DEF Holds, Apart
        <4> QED BY <1>1, <1>11, <3>1, <3>2, <3>3, <3>5, <4>2, <4>3 DEF Holds
      <3> QED BY <3>4, <3>5
    <2>2. ASSUME NEW u \in Connections, NEW x \in Connections, u # x PROVE Apart(u, x)'
      <3>1. Apart(u, x) BY <2>2 DEF Sane, TableInv
      <3> QED BY <1>10, <1>11, <3>1 DEF Apart
    <2>3. ASSUME NEW w \in DOMAIN table' PROVE \E u \in Connections : IsOf(w, u)'
      <3>1. w \in DOMAIN table /\ w \notin S /\ table'[w] = table[w] BY <1>3 DEF ClosesValues
      <3>2. PICK u \in Connections : IsOf(w, u) BY <3>1 DEF Sane, TableInv
      <3>3. IsOf(w, u)'
        <4>1. CASE u = t
          <5>1. w = thread[t].pipe /\ table[w] = Pipe(t) BY <3>1, <3>2, <4>1 DEF IsOf
          <5> QED BY <1>1, <1>5, <1>10, <1>11, <3>1, <4>1, <5>1 DEF IsOf
        <4>2. CASE u # t BY <1>1, <1>11, <3>1, <3>2, <4>2 DEF IsOf
        <4> QED BY <4>1, <4>2
      <3> QED BY <3>3
    <2> QED BY <2>1, <2>2, <2>3 DEF TableInv
  <1>17. OwnedInv'
    <2> SUFFICES ASSUME NEW x \in Clients PROVE OwnedOk(x)' BY DEF OwnedInv
    <2>1. OwnedOk(x) BY DEF Sane, OwnedInv
    <2>2. client[x].conn \in Connections \cup {0} BY ClientRecord DEF TypeInv
    <2>3. Known(x)' = Known(x) /\ (Got(x)' <=> Got(x)) /\ (Alive(x)' <=> Alive(x))
      BY <1>1 DEF Known, Got, Alive
    <2>4. CASE conn[t].open /\ x = c0
      <3>1. ~Got(x) BY <1>5, <2>4 DEF Got
      <3>2. ~Handed(x) BY <1>1, <1>5, <2>4, <3>1 DEF Handed
      <3>3. Handed(x)' BY <1>1, <1>5, <1>10, <1>11, <2>4, HelperAssumption DEF Handed
      <3>4. owned[x] = Known(x) BY <1>4, <1>6, <2>1, <2>4, <3>2 DEF OwnedOk
      <3>5. owned'[x] = Known(x) \cup {Drive(client'[x].want)}
        BY <1>1, <1>5, <1>12, <2>4, <3>4
      <3> QED BY <2>3, <3>1, <3>3, <3>5 DEF OwnedOk
    <2>5. CASE conn[t].open /\ x # c0
      <3>1. client[x].conn # t BY <2>5, HelperAssumption DEF Sane, ClientInv, ClientOk
      <3>2. Handed(x)' <=> Handed(x) BY <1>1, <1>11, <2>2, <2>3, <3>1 DEF Handed
      <3> QED BY <1>1, <1>12, <2>1, <2>3, <2>5, <3>2 DEF OwnedOk
    <2>6. CASE ~conn[t].open
      <3>1. client[x].conn # t BY <1>5, <2>6
      <3>2. Handed(x)' <=> Handed(x) BY <1>1, <1>11, <2>2, <2>3, <3>1 DEF Handed
      <3> QED BY <1>1, <1>12, <2>1, <2>3, <2>6, <3>2 DEF OwnedOk
    <2> QED BY <2>4, <2>5, <2>6
  <1> QED BY <1>1, <1>13, <1>14, <1>15, <1>16, <1>17 DEF HelperIInv, Sane, OnlyDeathMiscloses

-----------------------------------------------------------------------------
(* The theorems *)

LEMMA HelperStep == HelperIInv /\ [Next]_vars => HelperIInv'
  <1> SUFFICES ASSUME HelperIInv, [Next]_vars PROVE HelperIInv' OBVIOUS
  <1>1. CASE UNCHANGED vars
    <2>1. UNCHANGED <<gui, helper, client, conn, thread, table, owned, attached, misclosed>>
      BY <1>1 DEF vars
    <2>2. TypeInv' BY <2>1 DEF HelperIInv, TypeInv, ClientType, ConnType, ThreadType
    <2>3. OnlyDeathMiscloses' BY <2>1 DEF HelperIInv, OnlyDeathMiscloses
    <2>4. ~misclosed' => Sane' BY <2>1, <2>2, NothingServed DEF HelperIInv
    <2> QED BY <2>2, <2>3, <2>4 DEF HelperIInv
  <1>2. CASE Next
    <2>1. ~misclosed /\ Step BY <1>2 DEF Next, Run
    <2>2. TypeInv /\ Sane BY <2>1 DEF HelperIInv
    <2> USE <2>1, <2>2
    <2>3. CASE Allow \/ Decline \/ \E d \in Disks : Unplug(d) BY <2>3, WindowStep
    <2>4. CASE GuiEnds BY <2>4, GuiEndsStep
    <2>5. CASE Scan BY <2>5, ScanStep
    <2>6. CASE WatchParent \/ HelperDies BY <2>6, HelperStopsStep DEF WatchParent, HelperDies
    <2>7. ASSUME NEW c \in Clients, ClientStep(c) \/ Kill(c) PROVE HelperIInv'
      BY <2>7, GiveUpStep, BrokenStep, ReceiveStep, KillStep DEF ClientStep
    <2>8. ASSUME NEW c \in Clients, NEW d \in Disks, Launch(c, d) PROVE HelperIInv'
      BY <2>8, LaunchStep
    <2>9. ASSUME NEW c \in Clients, NEW t \in Connections, Connect(c, t) PROVE HelperIInv'
      BY <2>9, ConnectStep
    <2>10. ASSUME NEW t \in Connections, CreateInstance(t) \/ Refuse(t) PROVE HelperIInv'
      BY <2>10, CreateInstanceStep, RefuseStep
    <2>11. ASSUME NEW t \in Connections, ThreadStep(t) PROVE HelperIInv'
      BY <2>11, AcceptStep, HandleListStep, OpenDeviceStep, OpenClientStep, DuplicateStep,
         CloseAgainStep, ReplyStep, EndThreadStep DEF ThreadStep
    <2> QED BY <2>3, <2>4, <2>5, <2>6, <2>7, <2>8, <2>9, <2>10, <2>11 DEF Step
  <1> QED BY <1>1, <1>2

\* The state of the helper and its clients is one that follows each request: the
\* invariant of the file's head, in every reachable state.
THEOREM HelperInvariant == Spec => []HelperIInv
  BY HelperInit, HelperStep, PTL DEF Spec

\* A client that was answered has the handle to the drive it asked for, and no other.
THEOREM DriveHandedOver == Spec => []HandedOver
  <1>1. HelperIInv => HandedOver
    <2> SUFFICES ASSUME HelperIInv, ~misclosed, NEW c \in Clients, Alive(c)
                 PROVE  /\ Known(c) \subseteq owned[c]
                        /\ helper = "up" /\ client[c].st # "waiting" => owned[c] = Known(c)
      BY DEF HandedOver, Known
    <2>1. OwnedOk(c) /\ ClientOk(c) BY DEF HelperIInv, Sane, OwnedInv, ClientInv
    <2>2. client[c].st # "waiting" => ~Handed(c) BY <2>1 DEF ClientOk, Handed, Got
    <2> QED BY <2>1, <2>2 DEF OwnedOk
  <1> QED BY <1>1, HelperInvariant, PTL

\* Each handle value of the helper is a thread's that is about to use it.
THEOREM HandlesFreed == Spec => []NoHandleLeft
  <1>1. HelperIInv => NoHandleLeft
    BY DEF HelperIInv, Sane, TableInv, IsOf, NoHandleLeft
  <1> QED BY <1>1, HelperInvariant, PTL

\* A handle value is closed that is another thread's only after a client has died.
THEOREM DeathMiscloses == Spec => []OnlyDeathMiscloses
  <1>1. HelperIInv => OnlyDeathMiscloses BY DEF HelperIInv
  <1> QED BY <1>1, HelperInvariant, PTL
=============================================================================
