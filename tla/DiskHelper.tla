----------------------------- MODULE DiskHelper -----------------------------
(***************************************************************************)
(* The elevated disk helper (wingui/disk_helper_server.cpp, _client.cpp,   *)
(* _protocol.hpp) and its clients: the program's window (Gui) and the      *)
(* mount daemons it launches.  A client connects to the helper's pipe,     *)
(* asks for the list of drives or for a handle to one, and closes.  Each   *)
(* connection has a thread of its own in the helper; a drive's handle is   *)
(* opened there and duplicated into the client's process.                  *)
(*                                                                         *)
(* Handles are numbers of the helper process: one that is closed names     *)
(* whatever is opened next.  Daemons are killed, the helper is killed, the *)
(* window ends and drives go, at any moment.                               *)
(***************************************************************************)
EXTENDS Integers, Functions, FiniteSetsExt

CONSTANTS Gui, Daemons,
          Disks,
          Connections,  \* bound: instances of the pipe at one time
          Handles,      \* bound: handle values of the helper, numbers
          List, None    \* the request for the list; no request, no answer

\* What the helper writes: the list of drives, or a status.
Answers == [kind : {"list"}, drives : SUBSET Disks] \cup [kind : {"ok", "error"}]

ASSUME HelperAssumption ==
    /\ Gui \notin Daemons /\ List \notin Disks
    /\ None \notin Disks \cup {List} \cup Answers
    /\ 0 \notin Connections /\ Handles \subseteq Nat \ {0}

Clients == {Gui} \cup Daemons

VARIABLES
    gui,        \* "prompt" while start() waits for the user, "running" or "gone"
    g_running,
    helper,     \* "none", "up" or "gone"
    client,     \* what each client is at
    conn,       \* each instance of the pipe: its state, its client, the request in it
    thread,     \* the thread that serves it: where it is, its handle values
    table,      \* handle value of the helper -> what it names
    owned,      \* what each client's process has handles to
    attached,   \* the drives that are plugged in
    misclosed   \* has a thread closed a handle value that was not its own any more?

vars == <<gui, g_running, helper, client, conn, thread, table, owned, attached, misclosed>>

\* conn is 0 without a connection; inbox holds the answer to read; todo are drives
\* of the listing still to open; files are those the client has opened.
Off == [st |-> "off", want |-> None, conn |-> 0, inbox |-> None, todo |-> {}, files |-> {}]
NoConn == [st |-> "none", client |-> None, request |-> None, open |-> FALSE]
NoThread == [pc |-> "none", pipe |-> 0, disk |-> 0, process |-> 0]

Init ==
    /\ gui = "prompt" /\ g_running = FALSE /\ helper = "none"
    /\ client = [c \in Clients |-> IF c = Gui THEN [Off EXCEPT !.st = "idle"] ELSE Off]
    /\ conn = [t \in Connections |-> NoConn]
    /\ thread = [t \in Connections |-> NoThread]
    /\ table = <<>> /\ owned = [c \in Clients |-> {}]
    /\ attached = Disks /\ misclosed = FALSE

Drive(d) == <<"disk", d>>
Pipe(t) == <<"pipe", t>>
Process(c) == <<"process", c>>

Alive(c) == client[c].st \notin {"off", "dead"}
Asking(c) == client[c].st \in {"connecting", "waiting"}
FreeValues == Handles \ DOMAIN table
Opened(object) == [v \in {Min(FreeValues)} |-> object]
Named(v) == IF v \in DOMAIN table THEN table[v] ELSE <<"nothing", v>>
Closed(v) == Restrict(table, DOMAIN table \ {v})
Add(f, g) == [x \in DOMAIN f \cup DOMAIN g |-> IF x \in DOMAIN g THEN g[x] ELSE f[x]]

Environment == <<gui, g_running, helper, attached>>
ServerState == <<thread, table>>

-----------------------------------------------------------------------------
(* The window: start(), and the end of the program *)

\* start() asks once; a helper that the user allows runs, even if the window is gone.
Allow ==
    /\ helper = "none" /\ gui \in {"prompt", "gone"}
    /\ helper' = "up"
    /\ IF gui = "prompt" THEN gui' = "running" /\ g_running' = TRUE
                         ELSE UNCHANGED <<gui, g_running>>
    /\ UNCHANGED <<client, conn, thread, table, owned, attached, misclosed>>

Decline ==
    /\ gui = "prompt" /\ helper = "none"
    /\ gui' = "running"
    /\ UNCHANGED <<g_running, helper, client, conn, thread, table, owned, attached, misclosed>>

\* A process ends: its end of the pipe and its handles are closed with it.
EndProcess(c) ==
    /\ client' = [client EXCEPT ![c] = [Off EXCEPT !.st = "dead"]]
    /\ owned' = [owned EXCEPT ![c] = {}]
    /\ conn' = IF client[c].conn = 0 THEN conn
               ELSE [conn EXCEPT ![client[c].conn].open = FALSE]

\* The window closes and stop() runs, or the program is killed.
GuiEnds ==
    /\ gui # "gone" /\ gui' = "gone" /\ g_running' = FALSE
    /\ EndProcess(Gui)
    /\ UNCHANGED <<helper, thread, table, attached, misclosed>>

\* A daemon is terminated.
Kill(c) ==
    /\ c \in Daemons /\ Asking(c)
    /\ EndProcess(c)
    /\ UNCHANGED <<Environment, ServerState, misclosed>>

Unplug(d) ==
    /\ d \in attached /\ attached' = attached \ {d}
    /\ UNCHANGED <<gui, g_running, helper, client, conn, thread, table, owned, misclosed>>

-----------------------------------------------------------------------------
(* The clients: list_disks_via and open_disk_via *)

\* callbacks::list_disks of the window: the list, then each of its drives.
Scan ==
    /\ gui = "running" /\ g_running /\ client[Gui].st = "idle"
    /\ IF client[Gui].todo = {}
       THEN /\ client' = [client EXCEPT ![Gui] =
                            [@ EXCEPT !.st = "connecting", !.want = List, !.files = {}]]
            /\ owned' = [owned EXCEPT ![Gui] = {}]
       ELSE /\ \E d \in client[Gui].todo :
                  client' = [client EXCEPT ![Gui] =
                               [@ EXCEPT !.st = "connecting", !.want = d,
                                         !.todo = client[Gui].todo \ {d}]]
            /\ UNCHANGED owned
    /\ UNCHANGED <<Environment, conn, ServerState, misclosed>>

\* The window mounts a volume of a drive: the daemon is given the pipe's name.
Launch(c, d) ==
    /\ gui = "running" /\ g_running /\ client[Gui].st = "idle" /\ client[Gui].todo = {}
    /\ c \in Daemons /\ client[c].st = "off" /\ d \in client[Gui].files
    /\ client' = [client EXCEPT ![c] = [@ EXCEPT !.st = "connecting", !.want = d]]
    /\ UNCHANGED <<Environment, conn, ServerState, owned, misclosed>>

\* connect_pipe finds an instance that listens, and the request is written; no
\* instance (ERROR_FILE_NOT_FOUND) or none that is free (ERROR_PIPE_BUSY) is
\* waited for.
Connect(c, t) ==
    /\ client[c].st = "connecting" /\ helper = "up" /\ conn[t].st = "listening"
    /\ conn' = [conn EXCEPT ![t] = [st |-> "connected", client |-> c,
                                    request |-> client[c].want, open |-> TRUE]]
    /\ client' = [client EXCEPT ![c] = [@ EXCEPT !.st = "waiting", !.conn = t]]
    /\ UNCHANGED <<Environment, ServerState, owned, misclosed>>

\* What a client does when it has no answer: the window goes on, a daemon throws.
WithoutAnswer(c) ==
    IF c = Gui
    THEN /\ client' = [client EXCEPT ![c] =
                         [@ EXCEPT !.st = "idle", !.want = None, !.conn = 0]]
         /\ UNCHANGED <<owned, conn>>
    ELSE EndProcess(c)

\* connect_pipe: the deadline, or another error.
GiveUp(c) ==
    /\ client[c].st = "connecting"
    /\ WithoutAnswer(c)
    /\ UNCHANGED <<Environment, ServerState, misclosed>>

\* read_frame fails: the other end is closed and nothing is left to read.
Broken(c) ==
    /\ client[c].st = "waiting" /\ client[c].conn = 0 /\ client[c].inbox = None
    /\ WithoutAnswer(c)
    /\ UNCHANGED <<Environment, ServerState, misclosed>>

\* The answer is read and the connection closed.
Receive(c) ==
    /\ client[c].st = "waiting" /\ client[c].inbox # None
    /\ LET answer == client[c].inbox
           read == [client[c] EXCEPT !.want = None, !.conn = 0, !.inbox = None]
           closed == IF client[c].conn = 0 THEN conn
                     ELSE [conn EXCEPT ![client[c].conn].open = FALSE]
       IN  CASE answer.kind = "list" ->
                    /\ client' = [client EXCEPT ![c] =
                                    [read EXCEPT !.st = "idle", !.todo = answer.drives]]
                    /\ conn' = closed /\ UNCHANGED owned
             [] answer.kind = "ok" ->
                    /\ client' = [client EXCEPT ![c] =
                           [read EXCEPT !.st = IF c = Gui THEN "idle" ELSE "mounted",
                                        !.files = @ \cup {client[c].want}]]
                    /\ conn' = closed /\ UNCHANGED owned
             [] answer.kind = "error" /\ c = Gui ->
                    /\ client' = [client EXCEPT ![c] = [read EXCEPT !.st = "idle"]]
                    /\ conn' = closed /\ UNCHANGED owned
             [] answer.kind = "error" /\ c # Gui -> EndProcess(c)
    /\ UNCHANGED <<Environment, ServerState, misclosed>>

-----------------------------------------------------------------------------
(* The helper: run() *)

InAccept == {t \in Connections : conn[t].st # "none" /\ thread[t].pc = "none"}

\* CreateNamedPipe
CreateInstance(t) ==
    /\ helper = "up" /\ InAccept = {}
    /\ conn[t].st = "none" /\ thread[t].pc = "none" /\ FreeValues # {}
    /\ conn' = [conn EXCEPT ![t].st = "listening"]
    /\ table' = Add(table, Opened(Pipe(t)))
    /\ thread' = [thread EXCEPT ![t].pipe = Min(FreeValues)]
    /\ UNCHANGED <<Environment, client, owned, misclosed>>

\* ConnectNamedPipe returns, and a thread is started.
Accept(t) ==
    /\ t \in InAccept /\ conn[t].st = "connected"
    /\ thread' = [thread EXCEPT ![t].pc = "read"]
    /\ UNCHANGED <<Environment, client, conn, table, owned, misclosed>>

\* DisconnectNamedPipe, which throws away what the client has not read, and
\* CloseHandle.  The loop of run() closes without a thread when the client has
\* gone before ConnectNamedPipe returned.
ClosePipe(t) ==
    /\ conn' = [conn EXCEPT ![t] = NoConn]
    /\ client' = [c \in Clients |-> IF client[c].conn = t
                                    THEN [client[c] EXCEPT !.conn = 0, !.inbox = None]
                                    ELSE client[c]]
    /\ table' = Closed(thread[t].pipe)
    /\ misclosed' = (misclosed \/ Named(thread[t].pipe) \notin {Pipe(t), <<"nothing", thread[t].pipe>>})
    /\ thread' = [thread EXCEPT ![t] = NoThread]
    /\ UNCHANGED <<Environment, owned>>

Refuse(t) == t \in InAccept /\ conn[t].st = "connected" /\ ~conn[t].open /\ ClosePipe(t)

-----------------------------------------------------------------------------
(* The helper: serve_client, handle_list and handle_open *)

InRead(t) == thread[t].pc = "read" /\ conn[t].request # None

\* write_frame: the answer reaches a client that still has the connection, if the
\* handle value still names the pipe; the request is done with.
Answer(t, answer) ==
    /\ conn' = [conn EXCEPT ![t].request = None]
    /\ client' = IF conn[t].open /\ Named(thread[t].pipe) = Pipe(t)
                 THEN [client EXCEPT ![conn[t].client].inbox = answer] ELSE client
ErrorAnswer == [kind |-> "error"]

\* handle_open returns, and its locals are gone.
BackToRead(t) == [thread EXCEPT ![t] = [@ EXCEPT !.pc = "read", !.disk = 0, !.process = 0]]

HandleList(t) ==
    /\ InRead(t) /\ conn[t].request = List
    /\ Answer(t, [kind |-> "list", drives |-> attached])
    /\ UNCHANGED <<Environment, ServerState, owned, misclosed>>

\* Mutant: nothing is written when the drive cannot be opened.
OpenDevice_Silent(t) ==
    /\ InRead(t) /\ conn[t].request \in Disks /\ FreeValues # {}
    /\ IF conn[t].request \in attached
       THEN /\ table' = Add(table, Opened(Drive(conn[t].request)))
            /\ thread' = [thread EXCEPT ![t] =
                            [@ EXCEPT !.pc = "process", !.disk = Min(FreeValues)]]
            /\ UNCHANGED <<client, conn>>
       ELSE conn' = [conn EXCEPT ![t].request = None] /\ UNCHANGED <<client, ServerState>>
    /\ UNCHANGED <<Environment, owned, misclosed>>

\* CreateFile of the drive
OpenDevice(t) ==
    /\ InRead(t) /\ conn[t].request \in Disks /\ FreeValues # {}
    /\ IF conn[t].request \in attached
       THEN /\ table' = Add(table, Opened(Drive(conn[t].request)))
            /\ thread' = [thread EXCEPT ![t] =
                            [@ EXCEPT !.pc = "process", !.disk = Min(FreeValues)]]
            /\ UNCHANGED <<client, conn>>
       ELSE Answer(t, ErrorAnswer) /\ UNCHANGED ServerState
    /\ UNCHANGED <<Environment, owned, misclosed>>

\* Mutant: the drive stays open when the client's process cannot be opened.
OpenClient_KeepsDrive(t) ==
    /\ thread[t].pc = "process" /\ FreeValues # {}
    /\ IF Alive(conn[t].client)
       THEN /\ table' = Add(table, Opened(Process(conn[t].client)))
            /\ thread' = [thread EXCEPT ![t] =
                            [@ EXCEPT !.pc = "duplicate", !.process = Min(FreeValues)]]
            /\ UNCHANGED <<client, conn, misclosed>>
       ELSE /\ thread' = BackToRead(t)
            /\ Answer(t, ErrorAnswer)
            /\ UNCHANGED <<table, misclosed>>
    /\ UNCHANGED <<Environment, owned>>

\* CloseHandle of the drive by thread t
CloseDrive(t) ==
    /\ table' = Closed(thread[t].disk)
    /\ misclosed' = (misclosed \/ (thread[t].pc = "close disk" /\ thread[t].disk \in DOMAIN table))

\* OpenProcess of the client
OpenClient(t) ==
    /\ thread[t].pc = "process" /\ FreeValues # {}
    /\ IF Alive(conn[t].client)
       THEN /\ table' = Add(table, Opened(Process(conn[t].client)))
            /\ thread' = [thread EXCEPT ![t] =
                            [@ EXCEPT !.pc = "duplicate", !.process = Min(FreeValues)]]
            /\ UNCHANGED <<client, conn, misclosed>>
       ELSE /\ CloseDrive(t)
            /\ thread' = BackToRead(t)
            /\ Answer(t, ErrorAnswer)
    /\ UNCHANGED <<Environment, owned>>

\* Mutant: the drive is closed after a hand-over that succeeded, too.
AfterHandOver_BothClose(ok) == "close disk"

AfterHandOver(ok) == IF ok THEN "reply" ELSE "close disk"

\* DuplicateHandle with DUPLICATE_CLOSE_SOURCE: whatever the value names goes to
\* the process, if that still runs; the source is closed whether it succeeds or
\* not.  The handle to the process is closed too.
Duplicate(t) ==
    /\ thread[t].pc = "duplicate"
    /\ LET to == {c \in Clients : Alive(c) /\ Process(c) = Named(thread[t].process)}
           ok == to # {} /\ thread[t].disk \in DOMAIN table
       IN  /\ thread' = [thread EXCEPT ![t].pc = AfterHandOver(ok)]
           /\ owned' = [c \in Clients |-> IF ok /\ c \in to
                                          THEN owned[c] \cup {Named(thread[t].disk)}
                                          ELSE owned[c]]
    /\ table' = Restrict(table, DOMAIN table \ {thread[t].disk, thread[t].process})
    /\ UNCHANGED <<Environment, client, conn, misclosed>>

\* CloseHandle(disk) after a hand-over that failed: the second close of the value.
CloseAgain(t) ==
    /\ thread[t].pc = "close disk"
    /\ CloseDrive(t)
    /\ thread' = BackToRead(t)
    /\ Answer(t, ErrorAnswer)
    /\ UNCHANGED <<Environment, owned>>

Reply(t) ==
    /\ thread[t].pc = "reply"
    /\ thread' = BackToRead(t)
    /\ Answer(t, [kind |-> "ok"])
    /\ UNCHANGED <<Environment, table, owned, misclosed>>

\* Mutant: a connection is closed after its answer.
EndThread_AfterAnswer(t) ==
    thread[t].pc = "read" /\ conn[t].request = None /\ ClosePipe(t)

\* read_frame fails when the client has closed; the thread ends.
EndThread(t) ==
    thread[t].pc = "read" /\ conn[t].request = None /\ ~conn[t].open /\ ClosePipe(t)

-----------------------------------------------------------------------------
(* The end of the helper *)

\* Its handles are closed; what it has written can still be read.
HelperStops ==
    /\ helper' = "gone"
    /\ conn' = [t \in Connections |-> NoConn] /\ thread' = [t \in Connections |-> NoThread]
    /\ client' = [c \in Clients |-> [client[c] EXCEPT !.conn = 0]]
    /\ table' = <<>>
    /\ UNCHANGED <<gui, g_running, attached, owned, misclosed>>

\* Mutant: the program is watched in the loop, which waits for the next client.
WatchParent_InLoop ==
    /\ helper = "up" /\ gui = "gone" /\ \A t \in Connections : conn[t].st = "none"
    /\ HelperStops

\* watch_parent: the window's process is gone.
WatchParent == helper = "up" /\ gui = "gone" /\ HelperStops

\* It is killed, or its loop ends because an instance cannot be created.
HelperDies == helper = "up" /\ gui # "gone" /\ HelperStops

ThreadStep(t) ==
    \/ Accept(t) \/ HandleList(t) \/ OpenDevice(t) \/ OpenClient(t) \/ Duplicate(t)
    \/ CloseAgain(t) \/ Reply(t) \/ EndThread(t)

ClientStep(c) == GiveUp(c) \/ Broken(c) \/ Receive(c)

Step ==
    \/ Allow \/ Decline \/ GuiEnds \/ Scan \/ WatchParent \/ HelperDies
    \/ \E d \in Disks : Unplug(d)
    \/ \E c \in Clients :
          \/ ClientStep(c) \/ Kill(c)
          \/ \E d \in Disks : Launch(c, d)
          \/ \E t \in Connections : Connect(c, t)
    \/ \E t \in Connections : CreateInstance(t) \/ Refuse(t) \/ ThreadStep(t)

\* A handle value that was another thread's is closed: what the two threads do
\* from then on is not followed.
Run(step) == ~misclosed /\ step

Next == Run(Step)

\* Threads run; a client's deadline passes, and it reads what is there; the helper
\* is woken by the end of the window.
Fairness ==
    /\ \A t \in Connections : WF_vars(Run(ThreadStep(t)))
    /\ \A c \in Clients : WF_vars(Run(ClientStep(c)))
    /\ WF_vars(Run(WatchParent))

Spec == Init /\ [][Next]_vars /\ Fairness

-----------------------------------------------------------------------------
(* Properties *)

\* What a client takes for an open drive is a handle to that drive in its own
\* process, whatever other connections, kills and unplugged drives come between;
\* and while the helper runs, a client that is not waiting has no handle it does
\* not know of.  A thread that closes another one's handle value breaks this, so
\* it is stated up to then.
HandedOver ==
    ~misclosed => \A c \in Clients : Alive(c) =>
        LET known == {Drive(d) : d \in client[c].files}
        IN  /\ known \subseteq owned[c]
            /\ helper = "up" /\ client[c].st # "waiting" => owned[c] = known

\* The helper keeps no handle: each names a drive or a process that a thread is
\* about to hand over or close, or the pipe of a connection.
NoHandleLeft ==
    ~misclosed => \A v \in DOMAIN table : \E t \in Connections :
        \/ v = thread[t].pipe /\ conn[t].st # "none" /\ table[v] = Pipe(t)
        \/ v = thread[t].disk /\ thread[t].pc \in {"process", "duplicate"}
           /\ table[v] = Drive(conn[t].request)
        \/ v = thread[t].process /\ thread[t].pc \in {"duplicate"}
           /\ table[v] = Process(conn[t].client)

\* A thread closes what is not its own only after a client's process has ended
\* while its drive was being handed over.
OnlyDeathMiscloses == misclosed => \E c \in Clients : client[c].st = "dead"

\* Every request comes to an end, with an answer or without: nobody waits for
\* ever for a helper that is not there, has died, or has lost the drive.
RequestEnds == \A c \in Clients : Asking(c) ~> ~Asking(c) \/ misclosed

\* The helper ends after the window, in the middle of whatever it serves.
HelperEnds == gui = "gone" ~> helper # "up" \/ misclosed
=============================================================================
