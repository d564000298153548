----------------------------- MODULE IpcServer -----------------------------
(***************************************************************************)
(* The front ends' socket server (unix_socket_server.cc), the command side *)
(* of the EngineController behind it, and the three threads that meet      *)
(* there: the io thread runs IoLoop and its observers' callbacks, the      *)
(* signalling thread handles commands and engine events, main waits for    *)
(* `quit` and stops the others.  LineFraming models how a client's bytes   *)
(* become lines; here a client sends whole commands.                       *)
(*                                                                         *)
(* send_mutex_ guards the two tables and the writes.  A step of a thread   *)
(* is what it does up to the next point where another thread can tell the  *)
(* difference: taking or releasing the mutex, reading client_id_ or        *)
(* running_, or writing a part of a line.                                  *)
(***************************************************************************)
EXTENDS Integers, Sequences, FiniteSets, Functions

CONSTANTS
  Fds,          \* descriptors the kernel gives to accepted connections
  max_clients_,
  SockBuf,      \* parts of lines that a client's socket holds unread
  MaxConnects,  \* bound on connections, so on ids
  MaxCommands,  \* bound on commands the clients send
  MaxEvents     \* bound on events the engine reports

ASSUME IpcAssumption ==
  /\ SockBuf \in Nat \ {0}
  /\ max_clients_ \in Nat /\ MaxConnects \in Nat
  /\ MaxCommands \in Nat /\ MaxEvents \in Nat

VARIABLES
  clients_,          \* fd -> id
  id_to_fd_,         \* id -> fd
  next_client_id_,
  open_fds,          \* fd -> the connection it stands for in the kernel
  lock,              \* holder of send_mutex_, or "free"
  thread,            \* what the io and the signalling thread are doing
  client_id_,        \* EngineController: whom events and replies go to
  tasks,             \* commands posted to the signalling thread
  running_,
  main,              \* where main is
  alive,             \* FALSE once a signal has killed the process
  inbox, outbox,     \* per connection: commands and parts of lines unread
  gone,              \* connections whose client has closed
  commands, events   \* how many there were

tables  == <<clients_, id_to_fd_>>
sockets == <<next_client_id_, open_fds>>
process == <<running_, main, alive>>
counts  == <<commands, events>>
vars    == <<tables, sockets, lock, thread, client_id_, tasks, process,
             inbox, outbox, gone, counts>>

NoClient == -1
Ids      == 0 .. MaxConnects - 1

Put(f, k, v) == [x \in DOMAIN f \cup {k} |-> IF x = k THEN v ELSE f[x]]
Erase(f, k)  == Restrict(f, DOMAIN f \ {k})

-----------------------------------------------------------------------------
(* A thread is at a place in the code, with its locals: the client and the *)
(* descriptor it works on and the kind of line it sends.                   *)

At(pc) == [pc |-> pc]

Home == [io |-> At("poll"), sig |-> At("idle")]

OnFd(pc, fd, id) == [pc |-> pc, fd |-> fd, id |-> id]

Sending(to, kind) == [pc |-> "route", to |-> to, kind |-> kind]

Writing(t, half, fd) ==
  [pc |-> half, fd |-> fd, to |-> thread[t].to, kind |-> thread[t].kind]

Goes(t, r) == thread' = [thread EXCEPT ![t] = r]

Is(t, pc) == alive /\ thread[t].pc = pc

InWrite(t) == Is(t, "head") \/ Is(t, "tail")

-----------------------------------------------------------------------------
Init ==
  /\ clients_ = <<>> /\ id_to_fd_ = <<>> /\ next_client_id_ = 0
  /\ open_fds = <<>> /\ lock = "free" /\ thread = Home
  /\ client_id_ = NoClient /\ tasks = <<>>
  /\ running_ = TRUE /\ main = "test" /\ alive = TRUE
  /\ inbox = [i \in Ids |-> <<>>] /\ outbox = [i \in Ids |-> <<>>]
  /\ gone = {}
  /\ commands = 0 /\ events = 0

(***************************************************************************)
(* SendToClient and SendLine, by either thread t.                          *)
(***************************************************************************)

\* Mutant of RouteFound: without the mutex.
RouteUnlocked(t) ==
  /\ Is(t, "route")
  /\ thread[t].to \in DOMAIN id_to_fd_
  /\ Goes(t, Writing(t, "head", id_to_fd_[thread[t].to]))
  /\ UNCHANGED <<tables, sockets, lock, client_id_, tasks, process, inbox,
                 outbox, gone, counts>>

\* The id is known: the mutex is kept for the write.
RouteFound(t) ==
  /\ Is(t, "route") /\ lock = "free"
  /\ thread[t].to \in DOMAIN id_to_fd_
  /\ lock' = t
  /\ Goes(t, Writing(t, "head", id_to_fd_[thread[t].to]))
  /\ UNCHANGED <<tables, sockets, client_id_, tasks, process, inbox, outbox,
                 gone, counts>>

RouteUnknown(t) ==
  /\ Is(t, "route") /\ lock = "free"
  /\ thread[t].to \notin DOMAIN id_to_fd_
  /\ Goes(t, Home[t])
  /\ UNCHANGED <<tables, sockets, lock, client_id_, tasks, process, inbox,
                 outbox, gone, counts>>

\* write() takes a part of the line; it waits while the client's socket is
\* full.  The mutex is released after the last part.
WritePart(t) ==
  /\ InWrite(t)
  /\ thread[t].fd \in DOMAIN open_fds
  /\ LET c == open_fds[thread[t].fd] IN
       /\ c \notin gone /\ Len(outbox[c]) < SockBuf
       /\ outbox' = [outbox EXCEPT ![c] =
            Append(@, [half |-> thread[t].pc, to |-> thread[t].to,
                       kind |-> thread[t].kind])]
  /\ \/ /\ Is(t, "head")
        /\ Goes(t, Writing(t, "tail", thread[t].fd))
        /\ UNCHANGED lock
     \/ /\ Is(t, "tail")
        /\ Goes(t, Home[t])
        /\ lock' = "free"
  /\ UNCHANGED <<tables, sockets, client_id_, tasks, process, inbox, gone,
                 counts>>

\* Mutant of WriteFails: the error path leaves the mutex locked.
WriteFailsLocked(t) ==
  /\ InWrite(t)
  /\ thread[t].fd \notin DOMAIN open_fds
  /\ Goes(t, Home[t])
  /\ UNCHANGED <<tables, sockets, lock, client_id_, tasks, process, inbox,
                 outbox, gone, counts>>

\* write() to a descriptor that the io thread has closed fails; the line is
\* given up.
WriteFails(t) ==
  /\ InWrite(t)
  /\ thread[t].fd \notin DOMAIN open_fds
  /\ Goes(t, Home[t])
  /\ lock' = "free"
  /\ UNCHANGED <<tables, sockets, client_id_, tasks, process, inbox, outbox,
                 gone, counts>>

\* write() to a connection whose client has closed raises SIGPIPE, whose
\* default action nothing in the program changes (asio does so elsewhere than
\* on Linux).
WriteKills(t) ==
  /\ InWrite(t)
  /\ thread[t].fd \in DOMAIN open_fds /\ open_fds[thread[t].fd] \in gone
  /\ alive' = FALSE
  /\ UNCHANGED <<tables, sockets, lock, thread, client_id_, tasks, running_,
                 main, inbox, outbox, gone, counts>>

Send(t) ==
  RouteFound(t) \/ RouteUnknown(t) \/ WritePart(t) \/ WriteFails(t)
    \/ WriteKills(t)

(***************************************************************************)
(* The io thread: IoLoop.  Between the handling of two ready descriptors   *)
(* it is at "poll"; it may or may not test running_ there.                 *)
(***************************************************************************)

\* A front end connects.  At the limit it is closed again, which changes
\* nothing; else its id is assigned, before the tables are locked.
Accept ==
  /\ Is("io", "poll") /\ next_client_id_ < MaxConnects
  /\ Cardinality(DOMAIN clients_) < max_clients_
  /\ next_client_id_' = next_client_id_ + 1
  /\ \E fd \in Fds \ DOMAIN open_fds :
       /\ open_fds' = Put(open_fds, fd, next_client_id_)
       /\ Goes("io", OnFd("insert", fd, next_client_id_))
  /\ UNCHANGED <<tables, lock, client_id_, tasks, process, inbox, outbox, gone,
                 counts>>

\* Under the mutex into both tables, then OnClientConnected: the new client
\* is the one to talk to and is sent the list of commands.
Insert ==
  /\ Is("io", "insert") /\ lock = "free"
  /\ LET id == thread["io"].id
         fd == thread["io"].fd
     IN  /\ clients_' = Put(clients_, fd, id)
         /\ id_to_fd_' = Put(id_to_fd_, id, fd)
         /\ client_id_' = id
         /\ Goes("io", Sending(id, "hello"))
  /\ UNCHANGED <<sockets, lock, tasks, process, inbox, outbox, gone, counts>>

\* A complete line, and OnLineReceived: its sender is the one to talk to and
\* the command goes to the signalling thread.
ReadLine(fd) ==
  /\ Is("io", "poll") /\ fd \in DOMAIN clients_
  /\ inbox[open_fds[fd]] # <<>>
  /\ inbox' = [inbox EXCEPT ![open_fds[fd]] = Tail(@)]
  /\ client_id_' = clients_[fd]
  /\ tasks' = Append(tasks, Head(inbox[open_fds[fd]]))
  /\ UNCHANGED <<tables, sockets, lock, thread, process, outbox, gone, counts>>

\* The end of a client's stream: its descriptor is closed without the mutex.
CloseClient(fd) ==
  /\ Is("io", "poll") /\ fd \in DOMAIN clients_
  /\ open_fds[fd] \in gone /\ inbox[open_fds[fd]] = <<>>
  /\ open_fds' = Erase(open_fds, fd)
  /\ Goes("io", OnFd("erase", fd, clients_[fd]))
  /\ UNCHANGED <<tables, next_client_id_, lock, client_id_, tasks,
                 process, inbox, outbox, gone, counts>>

\* Mutant of EraseClient: the way from the id to the descriptor is kept.
EraseKeepsRoute ==
  /\ Is("io", "erase") /\ lock = "free"
  /\ clients_' = Erase(clients_, thread["io"].fd)
  /\ client_id_' = NoClient
  /\ Goes("io", Home["io"])
  /\ UNCHANGED <<id_to_fd_, sockets, lock, tasks, process, inbox, outbox, gone,
                 counts>>

\* Mutant of EraseClient: the controller is not told.
EraseKeepsListener ==
  /\ Is("io", "erase") /\ lock = "free"
  /\ clients_' = Erase(clients_, thread["io"].fd)
  /\ id_to_fd_' = Erase(id_to_fd_, thread["io"].id)
  /\ Goes("io", Home["io"])
  /\ UNCHANGED <<sockets, lock, client_id_, tasks, process, inbox, outbox, gone,
                 counts>>

\* Under the mutex out of both tables, then OnClientDisconnected: there is
\* nobody to talk to, whichever client it was.
EraseClient ==
  /\ Is("io", "erase") /\ lock = "free"
  /\ clients_' = Erase(clients_, thread["io"].fd)
  /\ id_to_fd_' = Erase(id_to_fd_, thread["io"].id)
  /\ client_id_' = NoClient
  /\ Goes("io", Home["io"])
  /\ UNCHANGED <<sockets, lock, tasks, process, inbox, outbox, gone, counts>>

\* running_ is found false: the loop ends and everything is closed.
WrapUp ==
  /\ Is("io", "poll") /\ ~running_ /\ lock = "free"
  /\ clients_' = <<>> /\ id_to_fd_' = <<>> /\ open_fds' = <<>>
  /\ Goes("io", At("done"))
  /\ UNCHANGED <<next_client_id_, lock, client_id_, tasks, process,
                 inbox, outbox, gone, counts>>

IoStep ==
  \/ Send("io") \/ Accept \/ Insert \/ EraseClient \/ WrapUp
  \/ \E fd \in Fds : ReadLine(fd) \/ CloseClient(fd)

(***************************************************************************)
(* The signalling thread: HandleCommand and the engine's events.           *)
(***************************************************************************)

\* Any command but quit: most are answered, some only by a later event.
HandleCommand ==
  /\ Is("sig", "idle") /\ tasks # <<>> /\ Head(tasks) = "ask"
  /\ tasks' = Tail(tasks)
  /\ Goes("sig", At("check")) \/ UNCHANGED thread
  /\ UNCHANGED <<tables, sockets, lock, client_id_, process, inbox, outbox,
                 gone, counts>>

\* An event of the engine for the user.
EngineEvent ==
  /\ Is("sig", "idle") /\ main # "done" /\ events < MaxEvents
  /\ events' = events + 1
  /\ Goes("sig", At("check"))
  /\ UNCHANGED <<tables, sockets, lock, client_id_, tasks, process, inbox,
                 outbox, gone, commands>>

\* EngineController::Send reads client_id_ twice, without a lock: to test it ...
CheckClient ==
  /\ Is("sig", "check")
  /\ Goes("sig", IF client_id_ >= 0 THEN At("read") ELSE Home["sig"])
  /\ UNCHANGED <<tables, sockets, lock, client_id_, tasks, process, inbox,
                 outbox, gone, counts>>

\* ... and to pass it on.
ReadClient ==
  /\ Is("sig", "read")
  /\ Goes("sig", Sending(client_id_, "event"))
  /\ UNCHANGED <<tables, sockets, lock, client_id_, tasks, process, inbox,
                 outbox, gone, counts>>

\* quit: RequestShutdown clears running_ without the mutex that Wait holds ...
HandleQuit ==
  /\ Is("sig", "idle") /\ tasks # <<>> /\ Head(tasks) = "quit"
  /\ tasks' = Tail(tasks)
  /\ running_' = FALSE
  /\ Goes("sig", At("notify"))
  /\ UNCHANGED <<tables, sockets, lock, client_id_, main, alive, inbox, outbox,
                 gone, counts>>

\* Mutant of Notify: nobody is woken.
NotifyNobody ==
  /\ Is("sig", "notify")
  /\ Goes("sig", Home["sig"])
  /\ UNCHANGED <<tables, sockets, lock, client_id_, tasks, process, inbox,
                 outbox, gone, counts>>

\* ... and wakes main if it sleeps.
Notify ==
  /\ Is("sig", "notify")
  /\ main' = IF main = "asleep" THEN "test" ELSE main
  /\ Goes("sig", Home["sig"])
  /\ UNCHANGED <<tables, sockets, lock, client_id_, tasks, running_, alive,
                 inbox, outbox, gone, counts>>

SigStep ==
  \/ Send("sig") \/ HandleCommand \/ EngineEvent \/ CheckClient \/ ReadClient
  \/ HandleQuit \/ Notify

(***************************************************************************)
(* main: Wait, then the two Stops.                                         *)
(***************************************************************************)

MainGoes(from, to) ==
  /\ alive /\ main = from /\ main' = to
  /\ UNCHANGED <<tables, sockets, lock, thread, client_id_, tasks, running_,
                 alive, inbox, outbox, gone, counts>>

\* Wait tests running_ and goes to sleep in a second step: a notification
\* between the two is lost.
FallAsleep == running_ /\ MainGoes("test", "dozing")

Sleep == MainGoes("dozing", "asleep")

SpuriousWakeup == MainGoes("asleep", "test")

WaitReturns == ~running_ /\ MainGoes("test", "join")

\* UnixSocketServer::Stop joins the io thread.
JoinIo == thread["io"].pc = "done" /\ MainGoes("join", "engine")

\* webrtc_engine::Stop waits for the signalling thread to do what is queued.
StopEngine ==
  /\ thread["sig"] = Home["sig"] /\ tasks = <<>>
  /\ MainGoes("engine", "done")

MainStep ==
  FallAsleep \/ Sleep \/ SpuriousWakeup \/ WaitReturns \/ JoinIo \/ StopEngine

(***************************************************************************)
(* The front ends.                                                         *)
(***************************************************************************)

Connected(c) == alive /\ c \in Range(open_fds) /\ c \notin gone

ClientCommand(c, cmd) ==
  /\ Connected(c) /\ commands < MaxCommands
  /\ inbox' = [inbox EXCEPT ![c] = Append(@, cmd)]
  /\ commands' = commands + 1
  /\ UNCHANGED <<tables, sockets, lock, thread, client_id_, tasks, process,
                 outbox, gone, events>>

ClientRead(c) ==
  /\ Connected(c) /\ outbox[c] # <<>>
  /\ outbox' = [outbox EXCEPT ![c] = Tail(@)]
  /\ UNCHANGED <<tables, sockets, lock, thread, client_id_, tasks, process,
                 inbox, gone, counts>>

\* What the client has not read is lost.
ClientClose(c) ==
  /\ Connected(c)
  /\ gone' = gone \cup {c}
  /\ outbox' = [outbox EXCEPT ![c] = <<>>]
  /\ UNCHANGED <<tables, sockets, lock, thread, client_id_, tasks, process,
                 inbox, counts>>

ClientStep ==
  \E c \in Ids :
    \/ \E cmd \in {"ask", "quit"} : ClientCommand(c, cmd)
    \/ ClientRead(c) \/ ClientClose(c)

-----------------------------------------------------------------------------
Next == IoStep \/ SigStep \/ MainStep \/ ClientStep

Spec == Init /\ [][Next]_vars

\* The three threads run, and clients read what they are sent while they are
\* connected.  Clients need not send anything, the engine need not report
\* anything, and no spurious wake-up helps main.
Fairness ==
  /\ WF_vars(IoStep)
  /\ WF_vars(SigStep /\ events' = events)
  /\ WF_vars(MainStep /\ main # "asleep")
  /\ \A c \in Ids : WF_vars(ClientRead(c))

FairSpec == Spec /\ Fairness

-----------------------------------------------------------------------------
(***************************************************************************)
(* Properties.                                                             *)
(***************************************************************************)

LineKinds == {"hello", "event"}

Threads == {"io", "sig"}

Places ==
       [pc : {"poll", "done", "idle", "check", "read", "notify"}]
  \cup [pc : {"insert", "erase"}, fd : Fds, id : Ids]
  \cup [pc : {"route"}, to : {NoClient} \cup Ids, kind : LineKinds]
  \cup [pc : {"head", "tail"}, fd : Fds, to : Ids, kind : LineKinds]

LinePart == [half : {"head", "tail"}, to : Ids, kind : LineKinds]

\* Every variable has its type.
TypeOK ==
  /\ DOMAIN clients_ \subseteq Fds /\ clients_ \in [DOMAIN clients_ -> Ids]
  /\ DOMAIN id_to_fd_ \subseteq Ids /\ id_to_fd_ \in [DOMAIN id_to_fd_ -> Fds]
  /\ next_client_id_ \in 0 .. MaxConnects
  /\ DOMAIN open_fds \subseteq Fds /\ open_fds \in [DOMAIN open_fds -> Ids]
  /\ lock \in {"free"} \cup Threads
  /\ thread \in [Threads -> Places]
  /\ client_id_ \in {NoClient} \cup Ids
  /\ tasks \in Seq({"ask", "quit"})
  /\ running_ \in BOOLEAN /\ alive \in BOOLEAN
  /\ main \in {"test", "dozing", "asleep", "join", "engine", "done"}
  /\ inbox \in [Ids -> Seq({"ask", "quit"})]
  /\ outbox \in [Ids -> Seq(LinePart)]
  /\ gone \subseteq Ids
  /\ commands \in 0 .. MaxCommands
  /\ events \in 0 .. MaxEvents

\* The two tables name the same clients and agree with the kernel on whose
\* connection a descriptor is, although descriptors are closed outside the
\* mutex and come back for other clients.  Only the client the io thread is
\* about to insert or to erase is known to one side alone.
TablesAgree ==
  /\ DOMAIN id_to_fd_ = Range(clients_)
  /\ \A fd \in DOMAIN clients_ : id_to_fd_[clients_[fd]] = fd
  /\ \A fd \in DOMAIN clients_ \cup DOMAIN open_fds :
       \/ /\ fd \in DOMAIN clients_ \cap DOMAIN open_fds
          /\ clients_[fd] = open_fds[fd]
       \/ /\ thread["io"].pc \in {"insert", "erase"}
          /\ fd = thread["io"].fd

\* Whatever a client's socket holds was sent to that client: an id that was
\* read before its client was replaced on the same descriptor reaches nobody.
OnlyOwnLines ==
  \A c \in Ids : \A k \in DOMAIN outbox[c] : outbox[c][k].to = c

RestOf(part) == [half |-> "tail", to |-> part.to, kind |-> part.kind]

WritesRest(t, part) ==
  thread[t].pc = "tail" /\ thread[t].to = part.to /\ thread[t].kind = part.kind

\* Lines written by the two threads do not mix: what a connected client has
\* still to read is whole lines, each part followed by the rest of its line,
\* or its writer is about to write that.
LinesWhole ==
  \A c \in Ids \ gone : \A k \in DOMAIN outbox[c] :
    outbox[c][k].half = "head" =>
      \/ /\ k + 1 \in DOMAIN outbox[c]
         /\ outbox[c][k + 1] = RestOf(outbox[c][k])
      \/ /\ k + 1 \notin DOMAIN outbox[c]
         /\ \E t \in Threads : WritesRest(t, outbox[c][k])

\* Between two events of its loop the io thread leaves the controller with
\* nobody or with a client that is connected, never with one it has removed.
ListenerKnown ==
  thread["io"].pc = "poll" /\ client_id_ # NoClient =>
    client_id_ \in DOMAIN id_to_fd_

\* An io thread that waits for the mutex or for a client to read gets back to
\* its loop, as the observers' contract demands.
IoReturns ==
  thread["io"].pc \notin {"poll", "done"}
    ~> thread["io"].pc \in {"poll", "done"} \/ ~alive

\* A quit that finds main asleep in Wait ends the process: main wakes up, the
\* io thread closes all and is joined, and what is queued is done.
QuitEnds ==
  main = "asleep" /\ thread["sig"].pc = "notify" ~> main = "done" \/ ~alive
=============================================================================
