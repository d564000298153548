-------------------------- MODULE IpcServerProofs --------------------------
(***************************************************************************)
(* Proofs about IpcServer and about the lines its reads are cut into       *)
(* (LineFraming), for any descriptors, bytes, limits and bounds.           *)
(***************************************************************************)
EXTENDS IpcServer, LineFraming,
        FiniteSetTheorems, SequenceTheorems, WellFoundedInduction, TLAPS

-----------------------------------------------------------------------------
(* Maps.                                                                   *)

\* Erase keeps every other key.
LEMMA EraseFacts ==
  ASSUME NEW f, NEW k
  PROVE  /\ DOMAIN Erase(f, k) = DOMAIN f \ {k}
         /\ \A x \in DOMAIN f \ {k} : Erase(f, k)[x] = f[x]
BY DEF Erase, Restrict

IsMap(f, D, S) == DOMAIN f \subseteq D /\ f \in [DOMAIN f -> S]

\* Put keeps a map from D to S one,
LEMMA PutMap ==
  ASSUME NEW D, NEW S, NEW f, IsMap(f, D, S), NEW k \in D, NEW v \in S
  PROVE  IsMap(Put(f, k, v), D, S)
BY DEF Put, IsMap

\* and so does Erase, of any key.
LEMMA EraseMap ==
  ASSUME NEW D, NEW S, NEW f, IsMap(f, D, S), NEW k
  PROVE  IsMap(Erase(f, k), D, S)
BY DEF Erase, Restrict, IsMap

-----------------------------------------------------------------------------
(* Places of the threads.                                                  *)

\* The fields of a place follow from where it is.
LEMMA PlaceFields ==
  ASSUME NEW r \in Places
  PROVE  /\ r.pc \in {"insert", "erase"} => r.fd \in Fds /\ r.id \in Ids
         /\ r.pc = "route" => r.to \in {NoClient} \cup Ids /\ r.kind \in LineKinds
         /\ r.pc \in {"head", "tail"} =>
              r.fd \in Fds /\ r.to \in Ids /\ r.kind \in LineKinds
BY DEF Places

\* The places the actions lead to.
LEMMA PlaceTypes ==
  /\ \A pc \in {"poll", "done", "idle", "check", "read", "notify"} :
       At(pc) \in Places
  /\ \A pc \in {"insert", "erase"}, fd \in Fds, id \in Ids :
       OnFd(pc, fd, id) \in Places
  /\ \A to \in {NoClient} \cup Ids, kind \in LineKinds :
       Sending(to, kind) \in Places
BY DEF Places, At, OnFd, Sending

\* Where the threads are between two tasks.
LEMMA HomeTypes == Home["io"] = At("poll") /\ Home["sig"] = At("idle")
BY DEF Home

-----------------------------------------------------------------------------
(* Types.                                                                  *)

\* A thread that goes to a place of its own leaves the other where it is.
LEMMA GoesTypes ==
  ASSUME thread \in [Threads -> Places], NEW t \in Threads, NEW r \in Places,
         Goes(t, r)
  PROVE  /\ thread' \in [Threads -> Places]
         /\ thread'[t] = r
         /\ \A u \in Threads \ {t} : thread'[u] = thread[u]
BY DEF Goes

\* The program starts with the right types,
LEMMA TypeInit == Init => TypeOK
BY IpcAssumption, PlaceTypes DEF Init, TypeOK, Home, Threads, NoClient, Ids

\* A sending thread's steps keep the types.
LEMMA SendTypes ==
  ASSUME TypeOK, NEW t \in Threads, Send(t)
  PROVE  TypeOK'
<1> USE DEF tables, sockets, process, counts
<1>h. Home[t] \in Places
  BY PlaceTypes, HomeTypes DEF Threads
<1>p. thread[t] \in Places
  BY DEF TypeOK
<1>w. \A half \in {"head", "tail"}, fd \in Fds :
        thread[t].to \in Ids /\ thread[t].kind \in LineKinds =>
          Writing(t, half, fd) \in Places
  BY DEF Writing, Places
<1>1. CASE RouteFound(t)
  <2>1. thread[t].to \in Ids /\ thread[t].kind \in LineKinds
    BY <1>1, <1>p, PlaceFields DEF RouteFound, Is, TypeOK
  <2>2. Writing(t, "head", id_to_fd_[thread[t].to]) \in Places
    BY <1>1, <1>w, <2>1 DEF RouteFound, TypeOK
  <2>3. thread' \in [Threads -> Places]
    BY <1>1, <2>2, GoesTypes DEF RouteFound, TypeOK
  <2> QED BY <1>1, <2>3 DEF RouteFound, TypeOK
<1>2. CASE RouteUnknown(t)
  BY <1>2, <1>h, GoesTypes DEF RouteUnknown, TypeOK
<1>3. CASE WritePart(t)
  <2>1. thread[t].fd \in Fds /\ thread[t].to \in Ids /\ thread[t].kind \in LineKinds
    BY <1>3, <1>p, PlaceFields DEF WritePart, InWrite, Is
  <2>2. thread' \in [Threads -> Places] /\ lock' \in {"free"} \cup Threads
    BY <1>3, <1>h, <1>w, <2>1, GoesTypes DEF WritePart, TypeOK
  <2>3. [half |-> thread[t].pc, to |-> thread[t].to, kind |-> thread[t].kind]
          \in LinePart
    BY <1>3, <2>1 DEF WritePart, InWrite, Is, LinePart
  <2>4. outbox' \in [Ids -> Seq(LinePart)]
    BY <1>3, <2>3 DEF WritePart, TypeOK
  <2> QED BY <1>3, <2>2, <2>4 DEF WritePart, TypeOK
<1>4. CASE WriteFails(t)
  BY <1>4, <1>h, GoesTypes DEF WriteFails, TypeOK
<1>5. CASE WriteKills(t)
  BY <1>5 DEF WriteKills, TypeOK
<1> QED BY <1>1, <1>2, <1>3, <1>4, <1>5 DEF Send

\* The other steps of the io thread keep the types.
LEMMA IoTypes ==
  ASSUME TypeOK, TablesAgree, IoStep, ~Send("io")
  PROVE  TypeOK'
<1> USE DEF tables, sockets, process, counts
<1>t. "io" \in Threads /\ Home["io"] \in Places /\ thread["io"] \in Places
  BY PlaceTypes, HomeTypes DEF Threads, TypeOK
<1>m. /\ IsMap(clients_, Fds, Ids) /\ IsMap(id_to_fd_, Ids, Fds)
      /\ IsMap(open_fds, Fds, Ids)
  BY DEF TypeOK, IsMap
<1>1. CASE Accept
  <2>1. next_client_id_ \in Ids /\ next_client_id_' \in 0 .. MaxConnects
    BY <1>1, IpcAssumption DEF Accept, Ids, TypeOK
  <2> PICK fd \in Fds \ DOMAIN open_fds :
        /\ open_fds' = Put(open_fds, fd, next_client_id_)
        /\ Goes("io", OnFd("insert", fd, next_client_id_))
    BY <1>1 DEF Accept
  <2>2. IsMap(open_fds', Fds, Ids)
    BY <1>m, <2>1, PutMap
  <2>3. OnFd("insert", fd, next_client_id_) \in Places
    BY <2>1, PlaceTypes
  <2>4. thread' \in [Threads -> Places]
    BY <1>t, <2>3, GoesTypes DEF TypeOK
  <2> QED BY <1>1, <2>1, <2>2, <2>4 DEF Accept, TypeOK, IsMap
<1>2. CASE Insert
  <2> DEFINE id == thread["io"].id
             fd == thread["io"].fd
  <2>1. id \in Ids /\ fd \in Fds
    BY <1>2, <1>t, PlaceFields DEF Insert, Is
  <2>2. clients_' = Put(clients_, fd, id) /\ id_to_fd_' = Put(id_to_fd_, id, fd)
    BY <1>2 DEF Insert
  <2>3. IsMap(clients_', Fds, Ids) /\ IsMap(id_to_fd_', Ids, Fds)
    BY <1>m, <2>1, <2>2, PutMap
  <2>4. Sending(id, "hello") \in Places
    BY <2>1, PlaceTypes DEF LineKinds
  <2>5. thread' \in [Threads -> Places]
    BY <1>2, <1>t, <2>4, GoesTypes DEF Insert, TypeOK
  <2> QED BY <1>2, <2>1, <2>2, <2>3, <2>5 DEF Insert, TypeOK, IsMap
<1>3. CASE EraseClient
  <2>1. /\ clients_' = Erase(clients_, thread["io"].fd)
        /\ id_to_fd_' = Erase(id_to_fd_, thread["io"].id)
    BY <1>3 DEF EraseClient
  <2>2. IsMap(clients_', Fds, Ids) /\ IsMap(id_to_fd_', Ids, Fds)
    BY <1>m, <2>1, EraseMap
  <2>3. thread' \in [Threads -> Places]
    BY <1>3, <1>t, GoesTypes DEF EraseClient, TypeOK
  <2> QED BY <1>3, <2>2, <2>3 DEF EraseClient, TypeOK, IsMap
<1>4. CASE WrapUp
  <2>1. At("done") \in Places
    BY PlaceTypes
  <2>2. thread' \in [Threads -> Places]
    BY <1>4, <1>t, <2>1, GoesTypes DEF WrapUp, TypeOK
  <2> QED BY <1>4, <2>2 DEF WrapUp, TypeOK
<1>5. ASSUME NEW fd \in Fds, ReadLine(fd)
      PROVE  TypeOK'
  <2>1. open_fds[fd] \in Ids
    BY <1>5 DEF ReadLine, TypeOK, TablesAgree, Is
  <2>2. /\ inbox[open_fds[fd]] \in Seq({"ask", "quit"})
        /\ inbox[open_fds[fd]] # <<>>
    BY <1>5, <2>1 DEF ReadLine, TypeOK
  <2>3. /\ Head(inbox[open_fds[fd]]) \in {"ask", "quit"}
        /\ Tail(inbox[open_fds[fd]]) \in Seq({"ask", "quit"})
    BY <2>2
  <2> QED BY <1>5, <2>1, <2>3 DEF ReadLine, TypeOK
<1>6. ASSUME NEW fd \in Fds, CloseClient(fd)
      PROVE  TypeOK'
  <2>1. OnFd("erase", fd, clients_[fd]) \in Places
    BY <1>6, PlaceTypes DEF CloseClient, TypeOK
  <2>2. thread' \in [Threads -> Places]
    BY <1>6, <1>t, <2>1, GoesTypes DEF CloseClient, TypeOK
  <2>3. IsMap(open_fds', Fds, Ids)
    BY <1>6, <1>m, EraseMap DEF CloseClient
  <2> QED BY <1>6, <2>2, <2>3 DEF CloseClient, TypeOK, IsMap
<1> QED BY <1>1, <1>2, <1>3, <1>4, <1>5, <1>6 DEF IoStep

\* So do the other steps of the signalling thread,
LEMMA SigTypes ==
  ASSUME TypeOK, SigStep, ~Send("sig")
  PROVE  TypeOK'
<1> USE DEF tables, sockets, process, counts
<1>t. "sig" \in Threads /\ Home["sig"] \in Places
  BY PlaceTypes, HomeTypes DEF Threads
<1>p. At("check") \in Places /\ At("read") \in Places /\ At("notify") \in Places
  BY PlaceTypes
<1>q. tasks # <<>> => Tail(tasks) \in Seq({"ask", "quit"})
  BY DEF TypeOK
<1>1. CASE HandleCommand
  <2>1. thread' \in [Threads -> Places]
    BY <1>1, <1>t, <1>p, GoesTypes DEF HandleCommand, TypeOK
  <2> QED BY <1>1, <1>q, <2>1 DEF HandleCommand, TypeOK
<1>2. CASE EngineEvent
  <2>1. thread' \in [Threads -> Places]
    BY <1>2, <1>t, <1>p, GoesTypes DEF EngineEvent, TypeOK
  <2>2. events' \in 0 .. MaxEvents
    BY <1>2, IpcAssumption DEF EngineEvent, TypeOK
  <2> QED BY <1>2, <2>1, <2>2 DEF EngineEvent, TypeOK
<1>3. CASE CheckClient
  <2>1. thread' \in [Threads -> Places]
    BY <1>3, <1>t, <1>p, GoesTypes DEF CheckClient, TypeOK
  <2> QED BY <1>3, <2>1 DEF CheckClient, TypeOK
<1>4. CASE ReadClient
  <2>1. Sending(client_id_, "event") \in Places
    BY PlaceTypes DEF TypeOK, LineKinds
  <2>2. thread' \in [Threads -> Places]
    BY <1>4, <1>t, <2>1, GoesTypes DEF ReadClient, TypeOK
  <2> QED BY <1>4, <2>2 DEF ReadClient, TypeOK
<1>5. CASE HandleQuit
  <2>1. thread' \in [Threads -> Places]
    BY <1>5, <1>t, <1>p, GoesTypes DEF HandleQuit, TypeOK
  <2> QED BY <1>5, <1>q, <2>1 DEF HandleQuit, TypeOK
<1>6. CASE Notify
  <2>1. thread' \in [Threads -> Places]
    BY <1>6, <1>t, GoesTypes DEF Notify, TypeOK
  <2> QED BY <1>6, <2>1 DEF Notify, TypeOK
<1> QED BY <1>1, <1>2, <1>3, <1>4, <1>5, <1>6 DEF SigStep

\* and those of main and of the clients.
LEMMA OtherTypes ==
  ASSUME TypeOK, MainStep \/ ClientStep \/ UNCHANGED vars
  PROVE  TypeOK'
<1> USE DEF tables, sockets, process, counts
<1>1. CASE MainStep
  BY <1>1 DEF MainStep, FallAsleep, Sleep, SpuriousWakeup, WaitReturns, JoinIo,
              StopEngine, MainGoes, TypeOK
<1>2. ASSUME NEW c \in Ids, NEW cmd \in {"ask", "quit"}, ClientCommand(c, cmd)
      PROVE  TypeOK'
  <2>1. commands' \in 0 .. MaxCommands
    BY <1>2, IpcAssumption DEF ClientCommand, TypeOK
  <2> QED BY <1>2, <2>1 DEF ClientCommand, TypeOK
<1>3. ASSUME NEW c \in Ids, ClientRead(c)
      PROVE  TypeOK'
  <2>1. Tail(outbox[c]) \in Seq(LinePart)
    BY <1>3 DEF ClientRead, TypeOK
  <2> QED BY <1>3, <2>1 DEF ClientRead, TypeOK
<1>4. ASSUME NEW c \in Ids, ClientClose(c)
      PROVE  TypeOK'
  BY <1>4 DEF ClientClose, TypeOK
<1>5. CASE UNCHANGED vars
  BY <1>5 DEF vars, TypeOK
<1> QED BY <1>1, <1>2, <1>3, <1>4, <1>5 DEF ClientStep

\* Every step keeps the types where the tables agree: ReadLine and CloseClient
\* look up a descriptor in open_fds that they know from clients_.
LEMMA TypeNext == TypeOK /\ TablesAgree /\ [Next]_vars => TypeOK'
<1>1. ASSUME TypeOK, NEW t \in Threads, Send(t) PROVE TypeOK'
  BY <1>1, SendTypes
<1> QED BY <1>1, IoTypes, SigTypes, OtherTypes
           DEF Next, IoStep, SigStep, Threads

-----------------------------------------------------------------------------
(* The inductive invariant.                                                *)

\* Ids are not assigned twice, and the client the io thread is about to insert
\* or to erase is in the state that its place in the code says.
TransitOK ==
  /\ \A id \in DOMAIN id_to_fd_ : id < next_client_id_
  /\ thread["io"].pc = "insert" =>
       /\ thread["io"].fd \in DOMAIN open_fds \ DOMAIN clients_
       /\ open_fds[thread["io"].fd] = thread["io"].id
       /\ thread["io"].id \notin DOMAIN id_to_fd_
       /\ thread["io"].id < next_client_id_
  /\ thread["io"].pc = "erase" =>
       /\ thread["io"].fd \in DOMAIN clients_ \ DOMAIN open_fds
       /\ clients_[thread["io"].fd] = thread["io"].id
       /\ thread["io"].id \in gone

\* A thread holds the mutex exactly while it writes, to the descriptor that
\* the table still names for the client.
SendersOK ==
  \A t \in Threads :
    /\ lock = t <=> thread[t].pc \in {"head", "tail"}
    /\ lock = t => /\ thread[t].to \in DOMAIN id_to_fd_
                   /\ id_to_fd_[thread[t].to] = thread[t].fd

\* The last thing sent to the client of a half-written line is its first half,
\* unless that has been read or the client is gone.
TailsOK ==
  \A t \in Threads :
    thread[t].pc = "tail" =>
      LET c == thread[t].to IN
      \/ c \in gone \/ outbox[c] = <<>>
      \/ outbox[c][Len(outbox[c])] =
           [half |-> "head", to |-> c, kind |-> thread[t].kind]

\* ListenerKnown away from "poll" too.
ListenerOK ==
  thread["io"].pc \notin {"erase", "done"} /\ client_id_ # NoClient =>
    client_id_ \in DOMAIN id_to_fd_

IInv ==
  /\ TypeOK /\ TablesAgree /\ TransitOK /\ SendersOK /\ ListenerOK
  /\ OnlyOwnLines /\ LinesWhole /\ TailsOK

\* The program starts with it.
LEMMA InvInit == Init => IInv
<1> SUFFICES ASSUME Init PROVE IInv
  OBVIOUS
<1>1. thread["io"].pc = "poll" /\ thread["sig"].pc = "idle"
  BY DEF Init, Home, At
<1>2. Range(clients_) = {}
  BY DEF Init, Range
<1>3. lock \notin Threads
  BY DEF Init, Threads
<1> QED BY TypeInit, <1>1, <1>2, <1>3
           DEF Init, IInv, TablesAgree, TransitOK, SendersOK, TailsOK,
               ListenerOK, OnlyOwnLines, LinesWhole, Threads

\* Where a step of one thread leaves both.
LEMMA GoesTo ==
  ASSUME TypeOK, NEW t \in Threads, NEW r, Goes(t, r)
  PROVE  thread'[t] = r /\ \A u \in Threads \ {t} : thread'[u] = thread[u]
BY DEF Goes, TypeOK

\* A step of Send neither starts nor ends in an insertion or a removal, and
\* leaves what TablesAgree speaks of alone.
LEMMA SendQuiet ==
  ASSUME TypeOK, NEW t \in Threads, Send(t)
  PROVE  /\ UNCHANGED <<tables, sockets, client_id_, gone, inbox>>
         /\ \/ UNCHANGED thread
            \/ /\ thread[t].pc \in {"route", "head", "tail"}
               /\ thread'[t].pc \in {"head", "tail", "poll", "idle"}
               /\ \A u \in Threads \ {t} : thread'[u] = thread[u]
<1> USE DEF process, counts
<1>h. Home[t].pc \in {"poll", "idle"}
  BY HomeTypes DEF Threads, At
<1>w. \A half, fd : Writing(t, half, fd).pc = half
  BY DEF Writing
<1>1. CASE RouteFound(t)
  BY <1>1, <1>w, GoesTo DEF RouteFound, Is
<1>2. CASE RouteUnknown(t)
  BY <1>2, <1>h, GoesTo DEF RouteUnknown, Is
<1>3. CASE WritePart(t)
  BY <1>3, <1>h, <1>w, GoesTo DEF WritePart, InWrite, Is
<1>4. CASE WriteFails(t)
  BY <1>4, <1>h, GoesTo DEF WriteFails, InWrite, Is
<1>5. CASE WriteKills(t)
  BY <1>5 DEF WriteKills
<1> QED BY <1>1, <1>2, <1>3, <1>4, <1>5 DEF Send

\* The other steps that leave the tables, the descriptors and the io thread's
\* place alone.
LEMMA OthersQuiet ==
  ASSUME TypeOK,
         \/ SigStep /\ ~Send("sig")
         \/ \E fd \in Fds : ReadLine(fd)
         \/ MainStep \/ ClientStep \/ UNCHANGED vars
  PROVE  /\ UNCHANGED <<tables, sockets, lock>>
         /\ gone \subseteq gone'
         /\ thread'["io"] = thread["io"]
         /\ \/ UNCHANGED thread["sig"]
            \/ /\ thread["sig"].pc \notin {"head", "tail"}
               /\ thread'["sig"].pc \notin {"head", "tail"}
<1> USE DEF tables, sockets
<1>t. "sig" \in Threads /\ "io" \in Threads \ {"sig"}
  BY DEF Threads
<1>h. Home["sig"].pc = "idle"
  BY HomeTypes DEF At
<1>1. CASE SigStep /\ ~Send("sig")
  BY <1>1, <1>t, <1>h, GoesTo
     DEF SigStep, HandleCommand, EngineEvent, CheckClient, ReadClient,
         HandleQuit, Notify, Is, At, Sending
<1>2. CASE \E fd \in Fds : ReadLine(fd)
  BY <1>2 DEF ReadLine
<1>3. CASE MainStep
  BY <1>3 DEF MainStep, FallAsleep, Sleep, SpuriousWakeup, WaitReturns, JoinIo,
              StopEngine, MainGoes
<1>4. CASE ClientStep
  BY <1>4 DEF ClientStep, ClientCommand, ClientRead, ClientClose
<1>5. CASE UNCHANGED vars
  BY <1>5 DEF vars
<1> QED BY <1>1, <1>2, <1>3, <1>4, <1>5

-----------------------------------------------------------------------------
(* The tables.                                                             *)

\* The client whose descriptor is looked up by its id has that descriptor, and
\* unless it is just being removed the kernel has it so too.
LEMMA RouteFacts ==
  ASSUME TypeOK, TablesAgree, TransitOK, NEW id \in DOMAIN id_to_fd_
  PROVE  /\ id_to_fd_[id] \in DOMAIN clients_
         /\ clients_[id_to_fd_[id]] = id
         /\ id_to_fd_[id] \in DOMAIN open_fds => open_fds[id_to_fd_[id]] = id
         /\ id_to_fd_[id] \notin DOMAIN open_fds => id \in gone
<1> DEFINE fd == id_to_fd_[id]
<1>1. PICK f \in DOMAIN clients_ : clients_[f] = id
  BY DEF TablesAgree, Range
<1>2. f = fd /\ fd \in DOMAIN clients_ /\ clients_[fd] = id
  BY <1>1 DEF TablesAgree
<1>3. fd \in DOMAIN open_fds => open_fds[fd] = id
  BY <1>2 DEF TablesAgree, TransitOK
<1>4. fd \notin DOMAIN open_fds => id \in gone
  BY <1>2 DEF TablesAgree, TransitOK
<1> QED BY <1>2, <1>3, <1>4

\* Every step of the program keeps the tables in agreement.
LEMMA TablesNext ==
  ASSUME IInv, [Next]_vars
  PROVE  TablesAgree' /\ TransitOK'
<1> USE DEF tables, sockets
<1>a. TypeOK /\ TablesAgree /\ TransitOK
  BY DEF IInv
<1>t. "io" \in Threads
  BY DEF Threads
<1>h. Home["io"].pc = "poll"
  BY HomeTypes DEF At
<1>q. ASSUME UNCHANGED <<tables, sockets>>, gone \subseteq gone',
             \/ thread'["io"] = thread["io"]
             \/ /\ thread["io"].pc \notin {"insert", "erase"}
                /\ thread'["io"].pc \notin {"insert", "erase"}
      PROVE  TablesAgree' /\ TransitOK'
  <2>1. TablesAgree'
    BY <1>a, <1>q DEF TablesAgree
  <2>2. TransitOK'
    BY <1>a, <1>q DEF TransitOK
  <2> QED BY <2>1, <2>2
<1>1. ASSUME NEW t \in Threads, Send(t)
      PROVE  TablesAgree' /\ TransitOK'
  BY <1>a, <1>t, <1>q, <1>1, SendQuiet
<1>2. CASE Accept
  <2>1. PICK fd \in Fds \ DOMAIN open_fds :
          /\ open_fds' = Put(open_fds, fd, next_client_id_)
          /\ Goes("io", OnFd("insert", fd, next_client_id_))
    BY <1>2 DEF Accept
  <2>2. thread'["io"] = OnFd("insert", fd, next_client_id_)
    BY <1>a, <1>t, <2>1, GoesTo
  <2>3. /\ DOMAIN open_fds' = DOMAIN open_fds \cup {fd}
        /\ open_fds'[fd] = next_client_id_
        /\ \A x \in DOMAIN open_fds : open_fds'[x] = open_fds[x]
    BY <2>1 DEF Put
  <2>4. \A f \in DOMAIN clients_ \cup DOMAIN open_fds :
          /\ f \in DOMAIN clients_ \cap DOMAIN open_fds
          /\ clients_[f] = open_fds[f]
    BY <1>2, <1>a DEF Accept, Is, TablesAgree
  <2>5. TablesAgree'
    BY <1>2, <1>a, <2>2, <2>3, <2>4 DEF Accept, TablesAgree, OnFd
  <2>6. next_client_id_ \in Int /\ next_client_id_' = next_client_id_ + 1
    BY <1>2, <1>a DEF Accept, TypeOK
  <2>7. DOMAIN id_to_fd_ \subseteq Int
    BY <1>a, IpcAssumption DEF TypeOK, Ids
  <2>8. TransitOK'
    BY <1>2, <1>a, <2>1, <2>2, <2>3, <2>4, <2>6, <2>7
       DEF Accept, TransitOK, OnFd
  <2> QED BY <2>5, <2>8
<1>3. CASE Insert
  <2> DEFINE fd == thread["io"].fd
             id == thread["io"].id
  <2>1. /\ clients_' = Put(clients_, fd, id)
        /\ id_to_fd_' = Put(id_to_fd_, id, fd)
        /\ UNCHANGED <<sockets, gone>>
    BY <1>3 DEF Insert
  <2>2. /\ fd \in DOMAIN open_fds \ DOMAIN clients_ /\ open_fds[fd] = id
        /\ id \notin DOMAIN id_to_fd_ /\ id < next_client_id_
    BY <1>3, <1>a DEF Insert, Is, TransitOK
  <2>3. thread'["io"].pc = "route"
    BY <1>3, <1>a, <1>t, GoesTo DEF Insert, Sending
  <2>4. /\ DOMAIN clients_' = DOMAIN clients_ \cup {fd} /\ clients_'[fd] = id
        /\ \A f \in DOMAIN clients_ : clients_'[f] = clients_[f]
    BY <2>1, <2>2 DEF Put
  <2>5. /\ DOMAIN id_to_fd_' = DOMAIN id_to_fd_ \cup {id} /\ id_to_fd_'[id] = fd
        /\ \A i \in DOMAIN id_to_fd_ : id_to_fd_'[i] = id_to_fd_[i]
    BY <2>1, <2>2 DEF Put
  <2>6. DOMAIN id_to_fd_' = Range(clients_')
    BY <1>a, <2>4, <2>5 DEF TablesAgree, Range
  <2>7. \A f \in DOMAIN clients_' : id_to_fd_'[clients_'[f]] = f
    BY <1>a, <2>2, <2>4, <2>5 DEF TablesAgree, Range
  <2>8. \A f \in DOMAIN clients_' \cup DOMAIN open_fds' :
          /\ f \in DOMAIN clients_' \cap DOMAIN open_fds'
          /\ clients_'[f] = open_fds'[f]
    BY <1>3, <1>a, <2>1, <2>2, <2>4 DEF Insert, Is, TablesAgree
  <2>9. TransitOK'
    BY <1>a, <2>1, <2>2, <2>3, <2>5 DEF TransitOK
  <2> QED BY <2>6, <2>7, <2>8, <2>9 DEF TablesAgree
<1>4. CASE EraseClient
  <2> DEFINE fd == thread["io"].fd
             id == thread["io"].id
  <2>1. /\ clients_' = Erase(clients_, fd)
        /\ id_to_fd_' = Erase(id_to_fd_, id)
        /\ UNCHANGED <<sockets, gone>>
    BY <1>4 DEF EraseClient
  <2>2. fd \in DOMAIN clients_ \ DOMAIN open_fds /\ clients_[fd] = id
    BY <1>4, <1>a DEF EraseClient, Is, TransitOK
  <2>3. thread'["io"].pc = "poll"
    BY <1>4, <1>a, <1>t, <1>h, GoesTo DEF EraseClient
  <2>4. /\ DOMAIN clients_' = DOMAIN clients_ \ {fd}
        /\ \A f \in DOMAIN clients_' : clients_'[f] = clients_[f]
    BY <2>1, EraseFacts
  <2>5. /\ DOMAIN id_to_fd_' = DOMAIN id_to_fd_ \ {id}
        /\ \A i \in DOMAIN id_to_fd_' : id_to_fd_'[i] = id_to_fd_[i]
    BY <2>1, EraseFacts
  <2>6. \A f \in DOMAIN clients_' : clients_[f] # id
    BY <1>a, <2>2, <2>4 DEF TablesAgree
  <2>7. DOMAIN id_to_fd_' = Range(clients_')
    BY <1>a, <2>2, <2>4, <2>5, <2>6 DEF TablesAgree, Range
  <2>8. \A f \in DOMAIN clients_' : id_to_fd_'[clients_'[f]] = f
    BY <1>a, <2>4, <2>5, <2>6 DEF TablesAgree, Range
  <2>9. \A f \in DOMAIN clients_' \cup DOMAIN open_fds' :
          /\ f \in DOMAIN clients_' \cap DOMAIN open_fds'
          /\ clients_'[f] = open_fds'[f]
    BY <1>a, <2>1, <2>2, <2>4 DEF TablesAgree
  <2>10. TransitOK'
    BY <1>a, <2>1, <2>3, <2>5 DEF TransitOK
  <2> QED BY <2>7, <2>8, <2>9, <2>10 DEF TablesAgree
<1>5. ASSUME NEW fd \in Fds, CloseClient(fd)
      PROVE  TablesAgree' /\ TransitOK'
  <2>1. thread'["io"] = OnFd("erase", fd, clients_[fd])
    BY <1>5, <1>a, <1>t, GoesTo DEF CloseClient
  <2>2. /\ DOMAIN open_fds' = DOMAIN open_fds \ {fd}
        /\ \A f \in DOMAIN open_fds' : open_fds'[f] = open_fds[f]
    BY <1>5, EraseFacts DEF CloseClient
  <2>3. \A f \in DOMAIN clients_ \cup DOMAIN open_fds :
          /\ f \in DOMAIN clients_ \cap DOMAIN open_fds
          /\ clients_[f] = open_fds[f]
    BY <1>5, <1>a DEF CloseClient, Is, TablesAgree
  <2>4. TablesAgree'
    BY <1>5, <1>a, <2>1, <2>2, <2>3 DEF CloseClient, TablesAgree, OnFd
  <2>5. clients_[fd] \in gone
    BY <1>5, <2>3 DEF CloseClient
  <2>6. TransitOK'
    BY <1>5, <1>a, <2>1, <2>2, <2>5 DEF CloseClient, TransitOK, OnFd
  <2> QED BY <2>4, <2>6
<1>6. CASE WrapUp
  <2>1. thread'["io"].pc = "done"
    BY <1>6, <1>a, <1>t, GoesTo DEF WrapUp, At
  <2>2. Range(<<>>) = {} /\ DOMAIN <<>> = {}
    BY DEF Range
  <2> QED BY <1>6, <2>1, <2>2 DEF WrapUp, TablesAgree, TransitOK
<1>7. ASSUME \/ SigStep /\ ~Send("sig")
             \/ \E fd \in Fds : ReadLine(fd)
             \/ MainStep \/ ClientStep \/ UNCHANGED vars
      PROVE  TablesAgree' /\ TransitOK'
  BY <1>a, <1>q, <1>7, OthersQuiet
<1> QED BY <1>1, <1>2, <1>3, <1>4, <1>5, <1>6, <1>7 DEF Next, IoStep, Threads

-----------------------------------------------------------------------------
(* The mutex, and whom the controller speaks to.                           *)

\* Every step keeps the mutex with the writing thread and the writer's route.
LEMMA SendersNext ==
  ASSUME IInv, [Next]_vars
  PROVE  SendersOK'
<1> USE DEF tables, sockets
<1>a. TypeOK /\ SendersOK
  BY DEF IInv
<1>t. Threads = {"io", "sig"} /\ "free" \notin Threads
  BY DEF Threads
<1>h. \A t \in Threads : Home[t].pc \notin {"head", "tail"}
  BY HomeTypes DEF At, Threads
<1>w. \A t, half, fd : /\ Writing(t, half, fd).pc = half
                       /\ Writing(t, half, fd).fd = fd
                       /\ Writing(t, half, fd).to = thread[t].to
  BY DEF Writing
<1>1. ASSUME NEW t \in Threads, Send(t)
      PROVE  SendersOK'
  <2>q. UNCHANGED id_to_fd_
    BY <1>a, <1>1, SendQuiet
  <2>1. CASE RouteFound(t)
    <3>1. /\ thread'[t] = Writing(t, "head", id_to_fd_[thread[t].to])
          /\ \A u \in Threads \ {t} : thread'[u] = thread[u]
      BY <1>a, <2>1, GoesTo DEF RouteFound
    <3> QED BY <1>a, <1>t, <1>w, <2>1, <2>q, <3>1 DEF RouteFound, SendersOK
  <2>2. CASE RouteUnknown(t)
    <3>1. /\ thread'[t] = Home[t]
          /\ \A u \in Threads \ {t} : thread'[u] = thread[u]
      BY <1>a, <2>2, GoesTo DEF RouteUnknown
    <3> QED BY <1>a, <1>h, <1>t, <2>2, <2>q, <3>1 DEF RouteUnknown, Is, SendersOK
  <2>3. CASE WritePart(t) /\ Is(t, "head")
    <3>1. Goes(t, Writing(t, "tail", thread[t].fd)) /\ UNCHANGED lock
      BY <2>3 DEF WritePart, Is
    <3>2. /\ thread'[t] = Writing(t, "tail", thread[t].fd)
          /\ \A u \in Threads \ {t} : thread'[u] = thread[u]
      BY <1>a, <3>1, GoesTo
    <3> QED BY <1>a, <1>w, <2>3, <2>q, <3>1, <3>2 DEF Is, SendersOK
  <2>4. CASE \/ WritePart(t) /\ Is(t, "tail")
             \/ WriteFails(t)
    <3>1. Goes(t, Home[t]) /\ lock' = "free" /\ thread[t].pc \in {"head", "tail"}
      BY <2>4 DEF WritePart, WriteFails, InWrite, Is
    <3>2. /\ thread'[t] = Home[t]
          /\ \A u \in Threads \ {t} : thread'[u] = thread[u]
      BY <1>a, <3>1, GoesTo
    <3>3. \A u \in Threads \ {t} : thread[u].pc \notin {"head", "tail"}
      BY <1>a, <3>1 DEF SendersOK
    <3> QED BY <1>h, <1>t, <3>1, <3>2, <3>3 DEF SendersOK
  <2>5. CASE WriteKills(t)
    BY <1>a, <2>5 DEF WriteKills, SendersOK
  <2> QED BY <1>1, <2>1, <2>2, <2>3, <2>4, <2>5 DEF Send, WritePart, InWrite
<1>2. CASE Accept \/ \E fd \in Fds : CloseClient(fd)
  <2>1. PICK pc, fd, id : pc \in {"insert", "erase"} /\ Goes("io", OnFd(pc, fd, id))
    BY <1>2 DEF Accept, CloseClient
  <2>2. thread["io"].pc = "poll" /\ UNCHANGED <<lock, id_to_fd_>>
    BY <1>2 DEF Accept, CloseClient, Is
  <2>3. thread'["io"].pc \in {"insert", "erase"} /\ thread'["sig"] = thread["sig"]
    BY <1>a, <1>t, <2>1, GoesTo DEF OnFd
  <2> QED BY <1>a, <1>t, <2>1, <2>2, <2>3 DEF SendersOK
<1>3. CASE Insert \/ EraseClient \/ WrapUp
  <2>1. PICK r : Goes("io", r) /\ r.pc \notin {"head", "tail"}
    BY <1>3, <1>h, <1>t DEF Insert, EraseClient, WrapUp, Sending, At
  <2>2. lock = "free" /\ UNCHANGED lock
    BY <1>3 DEF Insert, EraseClient, WrapUp
  <2>3. thread'["io"] = r /\ thread'["sig"] = thread["sig"]
    BY <1>a, <1>t, <2>1, GoesTo
  <2> QED BY <1>a, <1>t, <2>1, <2>2, <2>3 DEF SendersOK
<1>4. ASSUME \/ SigStep /\ ~Send("sig")
             \/ \E fd \in Fds : ReadLine(fd)
             \/ MainStep \/ ClientStep \/ UNCHANGED vars
      PROVE  SendersOK'
  <2>1. /\ UNCHANGED <<id_to_fd_, lock>> /\ thread'["io"] = thread["io"]
        /\ \/ thread'["sig"] = thread["sig"]
           \/ /\ thread["sig"].pc \notin {"head", "tail"}
              /\ thread'["sig"].pc \notin {"head", "tail"}
    BY <1>a, <1>4, OthersQuiet
  <2> QED BY <1>a, <1>t, <2>1 DEF SendersOK
<1> QED BY <1>1, <1>2, <1>3, <1>4, <1>t DEF Next, IoStep

\* Every step leaves the controller with a client it can reach, or with nobody.
LEMMA ListenerNext ==
  ASSUME IInv, [Next]_vars
  PROVE  ListenerOK'
<1> USE DEF tables, sockets
<1>a. TypeOK /\ TablesAgree /\ ListenerOK
  BY DEF IInv
<1>t. "io" \in Threads
  BY DEF Threads
<1>1. ASSUME NEW t \in Threads, Send(t)
      PROVE  ListenerOK'
  BY <1>a, <1>t, <1>1, SendQuiet DEF ListenerOK
<1>2. CASE Accept
  BY <1>a, <1>2 DEF Accept, Is, ListenerOK
<1>3. CASE Insert
  BY <1>3 DEF Insert, ListenerOK, Put
<1>4. CASE EraseClient
  BY <1>4 DEF EraseClient, ListenerOK
<1>5. ASSUME NEW fd \in Fds, CloseClient(fd)
      PROVE  ListenerOK'
  <2>1. thread'["io"].pc = "erase"
    BY <1>a, <1>t, <1>5, GoesTo DEF CloseClient, OnFd
  <2> QED BY <2>1 DEF ListenerOK
<1>6. CASE WrapUp
  <2>1. thread'["io"].pc = "done"
    BY <1>a, <1>t, <1>6, GoesTo DEF WrapUp, At
  <2> QED BY <2>1 DEF ListenerOK
<1>7. ASSUME NEW fd \in Fds, ReadLine(fd)
      PROVE  ListenerOK'
  <2>1. clients_[fd] \in DOMAIN id_to_fd_
    BY <1>a, <1>7 DEF ReadLine, TablesAgree, Range
  <2> QED BY <1>7, <2>1 DEF ReadLine, ListenerOK
<1>8. ASSUME \/ SigStep /\ ~Send("sig")
             \/ MainStep \/ ClientStep \/ UNCHANGED vars
      PROVE  ListenerOK'
  <2>1. UNCHANGED client_id_
    BY <1>8 DEF SigStep, HandleCommand, EngineEvent, CheckClient, ReadClient,
                HandleQuit, Notify, MainStep, FallAsleep, Sleep, SpuriousWakeup,
                WaitReturns, JoinIo, StopEngine, MainGoes, ClientStep,
                ClientCommand, ClientRead, ClientClose, vars
  <2>2. UNCHANGED id_to_fd_ /\ thread'["io"] = thread["io"]
    BY <1>a, <1>8, OthersQuiet
  <2> QED BY <1>a, <2>1, <2>2 DEF ListenerOK
<1> QED BY <1>1, <1>2, <1>3, <1>4, <1>5, <1>6, <1>7, <1>8
           DEF Next, IoStep, Threads

-----------------------------------------------------------------------------
(* What the clients are sent.                                              *)

\* The elements of a sequence that has grown or lost its first element.
LEMMA SeqFacts ==
  ASSUME NEW S, NEW s \in Seq(S)
  PROVE  /\ DOMAIN s = 1 .. Len(s) /\ Len(s) \in Nat
         /\ s # <<>> <=> Len(s) > 0
         /\ \A e \in S : /\ Append(s, e) \in Seq(S)
                        /\ Len(Append(s, e)) = Len(s) + 1
                        /\ Append(s, e)[Len(s) + 1] = e
                        /\ \A k \in 1 .. Len(s) : Append(s, e)[k] = s[k]
         /\ s # <<>> => /\ Tail(s) \in Seq(S)
                        /\ Len(Tail(s)) = Len(s) - 1
                        /\ \A k \in 1 .. Len(s) - 1 : Tail(s)[k] = s[k + 1]
OBVIOUS

\* The writer writes to the client that its line is for: the descriptor it
\* looked up cannot have come back for another client while it has the mutex.
LEMMA WriteFacts ==
  ASSUME IInv, NEW t \in Threads, InWrite(t)
  PROVE  /\ thread[t].to \in Ids /\ thread[t].kind \in LineKinds
         /\ thread[t].fd \in DOMAIN open_fds =>
              open_fds[thread[t].fd] = thread[t].to
         /\ thread[t].fd \notin DOMAIN open_fds => thread[t].to \in gone
         /\ \A u \in Threads \ {t} : thread[u].pc \notin {"head", "tail"}
<1>1. thread[t].pc \in {"head", "tail"} /\ lock = t
  BY DEF InWrite, Is, IInv, SendersOK
<1>2. thread[t].to \in Ids /\ thread[t].kind \in LineKinds
  BY <1>1, PlaceFields DEF IInv, TypeOK
<1>3. /\ thread[t].to \in DOMAIN id_to_fd_
      /\ id_to_fd_[thread[t].to] = thread[t].fd
  BY <1>1 DEF IInv, SendersOK
<1>4. \A u \in Threads \ {t} : thread[u].pc \notin {"head", "tail"}
  BY <1>1 DEF IInv, SendersOK
<1> QED BY <1>2, <1>3, <1>4, RouteFacts DEF IInv

\* What LinesWhole says of the first half of a line.
WholeAt(c, k) ==
  \/ /\ k + 1 \in DOMAIN outbox[c]
     /\ outbox[c][k + 1] = RestOf(outbox[c][k])
  \/ /\ k + 1 \notin DOMAIN outbox[c]
     /\ \E t \in Threads : WritesRest(t, outbox[c][k])

OutboxInv == OnlyOwnLines /\ LinesWhole /\ TailsOK

\* Steps that write nothing and neither start nor end the second half of a
\* line keep what the clients are sent in order.
LEMMA OutboxQuiet ==
  ASSUME OutboxInv, UNCHANGED outbox, gone \subseteq gone',
         \A t \in Threads :
           \/ thread'[t] = thread[t]
           \/ thread[t].pc # "tail" /\ thread'[t].pc # "tail"
  PROVE  OutboxInv'
<1>1. OnlyOwnLines'
  BY DEF OutboxInv, OnlyOwnLines
<1>2. TailsOK'
  BY DEF OutboxInv, TailsOK
<1>3. LinesWhole'
  <2>1. \A t \in Threads : \A p : WritesRest(t, p)' <=> WritesRest(t, p)
    BY DEF WritesRest
  <2> QED BY <2>1 DEF OutboxInv, LinesWhole
<1> QED BY <1>1, <1>2, <1>3 DEF OutboxInv

\* The first half of a line follows a whole one,
LEMMA WriteHead ==
  ASSUME IInv, NEW t \in Threads, WritePart(t), Is(t, "head")
  PROVE  OutboxInv'
<1> DEFINE c == thread[t].to
           s == outbox[c]
           part == [half |-> "head", to |-> c, kind |-> thread[t].kind]
<1>1. /\ c \in Ids /\ thread[t].kind \in LineKinds
      /\ open_fds[thread[t].fd] = c
      /\ \A u \in Threads \ {t} : thread[u].pc \notin {"head", "tail"}
  BY WriteFacts DEF WritePart, InWrite
<1>2. /\ c \notin gone /\ gone' = gone
      /\ outbox' = [outbox EXCEPT ![c] = Append(s, part)]
      /\ Goes(t, Writing(t, "tail", thread[t].fd))
  BY <1>1 DEF WritePart, Is
<1>3. outbox \in [Ids -> Seq(LinePart)] /\ s \in Seq(LinePart)
  BY <1>1 DEF IInv, TypeOK
<1>4. part \in LinePart
  BY <1>1 DEF LinePart
<1>5. /\ outbox'[c] = Append(s, part)
      /\ \A d \in Ids \ {c} : outbox'[d] = outbox[d]
  BY <1>1, <1>2, <1>3
<1>6. /\ Len(outbox'[c]) = Len(s) + 1 /\ outbox'[c][Len(s) + 1] = part
      /\ \A k \in 1 .. Len(s) : outbox'[c][k] = s[k]
      /\ DOMAIN s = 1 .. Len(s) /\ DOMAIN outbox'[c] = 1 .. Len(s) + 1
      /\ Len(s) \in Nat
  BY <1>3, <1>4, <1>5, SeqFacts
<1>7. /\ thread'[t] = [pc |-> "tail", fd |-> thread[t].fd, to |-> c,
                       kind |-> thread[t].kind]
      /\ \A u \in Threads \ {t} : thread'[u] = thread[u]
  BY <1>2, GoesTo DEF IInv, Writing
<1>8. \A u \in Threads : thread[u].pc # "tail"
  BY <1>1 DEF Is
<1>9. OnlyOwnLines'
  <2>1. \A d \in Ids : \A k \in DOMAIN outbox[d] : outbox[d][k].to = d
    BY DEF IInv, OnlyOwnLines
  <2>2. ASSUME NEW k \in 1 .. Len(s) + 1
        PROVE  outbox'[c][k].to = c
    <3>1. CASE k = Len(s) + 1
      BY <3>1, <1>6
    <3>2. CASE k \in 1 .. Len(s)
      BY <3>2, <2>1, <1>1, <1>6
    <3> QED BY <3>1, <3>2, <1>6
  <2>3. \A d \in Ids \ {c} : \A k \in DOMAIN outbox'[d] : outbox'[d][k].to = d
    BY <2>1, <1>5
  <2> QED BY <2>2, <2>3, <1>6 DEF OnlyOwnLines
<1>10. TailsOK'
  BY <1>1, <1>6, <1>7 DEF TailsOK
<1>11. LinesWhole'
  <2> SUFFICES ASSUME NEW d \in Ids \ gone, NEW k \in DOMAIN outbox'[d],
                      outbox'[d][k].half = "head"
               PROVE  WholeAt(d, k)'
    BY <1>2 DEF LinesWhole, WholeAt
  <2>n. \A u \in Threads : \A p : ~ WritesRest(u, p)
    BY <1>8 DEF WritesRest
  <2>1. CASE d # c
    <3>1. k + 1 \in DOMAIN outbox[d] /\ outbox[d][k + 1] = RestOf(outbox[d][k])
      BY <2>1, <2>n, <1>5 DEF IInv, LinesWhole
    <3> QED BY <3>1, <2>1, <1>5 DEF WholeAt
  <2>2. CASE d = c /\ k = Len(s) + 1
    <3>1. \A p : p = part => WritesRest(t, p)'
      BY <1>7 DEF WritesRest
    <3>2. outbox'[d][k] = part /\ k + 1 \notin DOMAIN outbox'[d]
      BY <2>2, <1>6
    <3> QED BY <3>1, <3>2 DEF WholeAt
  <2>3. CASE d = c /\ k \in 1 .. Len(s)
    <3>1. k \in DOMAIN s /\ s[k].half = "head" /\ outbox'[c][k] = s[k]
      BY <2>3, <1>6
    <3>2. k + 1 \in DOMAIN s /\ s[k + 1] = RestOf(s[k])
      BY <3>1, <2>n, <1>1, <1>2 DEF IInv, LinesWhole
    <3>3. k + 1 \in DOMAIN outbox'[c] /\ outbox'[c][k + 1] = s[k + 1]
      BY <3>2, <1>6
    <3> QED BY <3>1, <3>2, <3>3, <2>3 DEF WholeAt
  <2>4. \/ d # c
        \/ d = c /\ k = Len(s) + 1
        \/ d = c /\ k \in 1 .. Len(s)
    <3>1. Len(s) \in Nat /\ DOMAIN outbox'[c] = 1 .. Len(s) + 1
      BY <1>6
    <3>2. d = c => k \in 1 .. Len(s) + 1
      BY <3>1
    <3> QED BY <3>1, <3>2
  <2> QED BY <2>1, <2>2, <2>3, <2>4
<1> QED BY <1>9, <1>10, <1>11 DEF OutboxInv

\* and the second half its first, unless the client has already read that.
LEMMA WriteTail ==
  ASSUME IInv, NEW t \in Threads, WritePart(t), Is(t, "tail")
  PROVE  OutboxInv'
<1> DEFINE c == thread[t].to
           s == outbox[c]
           part == [half |-> "tail", to |-> c, kind |-> thread[t].kind]
<1>1. /\ c \in Ids /\ thread[t].kind \in LineKinds
      /\ open_fds[thread[t].fd] = c
      /\ \A u \in Threads \ {t} : thread[u].pc \notin {"head", "tail"}
  BY WriteFacts DEF WritePart, InWrite
<1>2. /\ c \notin gone /\ gone' = gone
      /\ outbox' = [outbox EXCEPT ![c] = Append(s, part)]
      /\ Goes(t, Home[t])
  BY <1>1 DEF WritePart, Is
<1>3. outbox \in [Ids -> Seq(LinePart)] /\ s \in Seq(LinePart)
  BY <1>1 DEF IInv, TypeOK
<1>4. part \in LinePart
  BY <1>1 DEF LinePart
<1>5. /\ outbox'[c] = Append(s, part)
      /\ \A d \in Ids \ {c} : outbox'[d] = outbox[d]
  BY <1>1, <1>2, <1>3
<1>6. /\ Len(outbox'[c]) = Len(s) + 1 /\ outbox'[c][Len(s) + 1] = part
      /\ \A k \in 1 .. Len(s) : outbox'[c][k] = s[k]
      /\ DOMAIN s = 1 .. Len(s) /\ DOMAIN outbox'[c] = 1 .. Len(s) + 1
      /\ Len(s) \in Nat
  BY <1>3, <1>4, <1>5, SeqFacts
<1>7. \A u \in Threads : thread'[u].pc # "tail"
  BY <1>1, <1>2, GoesTo, HomeTypes DEF IInv, At, Threads
<1>8. OnlyOwnLines'
  <2>1. \A d \in Ids : \A k \in DOMAIN outbox[d] : outbox[d][k].to = d
    BY DEF IInv, OnlyOwnLines
  <2>2. ASSUME NEW k \in 1 .. Len(s) + 1
        PROVE  outbox'[c][k].to = c
    <3>1. CASE k = Len(s) + 1
      BY <3>1, <1>6
    <3>2. CASE k \in 1 .. Len(s)
      BY <3>2, <2>1, <1>1, <1>6
    <3> QED BY <3>1, <3>2, <1>6
  <2>3. \A d \in Ids \ {c} : \A k \in DOMAIN outbox'[d] : outbox'[d][k].to = d
    BY <2>1, <1>5
  <2> QED BY <2>2, <2>3, <1>6 DEF OnlyOwnLines
<1>9. TailsOK'
  BY <1>7 DEF TailsOK
<1>10. LinesWhole'
  <2> SUFFICES ASSUME NEW d \in Ids \ gone, NEW k \in DOMAIN outbox'[d],
                      outbox'[d][k].half = "head"
               PROVE  WholeAt(d, k)'
    BY <1>2 DEF LinesWhole, WholeAt
  <2>n. \A u \in Threads : \A p : WritesRest(u, p) => p.to = c
    BY <1>1 DEF WritesRest
  <2>o. \A e \in Ids : \A i \in DOMAIN outbox[e] : outbox[e][i].to = e
    BY DEF IInv, OnlyOwnLines
  <2>1. CASE d # c
    <3>1. k \in DOMAIN outbox[d] /\ outbox[d][k].to # c
      BY <2>1, <2>o, <1>5
    <3>2. k + 1 \in DOMAIN outbox[d] /\ outbox[d][k + 1] = RestOf(outbox[d][k])
      BY <3>1, <2>1, <2>n, <1>5 DEF IInv, LinesWhole
    <3> QED BY <3>2, <2>1, <1>5 DEF WholeAt
  <2>2. CASE d = c /\ k = Len(s) + 1
    BY <2>2, <1>6
  <2>3. CASE d = c /\ k \in 1 .. Len(s) /\ k # Len(s)
    <3>0. k \in DOMAIN s /\ k + 1 \in DOMAIN s
      BY <2>3, <1>6
    <3>1. s[k].half = "head" /\ outbox'[c][k] = s[k]
      BY <2>3, <1>6
    <3>2. s[k + 1] = RestOf(s[k])
      BY <3>0, <3>1, <1>1, <1>2 DEF IInv, LinesWhole
    <3>3. k + 1 \in DOMAIN outbox'[c] /\ outbox'[c][k + 1] = s[k + 1]
      BY <3>0, <1>6
    <3> QED BY <3>1, <3>2, <3>3, <2>3 DEF WholeAt
  <2>4. CASE d = c /\ k \in 1 .. Len(s) /\ k = Len(s)
    <3>1. s[k] = outbox'[c][k] /\ s # <<>>
      BY <2>4, <1>3, <1>6, SeqFacts, SMTT(30)
    <3>2. s[k] = [half |-> "head", to |-> c, kind |-> thread[t].kind]
      BY <2>4, <3>1, <1>2 DEF Is, IInv, TailsOK
    <3>3. RestOf(s[k]) = part
      BY <3>2 DEF RestOf
    <3>4. k + 1 \in DOMAIN outbox'[c] /\ outbox'[c][k + 1] = part
      BY <2>4, <1>6
    <3> QED BY <2>4, <3>1, <3>3, <3>4 DEF WholeAt
  <2>5. \/ d # c
        \/ d = c /\ k = Len(s) + 1
        \/ d = c /\ k \in 1 .. Len(s) /\ k # Len(s)
        \/ d = c /\ k \in 1 .. Len(s) /\ k = Len(s)
    <3>1. Len(s) \in Nat /\ DOMAIN outbox'[c] = 1 .. Len(s) + 1
      BY <1>6
    <3>2. d = c => k \in 1 .. Len(s) + 1
      BY <3>1
    <3> QED BY <3>1, <3>2
  <2> QED BY <2>1, <2>2, <2>3, <2>4, <2>5
<1> QED BY <1>8, <1>9, <1>10 DEF OutboxInv

\* A line that the closed descriptor refuses was for a client that is gone.
LEMMA WriteGivenUp ==
  ASSUME IInv, NEW t \in Threads, WriteFails(t)
  PROVE  OutboxInv'
<1>1. thread[t].to \in gone
  BY WriteFacts DEF WriteFails
<1>2. /\ \A u \in Threads \ {t} : thread'[u] = thread[u]
      /\ thread'[t].pc # "tail"
  BY GoesTo, HomeTypes DEF IInv, WriteFails, At, Threads
<1>3. UNCHANGED <<outbox, gone>>
  BY DEF WriteFails
<1>4. OnlyOwnLines' /\ TailsOK'
  BY <1>2, <1>3 DEF IInv, OnlyOwnLines, TailsOK
<1>5. LinesWhole'
  <2>1. \A u \in Threads : \A p :
          WritesRest(u, p) => WritesRest(u, p)' \/ p.to \in gone
    BY <1>1, <1>2 DEF WritesRest
  <2>2. \A d \in Ids \ gone : \A k \in DOMAIN outbox[d] : outbox[d][k].to \notin gone
    BY DEF IInv, OnlyOwnLines
  <2> QED BY <1>3, <2>1, <2>2 DEF IInv, LinesWhole
<1> QED BY <1>4, <1>5 DEF OutboxInv

\* A client that reads takes the oldest part off,
LEMMA ClientReads ==
  ASSUME IInv, NEW c \in Ids, ClientRead(c)
  PROVE  OutboxInv'
<1> DEFINE s == outbox[c]
<1>1. /\ outbox' = [outbox EXCEPT ![c] = Tail(s)] /\ s # <<>>
      /\ UNCHANGED <<thread, gone>>
  BY DEF ClientRead
<1>2. s \in Seq(LinePart) /\ outbox \in [Ids -> Seq(LinePart)]
  BY DEF IInv, TypeOK
<1>3. outbox'[c] = Tail(s) /\ \A d \in Ids \ {c} : outbox'[d] = outbox[d]
  BY <1>1, <1>2
<1>4. /\ DOMAIN s = 1 .. Len(s) /\ DOMAIN outbox'[c] = 1 .. Len(s) - 1
      /\ \A k \in 1 .. Len(s) - 1 : outbox'[c][k] = s[k + 1]
      /\ Len(s) \in Nat \ {0} /\ Len(outbox'[c]) = Len(s) - 1
      /\ outbox'[c] # <<>> => Len(s) - 1 > 0
  BY <1>1, <1>2, <1>3, SeqFacts
<1>5. OnlyOwnLines'
  <2>1. \A d \in Ids : \A k \in DOMAIN outbox[d] : outbox[d][k].to = d
    BY DEF IInv, OnlyOwnLines
  <2>2. \A k \in 1 .. Len(s) - 1 : k + 1 \in DOMAIN s
    BY <1>4
  <2>3. \A k \in DOMAIN outbox'[c] : outbox'[c][k].to = c
    BY <2>1, <2>2, <1>4
  <2> QED BY <2>1, <2>3, <1>3 DEF OnlyOwnLines
<1>6. TailsOK'
  <2> SUFFICES ASSUME NEW t \in Threads, thread[t].pc = "tail",
                      thread[t].to \notin gone, outbox'[thread[t].to] # <<>>
               PROVE  outbox'[thread[t].to][Len(outbox'[thread[t].to])] =
                        [half |-> "head", to |-> thread[t].to,
                         kind |-> thread[t].kind]
    BY <1>1 DEF TailsOK
  <2>1. thread[t].to \in Ids
    BY PlaceFields DEF IInv, TypeOK
  <2>2. CASE thread[t].to # c
    BY <2>1, <2>2, <1>3 DEF IInv, TailsOK
  <2>3. CASE thread[t].to = c
    <3>1. s[Len(s)] = [half |-> "head", to |-> c, kind |-> thread[t].kind]
      BY <2>3, <1>1 DEF IInv, TailsOK
    <3>2. outbox'[c][Len(s) - 1] = s[Len(s)]
      BY <2>3, <1>4
    <3> QED BY <2>3, <3>1, <3>2, <1>4
  <2> QED BY <2>2, <2>3
<1>7. LinesWhole'
  <2>1. \A u \in Threads : \A p : WritesRest(u, p)' <=> WritesRest(u, p)
    BY <1>1 DEF WritesRest
  <2> SUFFICES ASSUME NEW d \in Ids \ gone, NEW k \in DOMAIN outbox'[d],
                      outbox'[d][k].half = "head"
               PROVE  WholeAt(d, k)'
    BY <1>1 DEF LinesWhole, WholeAt
  <2>2. CASE d # c
    <3>1. WholeAt(d, k)
      BY <2>2, <1>3 DEF IInv, LinesWhole, WholeAt
    <3> QED BY <3>1, <2>1, <2>2, <1>3 DEF WholeAt
  <2>3. CASE d = c
    <3>1. /\ k \in 1 .. Len(s) - 1 /\ k + 1 \in DOMAIN s
          /\ outbox'[c][k] = s[k + 1]
      BY <2>3, <1>4
    <3>2. WholeAt(c, k + 1)
      BY <3>1, <2>3 DEF IInv, LinesWhole, WholeAt
    <3>3. CASE k + 1 + 1 \in DOMAIN s
      <4>1. s[k + 1 + 1] = RestOf(s[k + 1])
        BY <3>2, <3>3 DEF WholeAt
      <4>2. k + 1 \in 1 .. Len(s) - 1
        BY <3>1, <3>3, <1>4
      <4>3. k + 1 \in DOMAIN outbox'[c] /\ outbox'[c][k + 1] = s[k + 1 + 1]
        BY <4>2, <1>4
      <4> QED BY <4>1, <4>3, <3>1, <2>3 DEF WholeAt
    <3>4. CASE k + 1 + 1 \notin DOMAIN s
      <4>1. \E u \in Threads : WritesRest(u, s[k + 1])
        BY <3>2, <3>4 DEF WholeAt
      <4>2. k + 1 \notin DOMAIN outbox'[c]
        BY <3>1, <3>4, <1>4
      <4> QED BY <4>1, <4>2, <3>1, <2>1, <2>3 DEF WholeAt
    <3> QED BY <3>3, <3>4
  <2> QED BY <2>2, <2>3
<1> QED BY <1>5, <1>6, <1>7 DEF OutboxInv

\* and one that closes loses them all.
LEMMA ClientCloses ==
  ASSUME IInv, NEW c \in Ids, ClientClose(c)
  PROVE  OutboxInv'
<1>1. /\ outbox' = [outbox EXCEPT ![c] = <<>>] /\ gone' = gone \cup {c}
      /\ UNCHANGED thread
  BY DEF ClientClose
<1>2. outbox'[c] = <<>> /\ \A d \in Ids \ {c} : outbox'[d] = outbox[d]
  BY <1>1 DEF IInv, TypeOK
<1>3. \A u \in Threads : \A p : WritesRest(u, p)' <=> WritesRest(u, p)
  BY <1>1 DEF WritesRest
<1>4. OnlyOwnLines'
  BY <1>2 DEF IInv, OnlyOwnLines
<1>5. LinesWhole'
  BY <1>1, <1>2, <1>3 DEF IInv, LinesWhole
<1>6. TailsOK'
  <2>1. \A t \in Threads : thread[t].pc = "tail" => thread[t].to \in Ids
    BY PlaceFields DEF IInv, TypeOK
  <2> QED BY <2>1, <1>1, <1>2 DEF IInv, TailsOK
<1> QED BY <1>4, <1>5, <1>6 DEF OutboxInv

\* Every step keeps what the clients are sent in order.
LEMMA OutboxNext ==
  ASSUME IInv, [Next]_vars
  PROVE  OutboxInv'
<1>a. TypeOK /\ OutboxInv
  BY DEF IInv, OutboxInv
<1>t. Threads = {"io", "sig"}
  BY DEF Threads
<1>h. \A t \in Threads : Home[t].pc # "tail"
  BY HomeTypes DEF At, Threads
<1>1. ASSUME NEW t \in Threads, Send(t)
      PROVE  OutboxInv'
  <2>1. CASE RouteFound(t)
    BY <2>1, <1>a, GoesTo, OutboxQuiet DEF RouteFound, Is, Writing
  <2>2. CASE RouteUnknown(t)
    BY <2>2, <1>a, <1>h, GoesTo, OutboxQuiet DEF RouteUnknown, Is
  <2>3. CASE WritePart(t)
    BY <2>3, WriteHead, WriteTail DEF WritePart, InWrite
  <2>4. CASE WriteFails(t)
    BY <2>4, WriteGivenUp
  <2>5. CASE WriteKills(t)
    BY <2>5, <1>a, OutboxQuiet DEF WriteKills
  <2> QED BY <1>1, <2>1, <2>2, <2>3, <2>4, <2>5 DEF Send
<1>2. CASE Accept \/ \E fd \in Fds : CloseClient(fd)
  <2>1. PICK pc, fd, id :
          pc \in {"insert", "erase"} /\ Goes("io", OnFd(pc, fd, id))
    BY <1>2 DEF Accept, CloseClient
  <2>2. thread["io"].pc = "poll" /\ UNCHANGED <<outbox, gone>>
    BY <1>2 DEF Accept, CloseClient, Is
  <2>3. thread'["io"].pc # "tail" /\ thread'["sig"] = thread["sig"]
    BY <1>a, <1>t, <2>1, GoesTo DEF OnFd
  <2> QED BY <1>a, <1>t, <2>2, <2>3, OutboxQuiet
<1>3. CASE Insert \/ EraseClient \/ WrapUp
  <2>1. PICK r : Goes("io", r) /\ r.pc # "tail"
    BY <1>3, <1>h, <1>t DEF Insert, EraseClient, WrapUp, Sending, At
  <2>2. thread["io"].pc # "tail" /\ UNCHANGED <<outbox, gone>>
    BY <1>3 DEF Insert, EraseClient, WrapUp, Is
  <2>3. thread'["io"] = r /\ thread'["sig"] = thread["sig"]
    BY <1>a, <1>t, <2>1, GoesTo
  <2> QED BY <1>a, <1>t, <2>1, <2>2, <2>3, OutboxQuiet
<1>4. CASE \/ SigStep /\ ~Send("sig")
           \/ \E fd \in Fds : ReadLine(fd)
           \/ MainStep \/ UNCHANGED vars
  <2>1. UNCHANGED <<outbox, gone>>
    BY <1>4 DEF SigStep, HandleCommand, EngineEvent, CheckClient, ReadClient,
                HandleQuit, Notify, ReadLine, MainStep, FallAsleep, Sleep,
                SpuriousWakeup, WaitReturns, JoinIo, StopEngine, MainGoes, vars
  <2>2. /\ thread'["io"] = thread["io"]
        /\ \/ thread'["sig"] = thread["sig"]
           \/ /\ thread["sig"].pc \notin {"head", "tail"}
              /\ thread'["sig"].pc \notin {"head", "tail"}
    BY <1>a, <1>4, OthersQuiet
  <2> QED BY <1>a, <1>t, <2>1, <2>2, OutboxQuiet
<1>5. ASSUME NEW c \in Ids, NEW cmd \in {"ask", "quit"}, ClientCommand(c, cmd)
      PROVE  OutboxInv'
  BY <1>a, <1>5, OutboxQuiet DEF ClientCommand
<1> QED BY <1>1, <1>2, <1>3, <1>4, <1>5, <1>t, ClientReads, ClientCloses
           DEF Next, IoStep, ClientStep

-----------------------------------------------------------------------------
(* The theorems.                                                           *)

\* The strengthened invariant holds at every reachable state.
THEOREM Inductive == Spec => []IInv
<1>1. IInv /\ [Next]_vars => IInv'
  BY TypeNext, TablesNext, SendersNext, ListenerNext, OutboxNext
     DEF IInv, OutboxInv
<1> QED BY InvInit, <1>1, PTL DEF Spec

\* Every variable of the server keeps its type.
THEOREM TypeCorrect == Spec => []TypeOK
<1>1. IInv => TypeOK
  BY DEF IInv
<1> QED BY Inductive, <1>1, PTL

\* The two tables of UnixSocketServer agree with each other and with the
\* kernel, for any number of clients, although IoLoop closes descriptors
\* outside send_mutex_ and they come back for other clients.
THEOREM TablesCorrect == Spec => []TablesAgree
<1>1. IInv => TablesAgree
  BY DEF IInv
<1> QED BY Inductive, <1>1, PTL

\* SendToClient never writes a line to another client than the one it names.
THEOREM OwnLinesOnly == Spec => []OnlyOwnLines
<1>1. IInv => OnlyOwnLines
  BY DEF IInv
<1> QED BY Inductive, <1>1, PTL

\* The lines that the io and the signalling thread write do not mix.
THEOREM LinesStayWhole == Spec => []LinesWhole
<1>1. IInv => LinesWhole
  BY DEF IInv
<1> QED BY Inductive, <1>1, PTL

\* The EngineController holds no removed client between two events of IoLoop.
THEOREM ListenerIsKnown == Spec => []ListenerKnown
<1>1. IInv => ListenerKnown
  BY DEF IInv, ListenerOK, ListenerKnown
<1> QED BY Inductive, <1>1, PTL

-----------------------------------------------------------------------------
(* Where a line begins.                                                    *)

\* Every set of naturals has a least element.
LEMMA Least ==
  ASSUME NEW T, T \subseteq Nat, T # {}
  PROVE  \E x \in T : \A y \in T : ~(y < x)
<1>1. IsWellFoundedOn(OpToRel(<,Nat), Nat)
  BY NatLessThanWellFounded
<1>2. \E x \in T : \A y \in T : ~(<<y, x>> \in OpToRel(<,Nat))
  BY <1>1, WFMin
<1> QED
  BY <1>2 DEF OpToRel

\* What Start chooses.
Starts(s, e, b) ==
  (b = 1 \/ s[b - 1] = NL) /\ \A i \in b .. e - 1 : s[i] # NL

\* Every line begins somewhere,
LEMMA StartFacts ==
  ASSUME NEW s, NEW e \in Nat \ {0}
  PROVE  Start(s, e) \in 1 .. e /\ Starts(s, e, Start(s, e))
<1> DEFINE T == {b \in 1 .. e : \A i \in b .. e - 1 : s[i] # NL}
<1>1. T \subseteq Nat /\ e \in T
  OBVIOUS
<1>2. PICK b \in T : \A y \in T : ~(y < b)
  BY <1>1, Least
<1>3. b = 1 \/ s[b - 1] = NL
  <2> SUFFICES ASSUME b # 1, s[b - 1] # NL PROVE FALSE
    OBVIOUS
  <2>1. b - 1 \in 1 .. e /\ b - 1 < b
    OBVIOUS
  <2>2. \A i \in b - 1 .. e - 1 : i = b - 1 \/ i \in b .. e - 1
    OBVIOUS
  <2>3. b - 1 \in T
    BY <2>1, <2>2
  <2> QED
    BY <1>2, <2>1, <2>3
<1>4. b \in 1 .. e /\ Starts(s, e, b)
  BY <1>3 DEF Starts
<1> QED
  BY <1>4 DEF Start, Starts

\* It can choose nothing else.
LEMMA StartIs ==
  ASSUME NEW s, NEW e \in Nat \ {0}, NEW b \in 1 .. e, Starts(s, e, b)
  PROVE  Start(s, e) = b
<1> DEFINE a == Start(s, e)
<1>1. a \in 1 .. e /\ Starts(s, e, a)
  BY StartFacts
<1> HIDE DEF a
<1>2. CASE a < b
  <2>1. b - 1 \in a .. e - 1 /\ b # 1
    BY <1>1, <1>2
  <2> QED
    BY <1>1, <2>1 DEF Starts
<1>3. CASE b < a
  <2>1. a - 1 \in b .. e - 1 /\ a # 1
    BY <1>1, <1>3
  <2> QED
    BY <1>1, <2>1 DEF Starts
<1> QED
  BY <1>1, <1>2, <1>3 DEF a

\* What follows changes no line that has its end already.
LEMMA LineBefore ==
  ASSUME NEW s \in Seq(Bytes), NEW u \in Seq(Bytes), NEW e \in 1 .. Len(s) + 1
  PROVE  Line(s \o u, e) = Line(s, e)
<1> DEFINE t == s \o u
           b == Start(s, e)
<1>1. /\ t \in Seq(Bytes) /\ Len(t) = Len(s) + Len(u)
      /\ \A i \in 1 .. Len(s) : t[i] = s[i]
  OBVIOUS
<1>2. b \in 1 .. e /\ Starts(s, e, b)
  BY StartFacts
<1> HIDE DEF t, b
<1>3. Starts(t, e, b)
  <2>1. b # 1 => b - 1 \in 1 .. Len(s)
    BY <1>2
  <2>2. b .. e - 1 \subseteq 1 .. Len(s)
    BY <1>2
  <2> QED
    BY <1>1, <1>2, <2>1, <2>2 DEF Starts
<1>4. Start(t, e) = b
  BY <1>2, <1>3, StartIs
<1>5. SubSeq(t, b, e - 1) = SubSeq(s, b, e - 1)
  <2>1. /\ b \in Nat \ {0} /\ e - 1 \in Nat /\ Len(s) \in Nat /\ Len(t) \in Nat
        /\ e - 1 <= Len(s) /\ e - 1 <= Len(t)
    BY <1>1, <1>2
  <2> DEFINE v == SubSeq(t, b, e - 1)
             w == SubSeq(s, b, e - 1)
             n == IF b <= e - 1 THEN e - b ELSE 0
  <2>2. v \in Seq(Bytes) /\ Len(v) = n /\ \A k \in 1 .. n : v[k] = t[b + k - 1]
    BY <1>1, <2>1
  <2>3. w \in Seq(Bytes) /\ Len(w) = n /\ \A k \in 1 .. n : w[k] = s[b + k - 1]
    BY <2>1
  <2> HIDE DEF v, w
  <2>4. ASSUME NEW k \in 1 .. n PROVE v[k] = w[k]
    <3>1. b + k - 1 \in 1 .. Len(s)
      BY <2>1
    <3> QED
      BY <1>1, <2>2, <2>3, <3>1
  <2>5. v = w
    BY <2>2, <2>3, <2>4, SeqEqual
  <2> QED
    BY <2>5 DEF v, w
<1> QED
  BY <1>4, <1>5 DEF Line, b, t

\* The lines of a stream from one of its newlines on.
LEMMA LineAfter ==
  ASSUME NEW s \in Seq(Bytes), NEW o \in 0 .. Len(s), o = 0 \/ s[o] = NL,
         NEW t, t = SubSeq(s, o + 1, Len(s)), NEW e \in 1 .. Len(t) + 1
  PROVE  Line(t, e) = Line(s, e + o)
<1> DEFINE b == Start(t, e)
<1>1. /\ t \in Seq(Bytes) /\ Len(t) = Len(s) - o /\ Len(s) \in Nat
      /\ \A i \in 1 .. Len(t) : t[i] = s[i + o]
  OBVIOUS
<1>2. b \in 1 .. e /\ Starts(t, e, b)
  BY <1>1, StartFacts
<1> HIDE DEF b
<1>3. Starts(s, e + o, b + o)
  <2>1. b + o = 1 \/ s[(b + o) - 1] = NL
    <3>1. CASE b = 1
      BY <3>1
    <3>2. CASE b # 1
      <4>1. b - 1 \in 1 .. Len(t) /\ t[b - 1] = NL
        BY <1>1, <1>2, <3>2 DEF Starts
      <4> QED
        BY <1>1, <1>2, <4>1, SMTT(30)
    <3> QED
      BY <3>1, <3>2
  <2>2. ASSUME NEW i \in b + o .. (e + o) - 1 PROVE s[i] # NL
    <3>1. i - o \in b .. e - 1 /\ i - o \in 1 .. Len(t) /\ i - o + o = i
      BY <1>1, <1>2
    <3>2. t[i - o] = s[i - o + o]
      BY <1>1, <3>1
    <3> QED
      BY <1>2, <3>1, <3>2 DEF Starts
  <2>3. Starts(s, e + o, b + o) <=>
          /\ b + o = 1 \/ s[(b + o) - 1] = NL
          /\ \A i \in b + o .. (e + o) - 1 : s[i] # NL
    BY DEF Starts
  <2> QED
    BY <2>1, <2>2, <2>3
<1>4. Start(s, e + o) = b + o
  BY <1>1, <1>2, <1>3, StartIs
<1>5. SubSeq(t, b, e - 1) = SubSeq(s, b + o, (e + o) - 1)
  BY <1>1, <1>2
<1>6. Line(t, e) = SubSeq(t, b, e - 1)
  BY DEF Line, b
<1>7. Line(s, e + o) = SubSeq(s, b + o, (e + o) - 1)
  BY <1>4 DEF Line
<1> QED
  BY <1>5, <1>6, <1>7

\* The ends of the lines of two streams one after the other.
LEMMA EndsBefore ==
  ASSUME NEW s \in Seq(Bytes), NEW u \in Seq(Bytes)
  PROVE  Ends(s \o u) = Ends(s) \cup {e + Len(s) : e \in Ends(u)}
<1> DEFINE t == s \o u
<1>1. /\ t \in Seq(Bytes) /\ Len(t) = Len(s) + Len(u) /\ Len(s) \in Nat /\ Len(u) \in Nat
      /\ \A i \in 1 .. Len(s) : t[i] = s[i]
      /\ \A i \in 1 .. Len(u) : t[i + Len(s)] = u[i]
  OBVIOUS
<1>2. /\ Ends(s) = {i \in 1 .. Len(s) : s[i] = NL}
      /\ Ends(u) = {i \in 1 .. Len(u) : u[i] = NL}
      /\ Ends(t) = {i \in 1 .. Len(t) : t[i] = NL}
  BY <1>1 DEF Ends
<1> HIDE DEF t
<1>3. ASSUME NEW i \in Ends(t), i > Len(s)
      PROVE  i - Len(s) \in Ends(u) /\ i = i - Len(s) + Len(s)
  BY <1>1, <1>2, <1>3
<1>4. Ends(t) \subseteq Ends(s) \cup {e + Len(s) : e \in Ends(u)}
  BY <1>1, <1>2, <1>3
<1>5. Ends(s) \cup {e + Len(s) : e \in Ends(u)} \subseteq Ends(t)
  BY <1>1, <1>2
<1> QED
  BY <1>4, <1>5 DEF t

-----------------------------------------------------------------------------
(* Sets of positions in order.                                             *)

UpTo(S, x) == {y \in S : y <= x}

Rank(S, x) == Cardinality(UpTo(S, x))

\* Ranks count from 1 and grow with the positions.
LEMMA RankFacts ==
  ASSUME NEW n \in Nat, NEW S \in SUBSET (1 .. n)
  PROVE  /\ IsFiniteSet(S) /\ Cardinality(S) \in Nat
         /\ \A x \in S : Rank(S, x) \in 1 .. Cardinality(S)
         /\ \A x, y \in S : x < y => Rank(S, x) < Rank(S, y)
<1>1. IsFiniteSet(S) /\ Cardinality(S) \in Nat
  <2>1. IsFiniteSet(1 .. n)
    BY FS_Interval
  <2> QED
    BY <2>1, FS_Subset, FS_CardinalityType
<1>2. ASSUME NEW T \in SUBSET S
      PROVE  /\ IsFiniteSet(T) /\ Cardinality(T) \in Nat
             /\ Cardinality(T) <= Cardinality(S)
  BY <1>1, FS_Subset, FS_CardinalityType
<1>3. ASSUME NEW x \in S PROVE Rank(S, x) \in 1 .. Cardinality(S)
  <2>1. UpTo(S, x) \in SUBSET S /\ x \in UpTo(S, x)
    BY DEF UpTo
  <2>2. Cardinality(UpTo(S, x)) # 0
    BY <1>2, <2>1, FS_EmptySet
  <2> QED
    BY <1>1, <1>2, <2>1, <2>2 DEF Rank
<1>4. ASSUME NEW x \in S, NEW y \in S, x < y PROVE Rank(S, x) < Rank(S, y)
  <2>1. /\ UpTo(S, x) \in SUBSET UpTo(S, y) /\ UpTo(S, y) \in SUBSET S
        /\ y \in UpTo(S, y) /\ y \notin UpTo(S, x)
    <3>1. x \in Nat /\ y \in Nat /\ \A z \in S : z \in Nat
      OBVIOUS
    <3>2. \A z \in S : z <= x => z <= y
      BY <1>4, <3>1
    <3>3. y <= y /\ ~(y <= x)
      BY <1>4, <3>1
    <3> QED
      BY <3>2, <3>3 DEF UpTo
  <2>2. IsFiniteSet(UpTo(S, y)) /\ UpTo(S, x) \in SUBSET S
    BY <1>2, <2>1
  <2>3. /\ Cardinality(UpTo(S, x)) <= Cardinality(UpTo(S, y))
        /\ Cardinality(UpTo(S, y)) # Cardinality(UpTo(S, x))
    BY <2>1, <2>2, FS_Subset
  <2> QED
    BY <1>2, <2>1, <2>2, <2>3 DEF Rank
<1> QED
  BY <1>1, <1>3, <1>4

\* InOrder has every number of the set at its rank, and nothing else.
LEMMA InOrderFacts ==
  ASSUME NEW n \in Nat, NEW S \in SUBSET (1 .. n)
  PROVE  /\ \A x \in S : InOrder(S)[Rank(S, x)] = x
         /\ \A k \in 1 .. Cardinality(S) : \E x \in S : Rank(S, x) = k
<1>1. \A x, y \in S : Rank(S, x) = Rank(S, y) => x = y
  <2>1. \A x \in S : x \in Nat /\ Rank(S, x) \in Nat
    BY RankFacts
  <2>2. \A x, y \in S : x < y => Rank(S, x) < Rank(S, y)
    BY RankFacts
  <2>3. \A x, y \in S : x # y => x < y \/ y < x
    BY <2>1
  <2> QED
    BY <2>1, <2>2, <2>3
<1>2. ASSUME NEW x \in S PROVE InOrder(S)[Rank(S, x)] = x
  <2>1. Rank(S, x) \in 1 .. Cardinality(S)
    BY RankFacts
  <2>2. InOrder(S)[Rank(S, x)] = CHOOSE y \in S : Rank(S, y) = Rank(S, x)
    BY <2>1 DEF InOrder, Rank, UpTo
  <2> QED
    BY <1>1, <2>2
<1>3. ASSUME NEW k \in 1 .. Cardinality(S) PROVE \E x \in S : Rank(S, x) = k
  <2> DEFINE f == [x \in S |-> Rank(S, x)]
             T == 1 .. Cardinality(S)
  <2>1. f \in [S -> T] /\ \A x, y \in S : f[x] = f[y] => x = y
    BY <1>1, RankFacts
  <2>2. f \in Injection(S, T)
    BY <2>1 DEF Injection, IsInjective
  <2>3. IsFiniteSet(T) /\ Cardinality(T) = Cardinality(S)
    <3>1. Cardinality(S) \in Nat
      BY RankFacts
    <3> QED
      BY <3>1, FS_Interval
  <2>4. f \in Surjection(S, T)
    BY <2>2, <2>3, FS_Injection
  <2>5. \E x \in S : f[x] = k
    BY <2>4 DEF Surjection
  <2> QED
    BY <2>5
<1> QED
  BY <1>2, <1>3

\* The ranks in two sets, all of one before all of the other.
LEMMA RankJoin ==
  ASSUME NEW n \in Nat, NEW A \in SUBSET (1 .. n), NEW B \in SUBSET (1 .. n),
         \A a \in A, b \in B : a < b
  PROVE  /\ Cardinality(A \cup B) = Cardinality(A) + Cardinality(B)
         /\ \A a \in A : Rank(A \cup B, a) = Rank(A, a)
         /\ \A b \in B : Rank(A \cup B, b) = Cardinality(A) + Rank(B, b)
<1>1. IsFiniteSet(A) /\ IsFiniteSet(B) /\ Cardinality(A) \in Nat /\ Cardinality(B) \in Nat
  BY RankFacts
<1>2. (\A a \in A : a \in Nat) /\ (\A b \in B : b \in Nat)
  OBVIOUS
<1>3. ASSUME NEW C \in SUBSET B
      PROVE  Cardinality(A \cup C) = Cardinality(A) + Cardinality(C)
  <2>1. A \cap C = {}
    BY <1>1
  <2>2. IsFiniteSet(C) /\ Cardinality(C) \in Nat
    BY <1>1, FS_Subset, FS_CardinalityType
  <2>3. Cardinality(A \cap C) = 0
    BY <2>1, FS_EmptySet
  <2>4. Cardinality(A \cup C) = Cardinality(A) + Cardinality(C) - Cardinality(A \cap C)
    BY <1>1, <2>2, FS_Union
  <2> QED
    BY <1>1, <2>2, <2>3, <2>4
<1>4. ASSUME NEW a \in A PROVE Rank(A \cup B, a) = Rank(A, a)
  <2>1. \A b \in B : ~(b <= a)
    BY <1>2
  <2>2. UpTo(A \cup B, a) = UpTo(A, a)
    BY <2>1 DEF UpTo
  <2> QED
    BY <2>2 DEF Rank
<1>5. ASSUME NEW b \in B PROVE Rank(A \cup B, b) = Cardinality(A) + Rank(B, b)
  <2>1. \A a \in A : a <= b
    BY <1>2
  <2>2. UpTo(A \cup B, b) = A \cup UpTo(B, b) /\ UpTo(B, b) \in SUBSET B
    BY <2>1 DEF UpTo
  <2> QED
    BY <1>3, <2>2 DEF Rank
<1> QED
  BY <1>3, <1>4, <1>5

\* D is B with all numbers moved by o.
Moved(B, o, D) ==
  (\A b \in B : b + o \in D) /\ (\A d \in D : \E b \in B : d = b + o)

\* Moving all the numbers by o changes no rank.
LEMMA RankShift ==
  ASSUME NEW n \in Nat, NEW B \in SUBSET (1 .. n), NEW o \in Nat,
         NEW D, Moved(B, o, D)
  PROVE  /\ Cardinality(D) = Cardinality(B)
         /\ \A b \in B : Rank(D, b + o) = Rank(B, b)
<1>1. IsFiniteSet(B)
  BY RankFacts
<1>2. ASSUME NEW C \in SUBSET B, NEW E, Moved(C, o, E)
      PROVE  Cardinality(E) = Cardinality(C)
  <2> DEFINE f == [c \in C |-> c + o]
  <2>1. f \in [C -> E] /\ (\A c, d \in C : f[c] = f[d] => c = d)
    BY <1>2 DEF Moved
  <2>2. \A e \in E : \E c \in C : f[c] = e
    BY <1>2 DEF Moved
  <2>3. f \in Bijection(C, E)
    BY <2>1, <2>2 DEF Bijection, Injection, Surjection, IsInjective
  <2>4. ExistsBijection(C, E) /\ IsFiniteSet(C)
    BY <1>1, <2>3, FS_Subset DEF ExistsBijection
  <2> QED
    BY <2>4, FS_Bijection
<1>3. ASSUME NEW b \in B PROVE Rank(D, b + o) = Rank(B, b)
  <2>1. UpTo(B, b) \in SUBSET B /\ \A c \in B : c <= b <=> c + o <= b + o
    BY DEF UpTo
  <2>2. Moved(UpTo(B, b), o, UpTo(D, b + o))
    BY <2>1 DEF UpTo, Moved
  <2> QED
    BY <1>2, <2>1, <2>2 DEF Rank
<1> QED
  BY <1>2, <1>3

\* A sequence that is the one and then the other.
LEMMA JoinIs ==
  ASSUME NEW S, NEW x \in Seq(S), NEW y \in Seq(S), NEW z \in Seq(S),
         Len(z) = Len(x) + Len(y),
         \A k \in 1 .. Len(x) : z[k] = x[k],
         \A k \in 1 .. Len(y) : z[Len(x) + k] = y[k]
  PROVE  z = x \o y
<1> DEFINE w == x \o y
<1>1. /\ w \in Seq(S) /\ Len(w) = Len(x) + Len(y)
      /\ \A k \in 1 .. Len(x) + Len(y) :
           w[k] = IF k <= Len(x) THEN x[k] ELSE y[k - Len(x)]
  BY ConcatProperties
<1>2. Len(x) \in Nat /\ Len(y) \in Nat
  OBVIOUS
<1> HIDE DEF w
<1>3. ASSUME NEW k \in 1 .. Len(x) + Len(y) PROVE z[k] = w[k]
  <2>1. CASE k <= Len(x)
    BY <1>1, <1>2, <2>1
  <2>2. CASE k > Len(x)
    <3>1. k - Len(x) \in 1 .. Len(y) /\ k = Len(x) + (k - Len(x))
      BY <1>2, <2>2
    <3>2. z[Len(x) + (k - Len(x))] = y[k - Len(x)]
      BY <3>1
    <3> QED
      BY <1>1, <1>2, <2>2, <3>1, <3>2
  <2> QED
    BY <1>2, <2>1, <2>2
<1>4. z = w
  BY <1>1, <1>3, SeqEqual
<1> QED
  BY <1>4 DEF w

\* What two sequences are together.
LEMMA Joined ==
  ASSUME NEW S, NEW x \in Seq(S), NEW y \in Seq(S), NEW z, z = x \o y
  PROVE  /\ z \in Seq(S) /\ Len(z) = Len(x) + Len(y)
         /\ Len(x) \in Nat /\ Len(y) \in Nat
         /\ \A k \in 1 .. Len(x) : z[k] = x[k]
         /\ \A k \in 1 .. Len(y) : z[Len(x) + k] = y[k]
<1>1. /\ x \o y \in Seq(S) /\ Len(x \o y) = Len(x) + Len(y)
      /\ \A k \in 1 .. Len(x) + Len(y) :
           (x \o y)[k] = IF k <= Len(x) THEN x[k] ELSE y[k - Len(x)]
  BY ConcatProperties
<1>2. Len(x) \in Nat /\ Len(y) \in Nat
  OBVIOUS
<1>3. /\ z \in Seq(S) /\ Len(z) = Len(x) + Len(y)
      /\ \A k \in 1 .. Len(x) + Len(y) :
           z[k] = IF k <= Len(x) THEN x[k] ELSE y[k - Len(x)]
  BY <1>1
<1>4. ASSUME NEW k \in 1 .. Len(y) PROVE z[Len(x) + k] = y[k]
  <2>1. /\ Len(x) + k \in 1 .. Len(x) + Len(y) /\ ~(Len(x) + k <= Len(x))
        /\ (Len(x) + k) - Len(x) = k
    BY <1>2
  <2> QED
    BY <1>3, <2>1
<1>5. ASSUME NEW k \in 1 .. Len(x) PROVE z[k] = x[k]
  BY <1>2, <1>3
<1> QED
  BY <1>2, <1>3, <1>4, <1>5

\* What is left of two sequences together after a cut in the first of them.
LEMMA JoinedCut ==
  ASSUME NEW S, NEW x \in Seq(S), NEW y \in Seq(S), NEW z, z = x \o y,
         NEW i \in 0 .. Len(x)
  PROVE  SubSeq(z, i + 1, Len(z)) = SubSeq(x, i + 1, Len(x)) \o y
<1>1. /\ z \in Seq(S) /\ Len(z) = Len(x) + Len(y)
      /\ Len(x) \in Nat /\ Len(y) \in Nat
      /\ \A k \in 1 .. Len(x) : z[k] = x[k]
      /\ \A k \in 1 .. Len(y) : z[Len(x) + k] = y[k]
  BY Joined
<1>2. \A t \in Seq(S) : i \in 0 .. Len(t) =>
        /\ SubSeq(t, i + 1, Len(t)) \in Seq(S)
        /\ Len(SubSeq(t, i + 1, Len(t))) = Len(t) - i
        /\ \A k \in 1 .. Len(t) - i : SubSeq(t, i + 1, Len(t))[k] = t[i + k]
  OBVIOUS
<1>3. i \in 0 .. Len(z)
  BY <1>1
<1> DEFINE a == SubSeq(x, i + 1, Len(x))
           b == SubSeq(z, i + 1, Len(z))
<1>4. /\ a \in Seq(S) /\ Len(a) = Len(x) - i
      /\ \A k \in 1 .. Len(x) - i : a[k] = x[i + k]
      /\ b \in Seq(S) /\ Len(b) = Len(z) - i
      /\ \A k \in 1 .. Len(z) - i : b[k] = z[i + k]
  BY <1>1, <1>2, <1>3
<1> HIDE DEF a, b
<1>5. Len(b) = Len(a) + Len(y)
  BY <1>1, <1>4
<1>6. ASSUME NEW k \in 1 .. Len(a) PROVE b[k] = a[k]
  <2>1. k \in 1 .. Len(z) - i /\ k \in 1 .. Len(x) - i /\ i + k \in 1 .. Len(x)
    BY <1>1, <1>4
  <2> QED
    BY <1>1, <1>4, <2>1
<1>7. ASSUME NEW k \in 1 .. Len(y) PROVE b[Len(a) + k] = y[k]
  <2>1. Len(a) + k \in 1 .. Len(z) - i /\ i + (Len(a) + k) = Len(x) + k
    BY <1>1, <1>4
  <2> QED
    BY <1>1, <1>4, <2>1
<1>8. b = a \o y
  BY <1>4, <1>5, <1>6, <1>7, JoinIs
<1> QED
  BY <1>8 DEF a, b

\* Positions A of s, at most o, and B of t that are D in u, with their lines.
Joins(n, s, t, u, o, A, B, D, C) ==
  /\ n \in Nat /\ o \in Nat /\ A \in SUBSET (1 .. n) /\ B \in SUBSET (1 .. n)
  /\ \A a \in A : a <= o /\ Line(u, a) = Line(s, a)
  /\ \A b \in B : Line(u, b + o) = Line(t, b)
  /\ Moved(B, o, D) /\ C = A \cup D

\* The lines at positions of one stream, and then those at positions of
\* another one that is its continuation from o on.
LEMMA LinesJoin ==
  ASSUME NEW n, NEW s, NEW t, NEW u, NEW o, NEW A, NEW B, NEW D, NEW C,
         Joins(n, s, t, u, o, A, B, D, C)
  PROVE  LinesAt(u, C) = LinesAt(s, A) \o LinesAt(t, B)
<1>1. /\ n \in Nat /\ o \in Nat /\ A \in SUBSET (1 .. n) /\ B \in SUBSET (1 .. n)
      /\ \A a \in A : a <= o /\ Line(u, a) = Line(s, a)
      /\ \A b \in B : Line(u, b + o) = Line(t, b)
      /\ Moved(B, o, D) /\ C = A \cup D
  BY DEF Joins
<1> USE <1>1
<1> DEFINE m == n + o
           p == Cardinality(A)
           q == Cardinality(B)
<1>2. /\ m \in Nat /\ A \in SUBSET (1 .. m) /\ D \in SUBSET (1 .. m)
      /\ C \in SUBSET (1 .. m) /\ \A a \in A, d \in D : a < d
      /\ \A b \in B : b + o \in D /\ b + o \in C
  <2>1. \A b \in B : b + o \in 1 .. m /\ b + o > o
    OBVIOUS
  <2>2. \A a \in A : a \in 1 .. m /\ a <= o
    OBVIOUS
  <2>3. \A d \in D : d \in 1 .. m /\ d > o
    BY <2>1 DEF Moved
  <2>4. D \in SUBSET (1 .. m) /\ A \in SUBSET (1 .. m) /\ m \in Nat
    BY <2>2, <2>3
  <2>5. \A a \in A, d \in D : a < d
    BY <2>2, <2>3, <2>4
  <2>6. C \in SUBSET (1 .. m) /\ \A b \in B : b + o \in D /\ b + o \in C
    BY <2>4 DEF Moved
  <2> QED
    BY <2>4, <2>5, <2>6
<1>3. p \in Nat /\ q \in Nat
  BY RankFacts
<1>4. /\ Cardinality(D) = q
      /\ \A b \in B : Rank(D, b + o) = Rank(B, b)
  <2>1. /\ Cardinality(D) = Cardinality(B)
        /\ \A b \in B : Rank(D, b + o) = Rank(B, b)
    BY RankShift, ZenonT(60)
  <2> QED
    BY <2>1
<1> HIDE DEF m, p, q
<1>5. /\ Cardinality(C) = p + q
      /\ \A a \in A : Rank(C, a) = Rank(A, a)
      /\ \A b \in B : Rank(C, b + o) = p + Rank(B, b)
  <2>1. /\ Cardinality(A \cup D) = Cardinality(A) + Cardinality(D)
        /\ \A a \in A : Rank(A \cup D, a) = Rank(A, a)
        /\ \A d \in D : Rank(A \cup D, d) = Cardinality(A) + Rank(D, d)
    BY <1>2, RankJoin
  <2> QED
    BY <1>2, <1>4, <2>1 DEF p
<1>6. ASSUME NEW k \in 1 .. p
      PROVE  LinesAt(u, C)[k] = LinesAt(s, A)[k]
  <2>1. PICK a \in A : Rank(A, a) = k
    BY InOrderFacts DEF p
  <2>2. InOrder(A)[k] = a /\ InOrder(C)[k] = a
    <3>1. InOrder(A)[Rank(A, a)] = a
      BY InOrderFacts
    <3>2. InOrder(C)[Rank(C, a)] = a
      BY <1>2, InOrderFacts
    <3> QED
      BY <1>5, <2>1, <3>1, <3>2
  <2>3. k \in 1 .. Cardinality(C) /\ k \in 1 .. Cardinality(A)
    BY <1>3, <1>5 DEF p
  <2>4. /\ LinesAt(u, C)[k] = WithoutCR(Line(u, InOrder(C)[k]))
        /\ LinesAt(s, A)[k] = WithoutCR(Line(s, InOrder(A)[k]))
    BY <2>3 DEF LinesAt
  <2> QED
    BY <2>2, <2>4
<1>7. ASSUME NEW k \in 1 .. q
      PROVE  LinesAt(u, C)[p + k] = LinesAt(t, B)[k]
  <2>1. PICK b \in B : Rank(B, b) = k
    BY InOrderFacts DEF q
  <2>2. InOrder(B)[k] = b /\ InOrder(C)[p + k] = b + o
    <3>1. InOrder(B)[Rank(B, b)] = b
      BY InOrderFacts
    <3>2. InOrder(C)[Rank(C, b + o)] = b + o
      BY <1>2, InOrderFacts
    <3> QED
      BY <1>5, <2>1, <3>1, <3>2
  <2>3. p + k \in 1 .. Cardinality(C) /\ k \in 1 .. Cardinality(B)
    BY <1>3, <1>5 DEF q
  <2>4. /\ LinesAt(u, C)[p + k] = WithoutCR(Line(u, InOrder(C)[p + k]))
        /\ LinesAt(t, B)[k] = WithoutCR(Line(t, InOrder(B)[k]))
    BY <2>3 DEF LinesAt
  <2> QED
    BY <2>2, <2>4
<1> DEFINE x == LinesAt(s, A)
           y == LinesAt(t, B)
           z == LinesAt(u, C)
           S == {x[k] : k \in 1 .. p} \cup {y[k] : k \in 1 .. q}
<1>8. /\ x = [k \in 1 .. p |-> x[k]]
      /\ y = [k \in 1 .. q |-> y[k]]
      /\ z = [k \in 1 .. p + q |-> z[k]]
  BY <1>5 DEF LinesAt, p, q
<1> HIDE DEF x, y, z
<1>9. ASSUME NEW k \in 1 .. p + q PROVE z[k] \in S
  <2>1. CASE k <= p
    <3>1. k \in 1 .. p
      BY <1>3, <2>1
    <3> QED
      BY <1>6, <3>1 DEF x, z
  <2>2. CASE k > p
    <3>1. k - p \in 1 .. q /\ k = p + (k - p)
      BY <1>3, <2>2
    <3>2. z[p + (k - p)] = y[k - p]
      BY <1>7, <3>1 DEF y, z
    <3> QED
      BY <3>1, <3>2
  <2> QED
    BY <1>3, <2>1, <2>2
<1>10. (\A k \in 1 .. p : x[k] \in S) /\ (\A k \in 1 .. q : y[k] \in S)
  OBVIOUS
<1> HIDE DEF S
<1>11. /\ x \in [1 .. p -> S] /\ y \in [1 .. q -> S]
       /\ z \in [1 .. p + q -> S]
  BY <1>8, <1>9, <1>10
<1>12. /\ x \in Seq(S) /\ Len(x) = p /\ y \in Seq(S) /\ Len(y) = q
       /\ z \in Seq(S) /\ Len(z) = p + q
  <2>1. \A r \in Nat : \A f \in [1 .. r -> S] : f \in Seq(S) /\ Len(f) = r
    OBVIOUS
  <2>2. p + q \in Nat
    BY <1>3
  <2> QED
    BY <1>3, <1>11, <2>1, <2>2
<1>13. /\ \A k \in 1 .. p : z[k] = x[k]
       /\ \A k \in 1 .. q : z[p + k] = y[k]
  BY <1>6, <1>7 DEF x, y, z
<1>14. z = x \o y
  BY <1>3, <1>12, <1>13, JoinIs
<1> QED
  BY <1>14 DEF x, y, z

-----------------------------------------------------------------------------
(* The buffer and the stream.                                              *)

\* In normal mode the buffer holds the unfinished line of the stream; else
\* the unfinished line is too long.
BufferInv ==
  IF discarding THEN line_buf = <<>> /\ Len(Unfinished(stream)) >= kMaxLineBytes
                ELSE line_buf = Unfinished(stream)

FramingInv ==
  stream \in Seq(Bytes) /\ discarding \in BOOLEAN /\ BufferInv /\ DeliveredAreLines

\* Before(s) is the position of the last newline, 0 if there is none: the
\* unfinished line is what follows it,
Before(s) == Start(s, Len(s) + 1) - 1

\* and no newline comes after it.
LEMMA UnfinishedFacts ==
  ASSUME NEW s \in Seq(Bytes)
  PROVE  /\ Before(s) \in 0 .. Len(s) /\ (Before(s) = 0 \/ s[Before(s)] = NL)
         /\ Unfinished(s) = SubSeq(s, Before(s) + 1, Len(s))
         /\ Len(Unfinished(s)) = Len(s) - Before(s)
         /\ \A i \in Before(s) + 1 .. Len(s) : s[i] # NL
         /\ \A e \in Ends(s) : e <= Before(s)
<1> DEFINE n == Len(s) + 1
           b == Start(s, n)
<1>1. n \in Nat \ {0} /\ Len(s) = n - 1 /\ Len(s) \in Nat
  OBVIOUS
<1>2. Unfinished(s) = SubSeq(s, b, n - 1)
  BY <1>1 DEF Unfinished, Line
<1>3. b \in 1 .. n /\ Starts(s, n, b)
  BY <1>1, StartFacts
<1>4. Before(s) = b - 1
  BY DEF Before
<1> HIDE DEF n, b
<1>5. Before(s) \in 0 .. Len(s) /\ Before(s) + 1 = b
  BY <1>1, <1>3, <1>4
<1>6. Before(s) = 0 \/ s[Before(s)] = NL
  BY <1>3, <1>4 DEF Starts
<1>7. ASSUME NEW i \in Before(s) + 1 .. Len(s) PROVE s[i] # NL
  <2>1. i \in b .. n - 1
    BY <1>1, <1>5
  <2> QED
    BY <1>3, <2>1 DEF Starts
<1>8. Unfinished(s) = SubSeq(s, Before(s) + 1, Len(s))
  BY <1>1, <1>2, <1>5
<1>9. Len(Unfinished(s)) = Len(s) - Before(s)
  BY <1>1, <1>5, <1>8
<1>10. ASSUME NEW e \in Ends(s) PROVE e <= Before(s)
  <2>1. e \in 1 .. Len(s) /\ s[e] = NL
    BY DEF Ends
  <2> QED
    BY <1>1, <1>5, <1>7, <2>1
<1> QED
  BY <1>5, <1>6, <1>7, <1>8, <1>9, <1>10

\* Lines are sequences, and dropping a CR makes none longer.
LEMMA LineTypes ==
  ASSUME NEW s \in Seq(Bytes), NEW e \in 1 .. Len(s) + 1
  PROVE  /\ Line(s, e) \in Seq(Bytes) /\ Len(Line(s, e)) = e - Start(s, e)
         /\ Len(WithoutCR(Line(s, e))) <= Len(Line(s, e))
<1> DEFINE b == Start(s, e)
           l == SubSeq(s, b, e - 1)
<1>1. b \in 1 .. e
  BY StartFacts
<1> HIDE DEF b
<1>2. l \in Seq(Bytes) /\ Len(l) = e - b
  BY <1>1
<1> HIDE DEF l
<1>3. Len(WithoutCR(l)) <= Len(l)
  <2>1. CASE l # <<>> /\ l[Len(l)] = CR
    <3>1. WithoutCR(l) = SubSeq(l, 1, Len(l) - 1)
      BY <2>1 DEF WithoutCR, Last, Front
    <3>2. Len(l) \in Nat \ {0}
      BY <1>2, <2>1, EmptySeq
    <3> QED
      BY <1>2, <3>1, <3>2
  <2>2. CASE ~(l # <<>> /\ l[Len(l)] = CR)
    <3>1. WithoutCR(l) = l
      BY <2>2 DEF WithoutCR, Last
    <3> QED
      BY <1>2, <3>1
  <2> QED
    BY <2>1, <2>2
<1>4. Line(s, e) = l
  BY DEF Line, l, b
<1> QED
  BY <1>2, <1>3, <1>4 DEF b

\* The lines of s are lines of u.
Grows(s, u) == \A e \in Ends(s) : e \in Ends(u) /\ Line(u, e) = Line(s, e)

\* What is read later changes no line that has ended.
LEMMA StreamGrows ==
  ASSUME NEW s \in Seq(Bytes), NEW chunk \in Seq(Bytes)
  PROVE  Grows(s, s \o chunk)
<1>1. ASSUME NEW e \in Ends(s)
      PROVE  e \in Ends(s \o chunk) /\ Line(s \o chunk, e) = Line(s, e)
  <2>1. e \in 1 .. Len(s) + 1
    BY DEF Ends
  <2> QED
    BY <2>1, EndsBefore, LineBefore
<1> QED
  BY <1>1 DEF Grows

\* The lines of buf are those of u from o on.
From(u, o, buf) ==
  /\ Len(buf) = Len(u) - o
  /\ \A i \in 1 .. Len(buf) : buf[i] = u[i + o]
  /\ \A e \in 1 .. Len(buf) + 1 : Line(buf, e) = Line(u, e + o)

\* What follows a newline has the lines from there on.
LEMMA RestFrom ==
  ASSUME NEW u \in Seq(Bytes), NEW o \in 0 .. Len(u), o = 0 \/ u[o] = NL
  PROVE  From(u, o, SubSeq(u, o + 1, Len(u))) /\ SubSeq(u, o + 1, Len(u)) \in Seq(Bytes)
<1> DEFINE t == SubSeq(u, o + 1, Len(u))
<1>1. \A e \in 1 .. Len(t) + 1 : Line(t, e) = Line(u, e + o)
  <2> HIDE DEF t
  <2> QED
    BY LineAfter DEF t
<1>2. /\ t \in Seq(Bytes) /\ Len(t) = Len(u) - o
      /\ \A i \in 1 .. Len(t) : t[i] = u[i + o]
  OBVIOUS
<1> HIDE DEF t
<1>3. From(u, o, t)
  BY <1>1, <1>2 DEF From
<1> QED
  BY <1>2, <1>3 DEF t

\* Framing the part of the stream that follows o, all that is new of it but a
\* line too long, gives lines of the stream.
LEMMA FrameKeeps ==
  ASSUME NEW s \in Seq(Bytes), s = stream, NEW u \in Seq(Bytes), stream' = u,
         Len(s) <= Len(u), Grows(s, u), NEW o \in 0 .. Len(u),
         \A e \in Ends(s) : e <= o,
         \A e \in Ends(u) : e \in Ends(s) \/ e > o \/ ~SurelyDelivered(Line(u, e)),
         NEW buf \in Seq(Bytes), From(u, o, buf),
         DeliveredAreLines, Frame(buf)
  PROVE  FramingInv'
<1>1. /\ Len(u) \in Nat /\ o \in Nat /\ Len(s) \in Nat /\ Len(buf) \in Nat
      /\ Len(buf) = Len(u) - o
      /\ \A i \in 1 .. Len(buf) : buf[i] = u[i + o]
  BY DEF From
<1>2. /\ \A i : i \in Ends(s) <=> i \in 1 .. Len(s) /\ s[i] = NL
      /\ \A i : i \in Ends(u) <=> i \in 1 .. Len(u) /\ u[i] = NL
      /\ \A i : i \in Ends(buf) <=> i \in 1 .. Len(buf) /\ buf[i] = NL
      /\ Ends(s) \subseteq Ends(u)
  BY DEF Ends, Grows
<1>3. \A e \in Ends(s) : Line(u, e) = Line(s, e)
  BY DEF Grows
<1>4. \A e \in 1 .. Len(buf) + 1 : Line(buf, e) = Line(u, e + o)
  BY DEF From
<1>5. PICK got \in SUBSET Ends(s) :
        /\ \A e \in got : MayBeDelivered(Line(s, e))
        /\ \A e \in Ends(s) : SurelyDelivered(Line(s, e)) => e \in got
        /\ delivered = LinesAt(s, got)
  <2>1. PICK got \in SUBSET {e \in Ends(s) : MayBeDelivered(Line(s, e))} :
          /\ {e \in Ends(s) : SurelyDelivered(Line(s, e))} \subseteq got
          /\ delivered = LinesAt(s, got)
    BY DEF DeliveredAreLines
  <2> QED
    BY <2>1
<1> DEFINE B == {e \in Ends(buf) : Len(WithoutCR(Line(buf, e))) <= kMaxLineBytes}
           D == {e \in Ends(u) : e > o /\ MayBeDelivered(Line(u, e))}
           C == got \cup D
<1>6. B \in SUBSET (1 .. Len(u)) /\ got \in SUBSET (1 .. Len(u))
  BY <1>1, <1>2
<1>7. Moved(B, o, D)
  <2>1. ASSUME NEW b \in B PROVE b + o \in D
    <3>1. b \in 1 .. Len(buf) /\ b \in 1 .. Len(buf) + 1 /\ u[b + o] = NL
      <4>1. b \in 1 .. Len(buf) /\ buf[b] = NL
        BY <1>2
      <4> QED
        BY <1>1, <4>1
    <3>2. b + o \in 1 .. Len(u) /\ b + o > o /\ Line(buf, b) = Line(u, b + o)
      BY <1>1, <1>4, <3>1
    <3> QED
      BY <1>2, <3>1, <3>2 DEF MayBeDelivered
  <2>2. ASSUME NEW d \in D PROVE \E b \in B : d = b + o
    <3>1. d - o \in 1 .. Len(buf) /\ d - o \in 1 .. Len(buf) + 1 /\ d = (d - o) + o
      BY <1>1, <1>2
    <3>2. buf[d - o] = NL /\ Line(buf, d - o) = Line(u, d)
      BY <1>1, <1>2, <1>4, <3>1
    <3> QED
      BY <1>2, <3>1, <3>2 DEF MayBeDelivered
  <2> QED
    BY <2>1, <2>2 DEF Moved
<1>8. \A b \in B : Line(u, b + o) = Line(buf, b)
  BY <1>1, <1>2, <1>4
<1>9. \A a \in got : a <= o /\ Line(u, a) = Line(s, a)
  BY <1>3, <1>5
<1>10. delivered' = delivered \o LinesAt(buf, B)
  BY DEF Frame, Deliverable
<1> HIDE DEF B, D
<1>11. delivered' = LinesAt(u, C)
  <2>1. LinesAt(u, C) = LinesAt(s, got) \o LinesAt(buf, B)
    <3>1. Joins(Len(u), s, buf, u, o, got, B, D, C)
      BY <1>1, <1>6, <1>7, <1>8, <1>9 DEF Joins
    <3> HIDE DEF C
    <3> QED
      BY ONLY <3>1, LinesJoin
  <2> QED
    BY <1>5, <1>10, <2>1
<1>12. C \subseteq {e \in Ends(u) : MayBeDelivered(Line(u, e))}
  BY <1>2, <1>3, <1>5 DEF D
<1>13. ASSUME NEW e \in Ends(u), SurelyDelivered(Line(u, e)) PROVE e \in C
  <2>1. CASE e \in Ends(s)
    BY <1>3, <1>5, <1>13, <2>1
  <2>2. CASE e > o
    <3>1. e \in 1 .. Len(u) + 1
      BY <1>1, <1>2
    <3>2. Len(Line(u, e)) \in Nat /\ Len(WithoutCR(Line(u, e))) <= Len(Line(u, e))
      <4>1. Line(u, e) \in Seq(Bytes) /\ Len(WithoutCR(Line(u, e))) <= Len(Line(u, e))
        BY <3>1, LineTypes
      <4> QED
        BY <4>1
    <3>3. MayBeDelivered(Line(u, e))
      BY <1>13, <3>2, FramingAssumption DEF SurelyDelivered, MayBeDelivered
    <3> QED
      BY <2>2, <3>3 DEF D
  <2> QED
    BY <1>13, <2>1, <2>2
<1>14. DeliveredAreLines'
  BY <1>11, <1>12, <1>13
     DEF DeliveredAreLines, MayBeDelivered, SurelyDelivered
<1>15. Unfinished(buf) = Unfinished(u)
  <2>1. Len(buf) + 1 \in 1 .. Len(buf) + 1 /\ Len(buf) + 1 + o = Len(u) + 1
    BY <1>1
  <2> QED
    BY <1>4, <2>1 DEF Unfinished
<1>16. discarding' \in BOOLEAN /\ BufferInv'
  <2>1. /\ discarding' = (Len(Unfinished(u)) >= kMaxLineBytes)
        /\ line_buf' = IF discarding' THEN <<>> ELSE Unfinished(u)
    BY <1>15 DEF Frame
  <2>2. discarding' <=> Len(Unfinished(stream')) >= kMaxLineBytes
    BY <2>1
  <2>3. BufferInv'
    BY <2>1, <2>2 DEF BufferInv, Unfinished
  <2> QED
    BY <2>1, <2>3
<1> QED
  BY <1>1, <1>14, <1>16 DEF FramingInv

\* A read in normal mode.
LEMMA AccumulateKeeps ==
  ASSUME FramingInv, NEW s, s = stream, NEW chunk \in Seq(Bytes),
         NEW u, u = s \o chunk, stream' = u, Accumulate(chunk)
  PROVE  FramingInv'
<1> DEFINE o == Before(s)
           buf == line_buf \o chunk
<1>1. s \in Seq(Bytes) /\ line_buf = Unfinished(s) /\ DeliveredAreLines /\ Frame(buf)
  BY DEF FramingInv, BufferInv, Accumulate
<1>2. /\ o \in 0 .. Len(s) /\ (o = 0 \/ s[o] = NL)
      /\ line_buf = SubSeq(s, o + 1, Len(s))
      /\ \A e \in Ends(s) : e <= o
  BY <1>1, UnfinishedFacts
<1> HIDE DEF o
<1>3. /\ u \in Seq(Bytes) /\ Len(u) = Len(s) + Len(chunk)
      /\ Len(s) \in Nat /\ Len(chunk) \in Nat
      /\ \A i \in 1 .. Len(s) : u[i] = s[i]
  <2>1. s \in Seq(Bytes) /\ chunk \in Seq(Bytes) /\ u = s \o chunk
    BY <1>1
  <2> QED
    BY ONLY <2>1, Joined
<1>4. SubSeq(u, o + 1, Len(u)) = SubSeq(s, o + 1, Len(s)) \o chunk
  BY <1>1, <1>2, JoinedCut, Zenon
<1>5. buf = SubSeq(u, o + 1, Len(u))
  BY <1>2, <1>4, Zenon
<1> HIDE DEF buf
<1>6. o \in 0 .. Len(u) /\ (o = 0 \/ u[o] = NL)
  <2>1. o # 0 => o \in 1 .. Len(s)
    BY <1>2, <1>3
  <2> QED
    BY <1>2, <1>3, <2>1
<1>7. Grows(s, u)
  BY <1>1, StreamGrows, Zenon
<1>8. From(u, o, buf) /\ buf \in Seq(Bytes)
  BY <1>3, <1>5, <1>6, RestFrom, Zenon
<1>9. \A e \in Ends(u) : e \in Ends(s) \/ e > o
  <2>1. Ends(u) = Ends(s) \cup {e + Len(s) : e \in Ends(chunk)}
    BY <1>1, EndsBefore, Zenon
  <2>2. \A e \in Ends(chunk) : e \in Nat \ {0}
    BY DEF Ends
  <2>3. \A e \in Ends(chunk) : e + Len(s) > o
    BY <1>2, <1>3, <2>2
  <2> QED
    BY <2>1, <2>3
<1>10. Len(s) <= Len(u)
  BY <1>3
<1> QED
  BY <1>1, <1>2, <1>3, <1>6, <1>7, <1>8, <1>9, <1>10, FrameKeeps

\* A read that ends the skipped line, which was long enough to be skipped.
LEMMA RealignKeeps ==
  ASSUME FramingInv, NEW s, s = stream, NEW chunk \in Seq(Bytes),
         NEW u, u = s \o chunk, stream' = u, Realign(chunk)
  PROVE  FramingInv'
<1> DEFINE nl == Min(Ends(chunk))
           o == Len(s) + nl
           buf == line_buf \o SubSeq(chunk, nl + 1, Len(chunk))
<1>1. /\ s \in Seq(Bytes) /\ line_buf = <<>> /\ DeliveredAreLines /\ Frame(buf)
      /\ Len(Unfinished(s)) >= kMaxLineBytes /\ Ends(chunk) # {}
  BY DEF FramingInv, BufferInv, Realign
<1>2. nl \in Ends(chunk) /\ \A e \in Ends(chunk) : nl <= e
  <2>1. Ends(chunk) \subseteq Nat
    BY DEF Ends
  <2>2. \E x \in Ends(chunk) : \A y \in Ends(chunk) : ~(y < x)
    BY <1>1, <2>1, Least
  <2>3. \E x \in Ends(chunk) : \A y \in Ends(chunk) : x <= y
    BY <2>1, <2>2
  <2> QED
    BY <2>3 DEF Min
<1>3. nl \in 1 .. Len(chunk) /\ chunk[nl] = NL /\ Len(chunk) \in Nat
  BY <1>2 DEF Ends
<1> HIDE DEF nl
<1>4. /\ u \in Seq(Bytes) /\ Len(u) = Len(s) + Len(chunk) /\ Len(s) \in Nat
      /\ \A i \in 1 .. Len(s) : u[i] = s[i]
      /\ \A i \in 1 .. Len(chunk) : u[Len(s) + i] = chunk[i]
  <2>1. s \in Seq(Bytes) /\ chunk \in Seq(Bytes) /\ u = s \o chunk
    BY <1>1
  <2> QED
    BY ONLY <2>1, Joined
<1>5. o \in 1 .. Len(u) /\ o \in 0 .. Len(u) /\ u[o] = NL /\ o > Len(s)
  BY <1>3, <1>4
<1>6. buf = SubSeq(u, o + 1, Len(u))
  <2> DEFINE t == SubSeq(chunk, nl + 1, Len(chunk))
  <2>1. t \in Seq(Bytes) /\ Len(t) = Len(chunk) - nl
        /\ \A i \in 1 .. Len(t) : t[i] = chunk[nl + i]
    BY <1>3
  <2>2. buf = t
    BY <1>1, <2>1
  <2> HIDE DEF t, o
  <2>3. /\ SubSeq(u, o + 1, Len(u)) \in Seq(Bytes)
        /\ Len(SubSeq(u, o + 1, Len(u))) = Len(u) - o
        /\ \A i \in 1 .. Len(u) - o : SubSeq(u, o + 1, Len(u))[i] = u[o + i]
    BY <1>4, <1>5, SMTT(30)
  <2>4. ASSUME NEW i \in 1 .. Len(t) PROVE t[i] = u[o + i]
    <3>1. nl + i \in 1 .. Len(chunk) /\ o + i = Len(s) + (nl + i)
      BY <1>3, <1>4, <2>1 DEF o
    <3> QED
      BY <1>4, <2>1, <3>1
  <2>5. Len(t) = Len(u) - o
    BY <1>3, <1>4, <2>1 DEF o
  <2>6. t = SubSeq(u, o + 1, Len(u))
    <3> DEFINE v == SubSeq(u, o + 1, Len(u))
    <3>1. v \in Seq(Bytes) /\ Len(v) = Len(t)
      BY <2>3, <2>5
    <3>2. \A i \in 1 .. Len(t) : t[i] = v[i]
      BY <2>3, <2>4, <2>5
    <3> HIDE DEF v
    <3>3. t = v
      BY <2>1, <3>1, <3>2, SeqEqual
    <3> QED
      BY <3>3 DEF v
  <2> QED
    BY <2>2, <2>6
<1>7. Grows(s, u) /\ From(u, o, buf) /\ buf \in Seq(Bytes)
  <2>1. Grows(s, u)
    BY <1>1, StreamGrows, Zenon
  <2> QED
    BY <1>4, <1>5, <1>6, <2>1, RestFrom, Zenon
<1>8. \A e \in Ends(s) : e \in 1 .. Len(s)
  BY <1>1 DEF Ends
<1>9. \A e \in Ends(u) : e \in Ends(s) \/ e > o \/ e = o
  <2>1. Ends(u) = Ends(s) \cup {e + Len(s) : e \in Ends(chunk)}
    BY <1>1, EndsBefore, Zenon
  <2>2. \A e \in Ends(chunk) : e \in Nat /\ nl <= e
    BY <1>2 DEF Ends
  <2>3. \A e \in Ends(chunk) : e + Len(s) > o \/ e + Len(s) = o
    <3>1. ASSUME NEW e \in Ends(chunk) PROVE e + Len(s) > o \/ e + Len(s) = o
      <4>1. e \in Nat /\ nl <= e /\ nl \in Nat /\ Len(s) \in Nat
        BY <1>3, <1>4, <2>2
      <4>2. e + Len(s) >= Len(s) + nl
        BY <4>1
      <4> QED
        BY ONLY <4>1, <4>2
    <3> QED
      BY <3>1
  <2> QED
    BY <2>1, <2>3
<1> HIDE DEF buf
<1>10. ~SurelyDelivered(Line(u, o))
  <2> DEFINE b == Start(s, Len(s) + 1)
             c == Start(u, o)
  <2>1. /\ Before(s) = b - 1 /\ Before(s) \in 0 .. Len(s)
        /\ Len(Unfinished(s)) = Len(s) - Before(s)
        /\ Before(s) = 0 \/ s[Before(s)] = NL
    BY <1>1, UnfinishedFacts DEF Before
  <2>2. c \in 1 .. o /\ Starts(u, o, c)
    BY <1>5, StartFacts
  <2>3. b \in 1 .. Len(s) + 1 /\ b - 1 = Before(s)
    <3>1. b \in 1 .. Len(s) + 1
      BY <1>4, StartFacts
    <3> QED
      BY <2>1, <3>1
  <2> HIDE DEF b, c
  <2>4. Starts(u, o, b)
    <3>1. b = 1 \/ u[b - 1] = NL
      BY <1>4, <2>1, <2>3
    <3>2. ASSUME NEW i \in b .. o - 1 PROVE u[i] # NL
      <4>1. CASE i <= Len(s)
        <5>1. i \in Before(s) + 1 .. Len(s) /\ i \in 1 .. Len(s)
          BY <1>4, <2>3, <4>1
        <5> QED
          BY <1>1, <1>4, <5>1, UnfinishedFacts, SMTT(30)
      <4>2. CASE i > Len(s)
        <5>1. i - Len(s) \in 1 .. Len(chunk) /\ i - Len(s) < nl /\ i = Len(s) + (i - Len(s))
          BY <1>3, <1>4, <2>3, <4>2
        <5>2. i - Len(s) \notin Ends(chunk)
          BY <1>2, <1>3, <5>1
        <5>3. chunk[i - Len(s)] # NL
          BY <5>1, <5>2 DEF Ends
        <5> QED
          <6>1. u[Len(s) + (i - Len(s))] = chunk[i - Len(s)]
            BY <1>4, <5>1
          <6> QED
            BY <5>1, <5>3, <6>1
      <4> QED
        BY <1>3, <1>4, <2>3, <4>1, <4>2
    <3> QED
      BY <3>1, <3>2 DEF Starts
  <2>5. c = b
    <3>1. o \in Nat \ {0} /\ b \in 1 .. o
      BY <1>4, <1>5, <2>3
    <3> QED
      BY <2>4, <3>1, StartIs DEF c
  <2>6. Len(Line(u, o)) = o - b
    <3>1. o \in 1 .. Len(u) + 1
      BY <1>4, <1>5
    <3> QED
      BY <1>4, <2>5, <3>1, LineTypes DEF c
  <2> QED
    BY <1>1, <1>4, <1>5, <2>1, <2>3, <2>6, FramingAssumption DEF SurelyDelivered
<1>11. stream' = u /\ Len(s) <= Len(u)
  BY <1>3, <1>4
<1>12. \A e \in Ends(s) : e <= o
  BY <1>4, <1>5, <1>8
<1>13. \A e \in Ends(u) : e \in Ends(s) \/ e > o \/ ~SurelyDelivered(Line(u, e))
  BY <1>9, <1>10
<1> HIDE DEF o
<1> QED
  BY <1>1, <1>4, <1>5, <1>7, <1>11, <1>12, <1>13, FrameKeeps

\* The lines at the same positions of a longer stream.
LEMMA SameLines ==
  ASSUME NEW s \in Seq(Bytes), NEW u, Grows(s, u), NEW got \in SUBSET Ends(s)
  PROVE  LinesAt(u, got) = LinesAt(s, got)
<1>1. Len(s) \in Nat /\ got \in SUBSET (1 .. Len(s))
  BY DEF Ends
<1>2. \A k \in 1 .. Cardinality(got) : InOrder(got)[k] \in got
  <2>1. ASSUME NEW k \in 1 .. Cardinality(got) PROVE InOrder(got)[k] \in got
    <3>1. /\ \A x \in got : InOrder(got)[Rank(got, x)] = x
          /\ \E x \in got : Rank(got, x) = k
      BY <1>1, InOrderFacts
    <3> QED
      BY <3>1, Zenon
  <2> QED
    BY <2>1
<1>3. \A k \in 1 .. Cardinality(got) : Line(u, InOrder(got)[k]) = Line(s, InOrder(got)[k])
  BY <1>2 DEF Grows
<1> QED
  BY <1>3, Zenon DEF LinesAt

\* A read while a line is skipped, which does not end it.
LEMMA DiscardKeeps ==
  ASSUME FramingInv, NEW s, s = stream, NEW chunk \in Seq(Bytes),
         NEW u, u = s \o chunk, stream' = u, Discard(chunk)
  PROVE  FramingInv'
<1>1. /\ s \in Seq(Bytes) /\ line_buf = <<>> /\ DeliveredAreLines
      /\ Len(Unfinished(s)) >= kMaxLineBytes
      /\ discarding = TRUE /\ discarding' = TRUE /\ line_buf' = <<>> /\ delivered' = delivered
      /\ Ends(chunk) = {}
  BY DEF FramingInv, BufferInv, Discard
<1>2. /\ u \in Seq(Bytes) /\ Len(u) = Len(s) + Len(chunk)
      /\ Len(s) \in Nat /\ Len(chunk) \in Nat
  <2>1. s \in Seq(Bytes) /\ chunk \in Seq(Bytes) /\ u = s \o chunk
    BY <1>1
  <2> QED
    BY ONLY <2>1, Joined
<1>3. Grows(s, u)
  BY <1>1, StreamGrows, Zenon
<1>4. Ends(u) = Ends(s)
  <2>1. Ends(u) = Ends(s) \cup {e + Len(s) : e \in Ends(chunk)}
    BY <1>1, EndsBefore, Zenon
  <2> QED
    BY <1>1, <2>1
<1>5. \A e \in Ends(s) : Line(u, e) = Line(s, e)
  BY <1>3 DEF Grows
<1>6. DeliveredAreLines'
  <2>1. PICK got \in SUBSET {e \in Ends(s) : MayBeDelivered(Line(s, e))} :
          /\ {e \in Ends(s) : SurelyDelivered(Line(s, e))} \subseteq got
          /\ delivered = LinesAt(s, got)
    BY <1>1 DEF DeliveredAreLines
  <2>2. LinesAt(u, got) = LinesAt(s, got)
    <3>1. got \in SUBSET Ends(s)
      BY <2>1
    <3> QED
      BY <1>1, <1>3, <3>1, SameLines, Zenon
  <2>3. got \in SUBSET {e \in Ends(u) : MayBeDelivered(Line(u, e))}
    BY <1>4, <1>5
  <2>4. {e \in Ends(u) : SurelyDelivered(Line(u, e))} \subseteq got
    BY <1>4, <1>5, <2>1
  <2>5. delivered' = LinesAt(u, got)
    BY <1>1, <2>1, <2>2, Zenon
  <2> QED
    BY <2>3, <2>4, <2>5 DEF DeliveredAreLines, MayBeDelivered, SurelyDelivered
<1>7. Len(Unfinished(u)) >= kMaxLineBytes
  <2>1. Before(s) \in 0 .. Len(s) /\ Len(Unfinished(s)) = Len(s) - Before(s)
        /\ \A e \in Ends(s) : e <= Before(s)
    BY <1>1, UnfinishedFacts
  <2>2. Before(u) \in 0 .. Len(u) /\ Len(Unfinished(u)) = Len(u) - Before(u)
        /\ (Before(u) = 0 \/ u[Before(u)] = NL)
    BY <1>2, UnfinishedFacts
  <2>3. Before(u) = 0 \/ Before(u) \in Ends(u)
    BY <1>2, <2>2 DEF Ends
  <2>4. Before(u) <= Before(s)
    BY <1>4, <2>1, <2>3
  <2> QED
    BY <1>1, <1>2, <2>1, <2>2, <2>4, FramingAssumption
<1> QED
  BY <1>1, <1>2, <1>6, <1>7 DEF FramingInv, BufferInv, Unfinished

\* Nothing has been read yet.
LEMMA FramingStarts ==
  ASSUME FramingInit
  PROVE  FramingInv
<1>1. /\ stream = <<>> /\ line_buf = <<>> /\ discarding = FALSE /\ delivered = <<>>
      /\ stream \in Seq(Bytes) /\ Len(stream) = 0
  BY DEF FramingInit
<1>2. BufferInv
  <2>1. Unfinished(stream) = SubSeq(stream, Before(stream) + 1, Len(stream))
        /\ Before(stream) \in 0 .. Len(stream)
    BY <1>1, UnfinishedFacts
  <2>2. Unfinished(stream) = SubSeq(stream, 1, 0)
    BY <1>1, <2>1
  <2>3. SubSeq(stream, 1, 0) = <<>>
    BY <1>1
  <2> QED
    BY <1>1, <2>2, <2>3 DEF BufferInv
<1>3. DeliveredAreLines
  <2>1. Ends(stream) = {}
    BY <1>1 DEF Ends
  <2>2. LinesAt(stream, {}) = <<>>
    <3>1. 1 .. Cardinality({}) = {}
      BY FS_EmptySet
    <3> DEFINE f == LinesAt(stream, {})
    <3>2. f = [k \in {} |-> WithoutCR(Line(stream, InOrder({})[k]))]
      BY <3>1 DEF LinesAt
    <3>3. f \in [1 .. 0 -> Seq(Bytes)]
      <4>1. f \in [{} -> Seq(Bytes)]
        BY ONLY <3>2, Zenon
      <4>2. 1 .. 0 = {}
        OBVIOUS
      <4> QED
        BY <4>1, <4>2, Zenon
    <3>4. f \in Seq(Seq(Bytes)) /\ Len(f) = 0
      BY <3>3
    <3> HIDE DEF f
    <3> QED
      BY <3>4, EmptySeq DEF f
  <2> QED
    BY <1>1, <2>1, <2>2 DEF DeliveredAreLines
<1> QED
  BY <1>1, <1>2, <1>3 DEF FramingInv

\* A read keeps the invariant, whatever it returns.
LEMMA ReadKeeps ==
  ASSUME FramingInv, Read
  PROVE  FramingInv'
<1>1. PICK n \in 1 .. kReadBufSize - 1 : \E chunk \in [1 .. n -> Bytes] :
        /\ stream' = stream \o chunk
        /\ Accumulate(chunk) \/ Discard(chunk) \/ Realign(chunk)
  BY DEF Read
<1>2. PICK chunk \in [1 .. n -> Bytes] :
        /\ stream' = stream \o chunk
        /\ Accumulate(chunk) \/ Discard(chunk) \/ Realign(chunk)
  BY <1>1
<1>3. chunk \in Seq(Bytes)
  BY <1>1, FramingAssumption
<1>4. CASE Accumulate(chunk)
  BY <1>2, <1>3, <1>4, AccumulateKeeps, Zenon
<1>5. CASE Discard(chunk)
  BY <1>2, <1>3, <1>5, DiscardKeeps, Zenon
<1>6. CASE Realign(chunk)
  BY <1>2, <1>3, <1>6, RealignKeeps, Zenon
<1> QED
  BY <1>2, <1>4, <1>5, <1>6

\* However IoLoop's reads cut the stream, and whatever it skipped, the
\* observers got lines of the stream, whole, in order, once each, and every
\* one that is short enough.
THEOREM LinesDelivered == FramingSpec => []DeliveredAreLines
<1>1. FramingInit => FramingInv
  BY FramingStarts
<1>2. FramingInv /\ [Read]_framingVars => FramingInv'
  <2>1. CASE Read
    BY <2>1, ReadKeeps
  <2>2. CASE UNCHANGED framingVars
    BY <2>2 DEF framingVars, FramingInv, BufferInv, DeliveredAreLines, Unfinished,
                SurelyDelivered, MayBeDelivered
  <2> QED
    BY <2>1, <2>2
<1>3. FramingInv => DeliveredAreLines
  BY DEF FramingInv
<1> QED
  BY <1>1, <1>2, <1>3, PTL DEF FramingSpec
=============================================================================
