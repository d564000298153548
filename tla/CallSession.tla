---------------------------- MODULE CallSession ----------------------------
(***************************************************************************)
(* The signalling server composed with the WebRTC engine of every client:  *)
(* EngineController's call commands, webrtc_engine's signalling handlers   *)
(* and the asynchronous operations of its PeerConnection.  Client c is     *)
(* connected to the server over handle c.                                  *)
(*                                                                         *)
(* Everything in an engine runs on its signalling thread, one task after   *)
(* the other: a command, a message from the server, or a callback of the   *)
(* PeerConnection.  down[c] is the stream from the server to the engine,   *)
(* the socket and the thread's task queue together; it is first in, first  *)
(* out.  A message to the server is handled in the step that sends it: the *)
(* delay of the other direction adds nothing, because delaying all that a  *)
(* client does until its message is handled gives the same history.        *)
(***************************************************************************)
EXTENDS SignalingServer

CONSTANTS
  Callers,   \* clients whose user gives the call command
  Callees,   \* clients whose id the callers use
  MaxCalls,  \* bound on accepted call commands
  MaxDrops,  \* bound on connections that end
  Faults     \* may creating or describing a PeerConnection fail?

ASSUME SessionAssumption ==
  /\ Callers \cup Callees \subseteq Handles
  /\ MaxCalls \in Nat /\ MaxDrops \in Nat /\ Faults \in BOOLEAN

VARIABLES
  eng,    \* the engine of each client
  down,   \* what the server has sent each engine and it has not handled yet
  calls,  \* number of accepted call commands; numbers the offers
  drops   \* number of connections that have ended

sessionVars == <<vars, eng, down, calls, drops>>

-----------------------------------------------------------------------------
(* Session descriptions: their kind, and the offer they are or answer.     *)

Sdp(kind, n) == [kind |-> kind, offer |-> n]

NoSdp == Sdp("none", 0)

Candidate == Sdp("candidate", 0)

\* A PeerConnection: its signalling state, its two descriptions, and whether
\* it has a local candidate to report.
FreshPc == [sig |-> "stable", local |-> NoSdp, remote |-> NoSdp, gather |-> FALSE]

NoPc == [FreshPc EXCEPT !.sig = "none"]

NoId == 0 - 1

IdleEngine ==
  [link |-> "off",           \* the WebSocket: off, connecting (open, not yet
                             \* registered), on
   signed_in |-> FALSE, my_id |-> NoId,
   peer_id |-> NoId, is_offerer |-> FALSE, is_connected |-> FALSE,
   pc |-> NoPc,
   jobs |-> <<>>,            \* operations the PeerConnection has queued
   asked |-> FALSE,          \* a call command whose outcome no event told yet
   crashed |-> FALSE]

\* ClosePeerConnection.  Queued operations die with the PeerConnection.
Closed(e) ==
  [e EXCEPT !.pc = NoPc, !.jobs = <<>>, !.peer_id = NoId,
            !.is_offerer = FALSE, !.is_connected = FALSE]

Queue(e, op, sdp) == [e EXCEPT !.jobs = Append(@, [op |-> op, sdp |-> sdp])]

\* An event that tells the user how the call command ended.
Told(e) == [e EXCEPT !.asked = FALSE]

Crash(e) == [IdleEngine EXCEPT !.crashed = TRUE, !.link = e.link]

-----------------------------------------------------------------------------
(* Exchanges with the server.                                              *)

\* A roster is the last that a handler sends; it changes no state the call
\* depends on.
CallRelated(s) ==
  IF s # <<>> /\ s[Len(s)].type = "roster" THEN SubSeq(s, 1, Len(s) - 1) ELSE s

\* What the server sent in this step joins the streams d.
Deliver(d) == down' = [h \in Handles |-> d[h] \o CallRelated(sent'[h])]

ServerIdle ==
  /\ sent' = Silence
  /\ UNCHANGED <<registry, maps, clock, conn, reachable>>

\* SendJson gives up when the WebSocket is not connected.
ViaLink(c, Handler) ==
  \/ eng[c].link = "on" /\ Handler
  \/ eng[c].link # "on" /\ ServerIdle

Alive(c) == ~eng[c].crashed

\* A step of c's engine; Handler is what the server does of it.
EngineStep(c, e, Handler) ==
  /\ eng' = [eng EXCEPT ![c] = e]
  /\ ViaLink(c, Handler)

-----------------------------------------------------------------------------
SessionInit ==
  /\ Init
  /\ eng = [c \in Handles |-> IdleEngine]
  /\ down = [c \in Handles |-> <<>>]
  /\ calls = 0 /\ drops = 0

(***************************************************************************)
(* The connection.                                                         *)
(***************************************************************************)

\* The register command while there is no connection: ConnectToServer.  The
\* user gives it again only after the event that the last connection ended.
ConnectToServer(c) ==
  /\ Alive(c) /\ eng[c].link = "off"
  /\ down[c] = <<>>
  /\ OnOpen(c)
  /\ eng' = [eng EXCEPT ![c].link = "connecting"]
  /\ UNCHANGED <<down, calls, drops>>

\* WebSocketSignalingClient::OnOpen sends the name as its first message.
SendRegister(c) ==
  /\ Alive(c) /\ eng[c].link = "connecting"
  /\ \E name \in Names : Register(c, name)
  /\ eng' = [eng EXCEPT ![c].link = "on"]
  /\ Deliver(down)
  /\ UNCHANGED <<calls, drops>>

\* The connection ends: signal_disconnect, a crash or a loss of the network.
\* The messages still on their way are lost, those in the task queue are not.
Disconnect(c) ==
  /\ eng[c].link # "off" /\ drops < MaxDrops
  /\ OnClose(c)
  /\ eng' = [eng EXCEPT ![c].link = "off"]
  /\ \E k \in 0 .. Len(down[c]) :
       Deliver([down EXCEPT ![c] =
                  Append(SubSeq(@, 1, k), [type |-> "disconnected"])])
  /\ drops' = drops + 1
  /\ UNCHANGED calls

(***************************************************************************)
(* Commands of the user (HandleCommand).                                   *)
(***************************************************************************)

\* The guards of call, in the code's order, all passed.
MayCall(e) == e.signed_in /\ ~(e.is_connected \/ e.peer_id > 0)

\* StartCallImpl.  The peer is recorded first, whatever fails afterwards: the
\* PeerConnection, or the data channel after it.
CmdCall(c, to) ==
  /\ Alive(c) /\ c \in Callers /\ calls < MaxCalls
  /\ to \in DOMAIN id_to_hdl => id_to_hdl[to] \in Callees
  /\ MayCall(eng[c])
  /\ LET e == [eng[c] EXCEPT !.peer_id = to, !.is_offerer = TRUE, !.asked = TRUE]
         f == [e EXCEPT !.pc = IF @ = NoPc THEN FreshPc ELSE @]
     IN  \/ eng' = [eng EXCEPT ![c] =
                      Queue(f, "create_offer", Sdp("offer", calls + 1))]
         \/ /\ Faults
            /\ \E g \in {e, f} : eng' = [eng EXCEPT ![c] = Told(g)]
  /\ calls' = calls + 1
  /\ ServerIdle
  /\ UNCHANGED <<down, drops>>

\* leave changes nothing here: the engine waits for the server's echo.
CmdLeave(c) ==
  /\ Alive(c) /\ eng[c].signed_in
  /\ EngineStep(c, eng[c], Leave(c))
  /\ Deliver(down)
  /\ UNCHANGED <<calls, drops>>

(***************************************************************************)
(* Messages from the server (the OnSignal handlers).                       *)
(***************************************************************************)

\* OnSignalCall: an existing PeerConnection is used again.
Called(e, m) ==
  LET f == [e EXCEPT !.peer_id = m.from, !.is_offerer = FALSE]
  IN  {Queue([f EXCEPT !.pc = IF @ = NoPc THEN FreshPc ELSE @],
             "set_remote_offer", m.body)}
        \cup IF Faults /\ e.pc = NoPc THEN {f} ELSE {}

\* Handlers that call into the PeerConnection without a look whether it exists.
NeedsPc(e, f) == IF e.pc = NoPc THEN Crash(e) ELSE f

Handled(e, m) ==
  CASE m.type = "welcome" -> {[e EXCEPT !.signed_in = TRUE, !.my_id = m.id]}
    [] m.type = "disconnected" ->
         {Told(Closed([e EXCEPT !.signed_in = FALSE, !.my_id = NoId]))}
    [] m.type = "call" -> Called(e, m)
    [] m.type = "answer" -> {NeedsPc(e, Queue(e, "set_remote_answer", m.body))}
    [] m.type = "candidate" -> {NeedsPc(e, e)}
    [] m.type \in {"leave", "peer_gone"} -> {Told(Closed(e))}
    [] m.type = "error" -> {Told(e)}

Receive(c) ==
  /\ Alive(c) /\ down[c] # <<>>
  /\ \E e \in Handled(eng[c], Head(down[c])) : eng' = [eng EXCEPT ![c] = e]
  /\ down' = [down EXCEPT ![c] = Tail(@)]
  /\ ServerIdle
  /\ UNCHANGED <<calls, drops>>

(***************************************************************************)
(* Operations of the PeerConnection, one after the other in the order they *)
(* were asked for, and the engine's callbacks at their end.                *)
(***************************************************************************)

\* CreateSdpObserver::OnSuccess: the description goes to whoever is the peer
\* by now, in the role the engine has by now.
SendLocal(c, e, sdp) ==
  IF e.is_offerer THEN Call(c, e.peer_id, sdp)
                  ELSE Relay(c, "answer", e.peer_id, sdp)

\* Is creating this description allowed, and what is it?
Creatable(pc, op) ==
  op = "create_offer" \/ (op = "create_answer" /\ pc.sig = "have_remote_offer")

Created(pc, job) ==
  IF job.op = "create_offer" THEN job.sdp ELSE Sdp("answer", pc.remote.offer)

CreateSucceeds(c, e, job) ==
  /\ Creatable(e.pc, job.op)
  /\ LET sdp == Created(e.pc, job) IN
       EngineStep(c, Queue(e, "set_local", sdp), SendLocal(c, e, sdp))

CreateFails(c, e, job) ==
  /\ ~Creatable(e.pc, job.op) \/ Faults
  /\ eng' = [eng EXCEPT ![c] = Told(e)]
  /\ ServerIdle

\* The states in which a description may be applied, and the state after.
SetTo(pc, op, sdp) ==
  CASE op = "set_local" /\ sdp.kind = "offer"
         /\ pc.sig \in {"stable", "have_local_offer"} ->
           [pc EXCEPT !.sig = "have_local_offer", !.local = sdp, !.gather = TRUE]
    [] op = "set_local" /\ sdp.kind = "answer" /\ pc.sig = "have_remote_offer" ->
           [pc EXCEPT !.sig = "stable", !.local = sdp, !.gather = TRUE]
    [] op = "set_remote_offer" /\ sdp.kind = "offer"
         /\ pc.sig \in {"stable", "have_remote_offer"} ->
           [pc EXCEPT !.sig = "have_remote_offer", !.remote = sdp]
    [] op = "set_remote_answer" /\ sdp.kind = "answer"
         /\ pc.sig = "have_local_offer" ->
           [pc EXCEPT !.sig = "stable", !.remote = sdp]
    [] OTHER -> NoPc

\* SetRemoteObserver: an answerer goes on to create its answer.
AfterSet(e, job) ==
  IF job.op # "set_local" /\ ~e.is_offerer
  THEN Queue(e, "create_answer", NoSdp) ELSE e

SetDescription(c, e, job) ==
  LET pc == SetTo(e.pc, job.op, job.sdp) IN
    /\ eng' = [eng EXCEPT ![c] =
                 IF pc = NoPc THEN Told(e) ELSE AfterSet([e EXCEPT !.pc = pc], job)]
    /\ ServerIdle

RunJob(c) ==
  /\ Alive(c) /\ eng[c].jobs # <<>>
  /\ LET job == Head(eng[c].jobs)
         e   == [eng[c] EXCEPT !.jobs = Tail(@)]
     IN  IF job.op \in {"create_offer", "create_answer"}
         THEN CreateSucceeds(c, e, job) \/ CreateFails(c, e, job)
         ELSE SetDescription(c, e, job)
  /\ Deliver(down)
  /\ UNCHANGED <<calls, drops>>

\* OnIceCandidate.
OnIceCandidate(c) ==
  /\ Alive(c) /\ eng[c].pc.gather
  /\ EngineStep(c, [eng[c] EXCEPT !.pc.gather = FALSE],
                Relay(c, "candidate", eng[c].peer_id, Candidate))
  /\ Deliver(down)
  /\ UNCHANGED <<calls, drops>>

\* Both descriptions are of one offer.
Matched(pc) ==
  pc.sig = "stable" /\ pc.local.offer = pc.remote.offer /\ pc.local # NoSdp

\* The two ends of a negotiated session can reach each other.
Joined(c) ==
  /\ Matched(eng[c].pc)
  /\ \E d \in Handles \ {c} : Matched(eng[d].pc)
                              /\ eng[d].pc.local.offer = eng[c].pc.local.offer

Negotiated(pc) == pc.sig = "stable" /\ pc.remote # NoSdp

\* OnConnectionChange: connected once both ends hold matching descriptions,
\* disconnected or failed when they do not, or no longer do.
OnConnectionChange(c) ==
  /\ Alive(c) /\ Negotiated(eng[c].pc)
  /\ eng' = [eng EXCEPT ![c] = Told([@ EXCEPT !.is_connected = Joined(c)])]
  /\ eng' # eng
  /\ ServerIdle
  /\ UNCHANGED <<down, calls, drops>>

-----------------------------------------------------------------------------
EngineNext(c) ==
  \/ \E to \in Ids : CmdCall(c, to)
  \/ CmdLeave(c) \/ Receive(c) \/ RunJob(c) \/ OnIceCandidate(c)
  \/ OnConnectionChange(c)

LinkNext(c) == ConnectToServer(c) \/ SendRegister(c) \/ Disconnect(c)

\* No caller calls another one, under an id to come either: where two users
\* call each other at the same time, messages without a call id are taken for
\* those of the wrong call.
RolesKept ==
  \A c, d \in Callers :
    c # d /\ d \in DOMAIN hdl_to_id => eng[c].peer_id # hdl_to_id[d]

SessionNext == (\E c \in Handles : EngineNext(c) \/ LinkNext(c)) /\ RolesKept'

SessionSpec == SessionInit /\ [][SessionNext]_sessionVars

-----------------------------------------------------------------------------
(***************************************************************************)
(* Properties.                                                             *)
(***************************************************************************)

\* Nothing is under way: every message and callback has been handled and every
\* connection has reported how it stands.
Quiescent ==
  \A c \in Handles :
    /\ down[c] = <<>> /\ eng[c].jobs = <<>> /\ eng[c].link # "connecting"
    /\ Negotiated(eng[c].pc) => eng[c].is_connected = Joined(c) /\ ~eng[c].asked

\* No engine calls into a PeerConnection it does not have: an answer or a
\* candidate never reaches OnSignalAnswer or OnSignalCandidate after its call
\* was closed, nor before OnSignalCall created the PeerConnection.
NoCrash == \A c \in Handles : ~eng[c].crashed

\* Once everything is handled, an engine believes it is signed in exactly when
\* the server knows its connection, under the same id, through any sequence of
\* losses of the connection and registrations.
IdsAgree ==
  Quiescent => \A c \in {d \in Handles : Alive(d)} :
    /\ eng[c].signed_in <=> c \in DOMAIN hdl_to_id
    /\ eng[c].signed_in => eng[c].my_id = hdl_to_id[c]

\* Once everything is handled, a client the server holds in a call names the
\* same partner: StartCallImpl and OnSignalCall on one side, Call, Hangup and
\* Remove on the other, wrote the same call last.
CallsAgree ==
  Quiescent => \A c \in DOMAIN hdl_to_id :
    Alive(c) /\ Busy(members, hdl_to_id[c]) =>
      eng[c].peer_id = members[hdl_to_id[c]].peer_id

\* Engines and server come out of every sequence of calls, losses of the
\* connection and registrations with the same ids and the same calls.
SidesAgree == IdsAgree /\ CallsAgree

\* An answer or a candidate is from the client the engine is in a call with at
\* the time it handles it: the handlers do not look at from.
FromPeer ==
  \A c \in Handles : Alive(c) /\ down[c] # <<>> =>
    LET m == Head(down[c]) IN
      m.type \in {"answer", "candidate"} => m.from = eng[c].peer_id

\* Every accepted call command ends in an event that tells its outcome: no call
\* is left ringing after all is handled (the command and event table of
\* IPC_PROTOCOL.md).
CallOutcome == Quiescent => \A c \in Handles : ~eng[c].asked
=============================================================================
