---------------------------- MODULE HttpSession ----------------------------
(***************************************************************************)
(* The older engine (peer_connection_client.cc, webrtc_engine.cc) with its *)
(* HTTP server.  A client has two connections: the control socket, for one *)
(* request at a time, and the hanging get.  All its callbacks run on one   *)
(* thread, so a callback is one action; a message that finds the control   *)
(* socket in use waits in pending_messages_.                               *)
(*                                                                         *)
(* When a client closes a connection the request on it may still reach the *)
(* server, or not; the answer is lost.  The server learns that a hanging   *)
(* get was closed before it sees the same member's next one.               *)
(***************************************************************************)
EXTENDS PeerChannel

CONSTANTS
  Clients,
  Limits    \* bounds on how often the users and the network act, one of which
            \* a behaviour keeps to

Uses == {"connect", "call", "hangup", "disconnect", "drop", "candidate"}

ASSUME SessionAssumption ==
  /\ Limits \subseteq [Uses -> Nat]
  /\ Bodies = {"offer", "answer", "candidate"}
  /\ Sockets = {<<c, k>> : c \in Clients, k \in {"control", "closed"}}
                 \cup {<<c, "wait", i>> : c \in Clients, i \in Ids}

VARIABLES
  client,
  used      \* against Limits

session == <<channel, client, used>>

(***************************************************************************)
(* A client: state_, my_id_ (0 is -1) and peers_; the request on the       *)
(* control socket and its reply; the hanging get (the request is under way *)
(* to the server, which then holds it) and the reply to it; the requests   *)
(* and hanging gets it has closed that the server still has to see; the    *)
(* engine's peer_id_ (0 is -1), whether there is a PeerConnection, what it *)
(* still has to deliver, pending_messages_, and the reconnection to come.  *)
(* left, of the model: the client has not connected, or has signed out or  *)
(* was refused since.                                                      *)
(***************************************************************************)
NewClient ==
  [st |-> "off", id |-> 0, peers |-> {}, ctl |-> <<>>, reply |-> <<>>,
   wait |-> "none", note |-> <<>>, stray |-> {}, dead |-> {},
   peer |-> 0, pc |-> FALSE, jobs |-> <<>>, gather |-> FALSE, pending |-> <<>>,
   again |-> FALSE, left |-> TRUE]

Req(op, id, to, body) == [op |-> op, id |-> id, to |-> to, body |-> body]

CloseControl(e) ==
  [e EXCEPT !.ctl = <<>>, !.reply = <<>>,
            !.stray = IF e.reply = <<>> THEN @ \cup {e.ctl[i] : i \in DOMAIN e.ctl} ELSE @]

CloseWait(e) ==
  [e EXCEPT !.wait = "none", !.note = <<>>,
            !.dead = IF e.wait # "none" /\ e.note = <<>>
                     THEN @ \cup {<<e.id, e.wait>>} ELSE @]

OpenWait(e) == [e EXCEPT !.wait = "asked"]

Ask(e, op) == [e EXCEPT !.ctl = <<Req(op, e.id, 0, "")>>]

\* PeerConnectionClient::SignOut.
ClientSignOut(e) ==
  IF e.st \in {"off", "out"} THEN e
  ELSE LET f == [CloseWait(e) EXCEPT !.left = TRUE]
       IN  IF f.ctl # <<>> THEN [f EXCEPT !.st = "out_waiting"]
           ELSE IF f.id = 0 THEN [f EXCEPT !.st = "out"]
           ELSE Ask([f EXCEPT !.st = "out"], "sign_out")

\* Mutant of ClientClose: my_id_ is kept.
ClientCloseKeepsId(e) ==
  [CloseWait(CloseControl(e)) EXCEPT !.st = "off", !.peers = {}]

\* PeerConnectionClient::Close.
ClientClose(e) ==
  [CloseWait(CloseControl(e)) EXCEPT !.st = "off", !.id = 0, !.peers = {}]

\* WebRTCEngine::DisconnectFromServerImpl.
DisconnectFromServer(e) == IF e.id # 0 THEN ClientSignOut(e) ELSE e

\* SendToPeer; without a connection to send on the engine signs out.
SendOrQuit(e, body) ==
  IF e.peer = 0 THEN e
  ELSE IF e.st # "on" THEN DisconnectFromServer(e)
  ELSE [CloseControl(e) EXCEPT !.ctl = <<Req("message", e.id, e.peer, body)>>]

IsSendingMessage(e) == e.st = "on" /\ e.ctl # <<>>

\* Mutant of SendFront: the next message does not wait for the reply.
SendFrontAtOnce(e) ==
  IF e.pending = <<>> THEN e
  ELSE SendOrQuit([e EXCEPT !.pending = Tail(@)], Head(e.pending))

SendFront(e) ==
  IF e.pending = <<>> \/ IsSendingMessage(e) THEN e
  ELSE SendOrQuit([e EXCEPT !.pending = Tail(@)], Head(e.pending))

\* WebRTCEngine::SendMessage.
SendMessage(e, body) == SendFront([e EXCEPT !.pending = Append(@, body)])

\* WebRTCEngine::OnMessageSent, when the control socket has been closed.
OnMessageSent(e) ==
  LET f == SendFront(e) IN IF f.pc THEN f ELSE [f EXCEPT !.peer = 0]

\* The PeerConnection goes; what it had posted comes to nothing.
NoCall(e) ==
  [e EXCEPT !.pc = FALSE, !.peer = 0, !.pending = <<>>, !.jobs = <<>>,
            !.gather = FALSE]

\* ParseServerResponse for another status than 200, with OnDisconnected.
Refused(e) == [NoCall(ClientClose(e)) EXCEPT !.left = TRUE]

\* SendHangUpConfirm opens a socket of its own and closes it again.
SendHangUpConfirm(e) ==
  [e EXCEPT !.stray = @ \cup {Req("hangup_confirm", e.id, 0, "")}]

\* OnPeerDisconnected: the hang-up is confirmed, the client closes everything,
\* and connects again in two seconds.
OnPeerDisconnected(e, id) ==
  IF id # e.peer THEN e
  ELSE [NoCall(ClientClose(SendHangUpConfirm(e))) EXCEPT !.again = TRUE]

OnMessageFromPeer(e, id, body) ==
  IF e.pc /\ id # e.peer THEN e
  ELSE [e EXCEPT !.pc = TRUE, !.peer = id,
                 !.jobs = IF body = "offer" THEN Append(@, "answer") ELSE @]

\* OnRead: the reply has come and the server has closed the socket.
OnRead(e) ==
  LET r == e.reply[1]
      f == OnMessageSent([e EXCEPT !.ctl = <<>>, !.reply = <<>>])
  IN  IF r.status # 200 THEN Refused(f)
      ELSE IF f.id = 0
           THEN OpenWait([f EXCEPT !.id = r.from, !.peers = r.body.ids \ {r.from},
                                   !.st = "on"])
      ELSE IF f.st = "out"
           THEN OpenWait([f EXCEPT !.peers = r.body.ids \ {f.id}, !.st = "on"])
      ELSE IF f.st = "out_waiting" THEN ClientSignOut(f)
      ELSE f

\* A notice about members: only the first line of a list is read.
First(ids) == CHOOSE i \in ids : \A j \in ids : i <= j

OnNotice(e, body) ==
  LET first == First(body.ids)
  IN  IF body.kind = "left"
      THEN OnPeerDisconnected([e EXCEPT !.peers = @ \ {first}], first)
      ELSE [e EXCEPT !.peers = @ \cup {first}]

\* Mutant of OnHangingGetRead: the client does not ask for the next message.
OnHangingGetReadOnce(e) ==
  LET r == e.note[1]
      f == [e EXCEPT !.note = <<>>, !.wait = "none"]
  IN  IF r.status # 200 THEN Refused(f)
      ELSE IF r.from = f.id THEN OnNotice(f, r.body)
      ELSE IF r.body.kind = "hangup_confirm" THEN OnPeerDisconnected(f, r.from)
      ELSE OnMessageFromPeer(f, r.from, r.body.kind)

\* OnHangingGetRead: the next hanging get is opened before the message is
\* looked at.
OnHangingGetRead(e) ==
  LET r == e.note[1]
      g == [e EXCEPT !.note = <<>>, !.wait = "none"]
      f == IF e.st = "on" THEN OpenWait(g) ELSE g
  IN  IF r.status # 200 THEN Refused(f)
      ELSE IF r.from = f.id THEN OnNotice(f, r.body)
      ELSE IF r.body.kind = "hangup_confirm" THEN OnPeerDisconnected(f, r.from)
      ELSE OnMessageFromPeer(f, r.from, r.body.kind)

\* WebRTCEngine::ConnectToServerImpl with PeerConnectionClient::Connect.
ConnectToServer(e) ==
  IF e.st # "off" THEN e ELSE Ask([e EXCEPT !.st = "signing_in", !.left = FALSE], "sign_in")

-----------------------------------------------------------------------------
SessionInit ==
  /\ Init
  /\ client = [c \in Clients |-> NewClient]
  /\ used = [u \in Uses |-> 0]

Use(u) ==
  /\ used' = [used EXCEPT ![u] = @ + 1]
  /\ \E l \in Limits : \A v \in Uses : used'[v] <= l[v]

Becomes(c, e) == client' = [client EXCEPT ![c] = e]

(***************************************************************************)
(* The server's steps.  What it sent gets to a client whose connection is  *)
(* still open.                                                             *)
(***************************************************************************)
Receive(e, c, out) ==
  LET w == <<c, "wait", e.id>>
  IN  [e EXCEPT !.reply = IF <<c, "control">> \in DOMAIN out
                          THEN <<out[<<c, "control">>]>> ELSE @,
                !.note  = IF e.wait = "held" /\ w \in DOMAIN out
                          THEN <<out[w]>> ELSE @]

\* The clients are cs apart from what the server sends in the step.
Deliver(cs) ==
  /\ client' = [c \in Clients |-> Receive(cs[c], c, sent')]
  /\ UNCHANGED used

Handle(s, r) ==
  \/ r.op = "sign_in" /\ SignIn(s)
  \/ r.op # "sign_in" /\ Unknown(s, r.id)
  \/ r.op = "message" /\ Message(s, r.id, r.to, r.body)
  \/ r.op = "hangup" /\ HangUp(s, r.id)
  \/ r.op = "hangup_confirm" /\ HangUpConfirm(s, r.id)
  \/ r.op = "sign_out" /\ SignOut(s, r.id)

Poll(s, id) == Wait(s, id) \/ Unknown(s, id)

ServeControl(c) ==
  /\ client[c].ctl # <<>> /\ client[c].reply = <<>>
  /\ Handle(<<c, "control">>, client[c].ctl[1])
  /\ Deliver(client)

ServeWait(c) ==
  LET e == client[c]
  IN  /\ e.wait = "asked"
      /\ \A d \in e.dead : d[1] # e.id
      /\ Poll(<<c, "wait", e.id>>, e.id)
      /\ Deliver([client EXCEPT ![c].wait = "held"])

\* A request whose connection the client has closed.
ServeClosed(c) ==
  \E r \in client[c].stray :
    /\ Handle(<<c, "closed">>, r)
    /\ Deliver([client EXCEPT ![c].stray = @ \ {r}])

\* ... and one that never got to the server; a confirmation always does, its
\* socket blocks until the request is sent.
DropClosed(c) ==
  \E r \in client[c].stray :
    /\ r.op # "hangup_confirm"
    /\ Becomes(c, [client[c] EXCEPT !.stray = @ \ {r}])
    /\ UNCHANGED <<channel, used>>

\* A hanging get that the client has closed.
ServeDeadWait(c) ==
  \E d \in client[c].dead :
    LET s == <<c, "wait", d[1]>>
        e == [client EXCEPT ![c].dead = @ \ {d}]
    IN  \/ /\ d[2] = "asked" /\ Poll(s, d[1])
           /\ Deliver([e EXCEPT ![c].dead = @ \cup {<<d[1], "held">>}])
        \/ CloseSocket(s) /\ Deliver(e)

\* A client that polls does so well within 30 seconds.
Expire(id) ==
  /\ CheckForTimeout(id)
  /\ \A c \in Clients : client[c].id = id => client[c].wait = "none"
  /\ Deliver(client)

-----------------------------------------------------------------------------
(***************************************************************************)
(* The client's steps.                                                     *)
(***************************************************************************)
ReadControl(c) ==
  /\ client[c].reply # <<>>
  /\ Becomes(c, OnRead(client[c]))
  /\ UNCHANGED <<channel, used>>

ReadWait(c) ==
  /\ client[c].note # <<>>
  /\ Becomes(c, OnHangingGetRead(client[c]))
  /\ UNCHANGED <<channel, used>>

\* OnSuccess or OnFailure of CreateOffer and CreateAnswer.
Described(c) ==
  LET e == client[c]
      f == [e EXCEPT !.jobs = Tail(@)]
  IN  /\ e.jobs # <<>>
      /\ \/ Becomes(c, SendMessage([f EXCEPT !.gather = TRUE], Head(e.jobs)))
         \/ Head(e.jobs) = "answer" /\ Becomes(c, f)
      /\ UNCHANGED <<channel, used>>

OnIceCandidate(c) ==
  /\ client[c].gather
  /\ Use("candidate")
  /\ Becomes(c, SendMessage(client[c], "candidate"))
  /\ UNCHANGED channel

\* The task OnPeerDisconnected has posted.
Reconnect(c) ==
  /\ client[c].again
  /\ Becomes(c, ConnectToServer([client[c] EXCEPT !.again = FALSE]))
  /\ UNCHANGED <<channel, used>>

Connect(c) ==
  /\ client[c].st = "off"
  /\ Use("connect")
  /\ Becomes(c, ConnectToServer(client[c]))
  /\ UNCHANGED channel

Disconnect(c) ==
  /\ client[c].id # 0
  /\ Use("disconnect")
  /\ Becomes(c, DisconnectFromServer(client[c]))
  /\ UNCHANGED channel

\* ConnectToPeerImpl, for a peer the user sees.
ConnectToPeer(c) ==
  /\ ~client[c].pc
  /\ Use("call")
  /\ \E p \in client[c].peers \ {client[c].id} :
       Becomes(c, [client[c] EXCEPT !.pc = TRUE, !.peer = p, !.jobs = Append(@, "offer")])
  /\ UNCHANGED channel

\* HangUpImpl with SendHangUp.
UserHangUp(c) ==
  LET e == client[c]
  IN  /\ e.pc
      /\ Use("hangup")
      /\ Becomes(c, IF e.st = "on" THEN Ask(CloseControl(e), "hangup") ELSE e)
      /\ UNCHANGED channel

\* The network closes the hanging get, or the control socket.
LoseWait(c) ==
  LET e == client[c]
  IN  /\ e.wait # "none"
      /\ Use("drop")
      /\ Becomes(c, IF e.st = "on" THEN OpenWait(CloseWait(e)) ELSE CloseWait(e))
      /\ UNCHANGED channel

LoseControl(c) ==
  /\ client[c].ctl # <<>>
  /\ Use("drop")
  /\ Becomes(c, OnMessageSent(CloseControl(client[c])))
  /\ UNCHANGED channel

ServerStep(c) ==
  ServeControl(c) \/ ServeWait(c) \/ ServeClosed(c) \/ ServeDeadWait(c)

ClientStep(c) ==
  ReadControl(c) \/ ReadWait(c) \/ Described(c) \/ Reconnect(c)

UserStep(c) == Connect(c) \/ Disconnect(c) \/ ConnectToPeer(c) \/ UserHangUp(c)

SystemStep ==
  \/ \E c \in Clients : ServerStep(c) \/ ClientStep(c)
  \/ \E id \in Ids : Expire(id)

SessionNext ==
  \/ \E c \in Clients :
       UserStep(c) \/ OnIceCandidate(c) \/ DropClosed(c) \/ LoseWait(c) \/ LoseControl(c)
  \/ SystemStep

SessionSpec == SessionInit /\ [][SessionNext]_session

-----------------------------------------------------------------------------
\* The messages on their way to a client: down the hanging get, and queued.
Mailbox(e) == e.note \o members_[e.id].queue

\* The client i reads in the response r that the member p has left, or is there.
ReadsOf(i, r, p) == r.from = i /\ First(r.body.ids) = p

Left(i, r, p) == ReadsOf(i, r, p) /\ r.body.kind = "left"

There(i, r, p) == ReadsOf(i, r, p) /\ r.body.kind # "left"

\* What the client i will have made of peers when it has read the first n
\* responses in mail.
PeersThen(i, peers, mail, n) ==
  {p \in Ids :
     \/ p \in peers /\ \A k \in 1 .. n : ~Left(i, mail[k], p)
     \/ \E k \in 1 .. n : /\ There(i, mail[k], p)
                          /\ \A j \in k + 1 .. n : ~Left(i, mail[j], p)}

\* A client that is signed in knows every other member, and no one else, once
\* it has read what is on its way to it: no notice is lost, doubled or out of
\* order between the server's queue and the hanging get.  Not when the network
\* has cut a connection, or the member signs out.
PeersKnown ==
  used["drop"] = 0 =>
    \A c \in Clients :
      LET e    == client[c]
          mail == Mailbox(e)
      IN  e.st = "on" /\ Known(e.id) /\ ~e.left
            => PeersThen(e.id, e.peers, mail, Len(mail)) \ {e.id} = DOMAIN members_ \ {e.id}

\* A call is opened by its offer, never by a candidate that has overtaken it,
\* unless a hang-up or the network has cut the connection the offer was on.
OfferOpensCall ==
  [][\A c \in Clients :
       ~client[c].pc /\ client'[c].pc /\ client[c].note # <<>>
         /\ client'[c].note = <<>> /\ used["hangup"] + used["drop"] = 0
         => client[c].note[1].body.kind = "offer"]_session

\* Everything has been handled: neither the server nor a client has anything
\* to do, but for sign-ins beyond MaxId; and no member is about to time out,
\* either.
Stuck(r) == r.op = "sign_in" /\ s_member_id_ = MaxId

Settled ==
  \A c \in Clients :
    LET e == client[c]
    IN  /\ e.reply = <<>> /\ e.note = <<>> /\ e.jobs = <<>> /\ ~e.again
        /\ e.wait # "asked" /\ e.dead = {}
        /\ e.ctl # <<>> => Stuck(e.ctl[1])
        /\ \A r \in e.stray : Stuck(r)

Expiring(id) ==
  TimedOut(members_[id])
    /\ \A c \in Clients : client[c].id = id => client[c].wait = "none"

Quiet == Settled /\ \A id \in DOMAIN members_ : ~Expiring(id)

\* When everything has been handled every client is signed in: one that a
\* hang-up threw out has come back (webrtc_engine.cc:480), whatever the server
\* still held of its old id.  Not one that has signed out, was refused, as for
\* a message to a member that is gone, or was cut off by the network; and not
\* one that MaxId keeps from signing in.
NoneStranded ==
  Settled /\ used["drop"] = 0
    => \A c \in Clients :
         LET e == client[c]
         IN  \/ e.left
             \/ e.st = "on" /\ Known(e.id)
             \/ e.st = "signing_in" /\ e.ctl # <<>> /\ s_member_id_ = MaxId

\* A call ends on both sides (peerconnection/client_arm64/TESTING.md:143), and
\* a member goes with its client.  When all has come to rest no client is
\* still in a call with one that has hung up, signed out or come back under
\* another id, unless the network has cut a connection; and the members that
\* left without signing out have timed out, in a call or not.  A client that has
\* signed out is left out: it may keep its call, as when a message it had still
\* to send finds no connection and the reply to its request is taken for the
\* sign-out's (peer_connection_client.cc:429).
NothingLeftBehind ==
  Quiet =>
    /\ \A i \in DOMAIN members_ : \E c \in Clients : client[c].id = i
    /\ used["drop"] = 0 =>
         \A c \in Clients :
           client[c].peer # 0 /\ ~client[c].left => \E d \in Clients : client[d].id = client[c].peer
=============================================================================
