---------------------------- MODULE PeerChannel ----------------------------
(***************************************************************************)
(* The HTTP signalling server of the older engine (peer_channel.cc and the *)
(* loop of main.cc).  A client signs in, is a member from then on, and     *)
(* keeps one /wait request open, its hanging get: the server answers it    *)
(* with the next message for the member, or leaves it open until there is  *)
(* one.  Every other request is answered at once.                          *)
(*                                                                         *)
(* One thread runs the loop, so the handling of a request is one action.   *)
(* No handler has more than one message for a member.                      *)
(***************************************************************************)
EXTENDS Naturals, Sequences, FiniteSets

CONSTANTS
  Sockets,  \* connections to the server; one carries one request
  Bodies,   \* what members send each other
  MaxId     \* bound on sign-ins

ASSUME ChannelAssumption ==
  /\ MaxId \in Nat
  /\ Bodies \cap {"joined", "left", "list", "hangup_confirm", "busy", "empty",
                  "gone"} = {}
  /\ <<"none">> \notin Sockets

VARIABLES
  members_,      \* id -> ChannelMember
  s_member_id_,
  sent           \* socket -> the response it got in the last step

channel == <<members_, s_member_id_, sent>>

NoSocket == <<"none">>

Ids == 1 .. MaxId

(***************************************************************************)
(* Responses: the status, the id in the Pragma header (0 without one) and  *)
(* the body: a message of a member, or the server's own with the members   *)
(* it lists.                                                               *)
(***************************************************************************)
Body(kind, ids) == [kind |-> kind, ids |-> ids]

Response(status, from, body) == [status |-> status, from |-> from, body |-> body]

\* What one connection gets.
Only(s, response) == [t \in {s} |-> response]

Done == Response(200, 0, Body("empty", {}))

Failed == Response(500, 0, Body("gone", {}))

NewMember == [waiting |-> NoSocket, queue |-> <<>>, partner |-> 0, hungup |-> FALSE]

InCall(m) == m.partner # 0

\* Mutant of TimedOut: a member in a call does not time out.
TimedOutIdle(m) == m.waiting = NoSocket /\ ~InCall(m)

\* No hanging get for more than 30 seconds.
TimedOut(m) == m.waiting = NoSocket

Known(id) == id \in DOMAIN members_

(***************************************************************************)
(* QueueResponse for every member in the domain of out: down its hanging   *)
(* get if there is one, into its queue if not.                             *)
(***************************************************************************)

\* Mutant of Posted: a message that finds no hanging get waits for the next
\* one in front of those that came before it.
PostedFirst(ms, out) ==
  [i \in DOMAIN ms |->
     IF i \notin DOMAIN out THEN ms[i]
     ELSE IF ms[i].waiting # NoSocket THEN [ms[i] EXCEPT !.waiting = NoSocket]
     ELSE [ms[i] EXCEPT !.queue = <<out[i]>> \o @]]

Posted(ms, out) ==
  [i \in DOMAIN ms |->
     IF i \notin DOMAIN out THEN ms[i]
     ELSE IF ms[i].waiting # NoSocket THEN [ms[i] EXCEPT !.waiting = NoSocket]
     ELSE [ms[i] EXCEPT !.queue = Append(@, out[i])]]

Served(ms, out) == {i \in DOMAIN ms \cap DOMAIN out : ms[i].waiting # NoSocket}

Answered(ms, out) ==
  [s \in {ms[i].waiting : i \in Served(ms, out)} |->
     out[CHOOSE i \in Served(ms, out) : ms[i].waiting = s]]

\* The members become ms once the messages out are queued to them; the request
\* itself, on socket s, is answered by reply.
Respond(s, reply, ms, out) ==
  /\ members_' = Posted(ms, out)
  /\ sent' = LET answered == Answered(ms, out)
             IN  [t \in DOMAIN answered \cup {s} |-> IF t = s THEN reply ELSE answered[t]]

\* BroadcastChangedState: the header of a notice is the receiver's own id.
Notices(ms, kind, ids) ==
  [i \in DOMAIN ms |-> Response(200, i, Body(kind, ids))]

With(ms, id) == [i \in DOMAIN ms \cup {id} |-> IF i = id THEN NewMember ELSE ms[i]]

Without(ms, id) == [i \in DOMAIN ms \ {id} |-> ms[i]]

Free(s) == \A i \in DOMAIN members_ : members_[i].waiting # s

-----------------------------------------------------------------------------
Init == members_ = <<>> /\ s_member_id_ = 0 /\ sent = <<>>

\* A request that names no member: HandleBrowserRequest, or "Peer most likely
\* gone".
Unknown(s, id) ==
  /\ Free(s)
  /\ ~Known(id)
  /\ sent' = Only(s, Failed)
  /\ UNCHANGED <<members_, s_member_id_>>

\* AddMember: everyone is told, and the new member gets the list of all.
SignIn(s) ==
  LET id == s_member_id_ + 1
      ms == With(members_, id)
  IN  /\ Free(s)
      /\ id \in Ids
      /\ s_member_id_' = id
      /\ Respond(s, Response(200, id, Body("list", DOMAIN ms)), ms,
                 Notices(members_, "joined", {id}))

\* Mutant of Wait: the socket is kept even when it has been answered.
WaitKeepsSocket(s, id) ==
  /\ Free(s)
  /\ Known(id)
  /\ LET q == members_[id].queue
     IN  /\ members_' = [members_ EXCEPT ![id].queue = IF q = <<>> THEN q ELSE Tail(q),
                                         ![id].waiting = s]
         /\ sent' = IF q = <<>> THEN <<>> ELSE Only(s, Head(q))
  /\ UNCHANGED s_member_id_

\* Lookup with SetWaitingSocket: the hanging get.
Wait(s, id) ==
  /\ Free(s)
  /\ Known(id)
  /\ LET q == members_[id].queue
     IN  IF q = <<>>
         THEN members_' = [members_ EXCEPT ![id].waiting = s] /\ sent' = <<>>
         ELSE members_' = [members_ EXCEPT ![id].queue = Tail(q)] /\ sent' = Only(s, Head(q))
  /\ UNCHANGED s_member_id_

\* ForwardRequestToPeer: an echo to oneself, BUSY for a target that is in a
\* call with another, and otherwise both are in a call from now on.
Message(s, id, to, body) ==
  /\ Free(s)
  /\ Known(id)
  /\ LET m == Response(200, id, Body(body, {}))
     IN  IF ~Known(to) THEN Respond(s, Failed, members_, <<>>)
         ELSE IF to = id THEN Respond(s, m, members_, <<>>)
         ELSE IF members_[to].partner \notin {0, id}
              THEN Respond(s, [m EXCEPT !.body = Body("busy", {})], members_, <<>>)
         ELSE Respond(s, Done,
                      [members_ EXCEPT ![id].partner = to, ![to].partner = id],
                      [i \in {to} |-> m])
  /\ UNCHANGED s_member_id_

\* HandleHangUp: both parties are asked to confirm, the one that hangs up has.
HangUp(s, id) ==
  /\ Free(s)
  /\ Known(id)
  /\ LET p == members_[id].partner
         confirm(from) == Response(200, from, Body("hangup_confirm", {}))
     IN  IF ~InCall(members_[id]) THEN Respond(s, Done, members_, <<>>)
         ELSE Respond(s, Done, [members_ EXCEPT ![id].hungup = TRUE],
                      [i \in {id, p} |-> confirm(IF i = id THEN p ELSE id)])
  /\ UNCHANGED s_member_id_

\* HandleHangUpConfirm: with both confirmations the call is over, and
\* everyone gets the list of members.
HangUpConfirm(s, id) ==
  /\ Free(s)
  /\ Known(id)
  /\ LET p    == members_[id].partner
         ms   == [members_ EXCEPT ![id].hungup = TRUE]
         idle == [i \in DOMAIN members_ |->
                    IF i \in {id, p} THEN [members_[i] EXCEPT !.partner = 0, !.hungup = FALSE]
                    ELSE members_[i]]
     IN  IF ~InCall(members_[id]) THEN Respond(s, Done, members_, <<>>)
         ELSE IF Known(p) /\ ms[p].hungup
              THEN Respond(s, Done, idle,
                           Notices(members_, "list", DOMAIN members_))
         ELSE Respond(s, Done, ms, <<>>)
  /\ UNCHANGED s_member_id_

\* /sign_out and RemoveMember: the partner's call ends whoever it is with.
SignOut(s, id) ==
  /\ Free(s)
  /\ Known(id)
  /\ LET p  == members_[id].partner
         ms == Without(IF Known(p) THEN [members_ EXCEPT ![p].partner = 0] ELSE members_, id)
     IN  Respond(s, Response(200, 0, Body("list", DOMAIN ms)), ms,
                 Notices(ms, "left", {id}))
  /\ UNCHANGED s_member_id_

\* PeerChannel::OnClosing: a hanging get is closed by the client.
CloseSocket(s) ==
  /\ members_' = [i \in DOMAIN members_ |->
                    IF members_[i].waiting = s
                    THEN [members_[i] EXCEPT !.waiting = NoSocket] ELSE members_[i]]
  /\ sent' = <<>>
  /\ UNCHANGED s_member_id_

\* CheckForTimeout.  The partner of the member keeps its call.
CheckForTimeout(id) ==
  /\ Known(id)
  /\ TimedOut(members_[id])
  /\ LET ms  == Without(members_, id)
         out == Notices(ms, "left", {id})
     IN  members_' = Posted(ms, out) /\ sent' = Answered(ms, out)
  /\ UNCHANGED s_member_id_

Request(s, id) ==
  \/ Unknown(s, id)
  \/ Wait(s, id)
  \/ \E to \in Ids, body \in Bodies : Message(s, id, to, body)
  \/ HangUp(s, id)
  \/ HangUpConfirm(s, id)
  \/ SignOut(s, id)

Next ==
  \/ \E s \in Sockets :
       SignIn(s) \/ CloseSocket(s) \/ \E id \in {0} \cup Ids : Request(s, id)
  \/ \E id \in Ids : CheckForTimeout(id)

Spec == Init /\ [][Next]_channel

-----------------------------------------------------------------------------
Responses ==
  [status : {200, 500}, from : 0 .. MaxId,
   body : [kind : Bodies \cup {"joined", "left", "list", "hangup_confirm", "busy",
                               "empty", "gone"},
           ids : SUBSET Ids]]

MemberType ==
  [waiting : Sockets \cup {NoSocket}, queue : Seq(Responses),
   partner : 0 .. MaxId, hungup : BOOLEAN]

\* Types; and an id once given out is at most s_member_id_.
ChannelTypeOK ==
  /\ s_member_id_ \in 0 .. MaxId
  /\ DOMAIN members_ \subseteq 1 .. s_member_id_
  /\ \A i \in DOMAIN members_ : members_[i] \in MemberType

\* RTC_DCHECK(queue_.empty()) of QueueResponse and RTC_DCHECK(!waiting_socket_)
\* of SetWaitingSocket: a member with a hanging get open has nothing queued, so
\* no message is overtaken by a later one.
WaitMeansEmpty ==
  \A i \in DOMAIN members_ : members_[i].waiting # NoSocket => members_[i].queue = <<>>

\* A hanging get is held for one member only: a response never goes down the
\* connection of another member.
OneWaiter ==
  \A i, j \in DOMAIN members_ :
     members_[i].waiting = members_[j].waiting /\ members_[i].waiting # NoSocket => i = j
=============================================================================
