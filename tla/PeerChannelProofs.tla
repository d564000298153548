------------------------- MODULE PeerChannelProofs -------------------------
(***************************************************************************)
(* Proofs about PeerChannel and HttpSession.                               *)
(*                                                                         *)
(* The server's invariant is a property of the members alone,              *)
(* Orderly(members_): it needs no types of the requests, so it holds       *)
(* whatever the clients send.                                              *)
(*                                                                         *)
(* SessInv is the invariant of the session: of the server, of each client, *)
(* of the ids, of the hanging gets and of the notices on their way.  Its   *)
(* proof has a part for what the server's steps give a client (Outcome,    *)
(* Serves), one for what a mailbox makes of its reader's peers             *)
(* (PeersThen), and one for what a client does by itself (Fine, Keeps).    *)
(*                                                                         *)
(* CallInv says why a call opens by its offer: who has been called, who    *)
(* has a call, and what is still on its way between them.                  *)
(***************************************************************************)
EXTENDS HttpSession, WellFoundedInduction, TLAPS

MemberShape(m) ==
  m = [waiting |-> m.waiting, queue |-> m.queue, partner |-> m.partner, hungup |-> m.hungup]

Shaped(ms) ==
  /\ ms = [i \in DOMAIN ms |-> ms[i]]
  /\ \A i \in DOMAIN ms : MemberShape(ms[i])

Empty(ms) == \A i \in DOMAIN ms : ms[i].waiting # NoSocket => ms[i].queue = <<>>

Apart(ms) ==
  \A i, j \in DOMAIN ms : ms[i].waiting = ms[j].waiting /\ ms[i].waiting # NoSocket => i = j

Orderly(ms) == Shaped(ms) /\ Empty(ms) /\ Apart(ms)

\* QueueResponse keeps the members orderly.
LEMMA PostedOrderly ==
  ASSUME NEW ms, NEW out, Orderly(ms)
  PROVE  Orderly(Posted(ms, out))
<1> DEFINE ps == Posted(ms, out)
<1>1. DOMAIN ps = DOMAIN ms
  BY DEF Posted
<1>2. ASSUME NEW i \in DOMAIN ms
      PROVE  /\ MemberShape(ps[i])
             /\ ps[i].waiting \in {ms[i].waiting, NoSocket}
             /\ ps[i].waiting # NoSocket => ps[i].queue = ms[i].queue
  BY <1>2 DEF Posted, Orderly, Shaped, MemberShape
<1>3. ps = [i \in DOMAIN ps |-> ps[i]]
  BY DEF Posted
<1> HIDE DEF ps
<1>4. Shaped(ps)
  BY <1>1, <1>2, <1>3 DEF Shaped
<1>5. Empty(ps)
  BY <1>1, <1>2 DEF Orderly, Empty
<1>6. Apart(ps)
  BY <1>1, <1>2 DEF Orderly, Apart
<1> QED
  BY <1>4, <1>5, <1>6 DEF Orderly, ps

\* So does a change of calls that leaves hanging gets and queues alone, and
\* the departure of members.
LEMMA CallsOrderly ==
  ASSUME NEW ms, NEW ns, Orderly(ms), Shaped(ns), DOMAIN ns \subseteq DOMAIN ms,
         \A i \in DOMAIN ns : ns[i].waiting = ms[i].waiting /\ ns[i].queue = ms[i].queue
  PROVE  Orderly(ns)
  BY DEF Orderly, Empty, Apart

LEMMA RespondOrderly ==
  ASSUME NEW s, NEW reply, NEW ms, NEW out, Orderly(ms), Respond(s, reply, ms, out)
  PROVE  Orderly(members_')
  BY PostedOrderly DEF Respond

\* A member that has just signed in is added.
LEMMA WithOrderly ==
  ASSUME NEW ms, NEW id, Orderly(ms)
  PROVE  Orderly(With(ms, id))
<1> DEFINE ns == With(ms, id)
<1>1. /\ DOMAIN ns = DOMAIN ms \cup {id}
      /\ ns = [i \in DOMAIN ns |-> ns[i]]
      /\ \A i \in DOMAIN ns : ns[i] = IF i = id THEN NewMember ELSE ms[i]
  BY DEF With
<1> HIDE DEF ns
<1>2. MemberShape(NewMember) /\ NewMember.waiting = NoSocket
  BY DEF MemberShape, NewMember
<1>3. Shaped(ns)
  BY <1>1, <1>2 DEF Orderly, Shaped
<1>4. Empty(ns)
  BY <1>1, <1>2 DEF Orderly, Empty
<1>5. Apart(ns)
  BY <1>1, <1>2 DEF Orderly, Apart
<1> QED
  BY <1>3, <1>4, <1>5 DEF Orderly, ns

-----------------------------------------------------------------------------
(* One lemma per handler: the connection and the ids are any values.       *)

LEMMA SignInOrderly ==
  ASSUME NEW s, Orderly(members_), SignIn(s)
  PROVE  Orderly(members_')
BY WithOrderly, RespondOrderly DEF SignIn

LEMMA WaitOrderly ==
  ASSUME NEW s, NEW id, Orderly(members_), Wait(s, id)
  PROVE  Orderly(members_')
<1>1. CASE members_[id].queue = <<>>
  <2>1. members_' = [members_ EXCEPT ![id].waiting = s]
    BY <1>1 DEF Wait
  <2>2. DOMAIN members_' = DOMAIN members_
    BY <2>1
  <2>3. Shaped(members_')
    BY <2>1 DEF Orderly, Shaped, MemberShape
  <2>4. \A i \in DOMAIN members_ :
          /\ members_'[i].queue = members_[i].queue
          /\ members_'[i].waiting = IF i = id THEN s ELSE members_[i].waiting
    BY <2>1 DEF Orderly, Shaped, MemberShape
  <2>5. Empty(members_')
    BY <1>1, <2>2, <2>4 DEF Orderly, Empty
  <2>6. Apart(members_')
    BY <2>2, <2>4 DEF Orderly, Apart, Wait, Free
  <2> QED
    BY <2>3, <2>5, <2>6 DEF Orderly
<1>2. CASE members_[id].queue # <<>>
  <2>1. members_' = [members_ EXCEPT ![id].queue = Tail(@)]
    BY <1>2 DEF Wait
  <2>2. DOMAIN members_' = DOMAIN members_
    BY <2>1
  <2>3. Shaped(members_')
    BY <2>1 DEF Orderly, Shaped, MemberShape
  <2>4. \A i \in DOMAIN members_ :
          /\ i # id => members_'[i].queue = members_[i].queue
          /\ members_'[i].waiting = members_[i].waiting
    BY <2>1 DEF Orderly, Shaped, MemberShape
  <2>5. members_[id].waiting = NoSocket
    BY <1>2 DEF Wait, Known, Orderly, Empty
  <2>6. Empty(members_')
    BY <2>2, <2>4, <2>5 DEF Orderly, Empty
  <2>7. Apart(members_')
    BY <2>2, <2>4 DEF Orderly, Apart
  <2> QED
    BY <2>3, <2>6, <2>7 DEF Orderly
<1> QED
  BY <1>1, <1>2

LEMMA MessageOrderly ==
  ASSUME NEW s, NEW id, NEW to, NEW body, Orderly(members_), Message(s, id, to, body)
  PROVE  Orderly(members_')
<1> DEFINE ns == [members_ EXCEPT ![id].partner = to, ![to].partner = id]
<1>1. Orderly(ns)
  <2>1. Shaped(ns) /\ DOMAIN ns = DOMAIN members_
    BY ZenonT(60) DEF Orderly, Shaped, MemberShape
  <2>2. \A i \in DOMAIN ns :
          ns[i].waiting = members_[i].waiting /\ ns[i].queue = members_[i].queue
    BY DEF Orderly, Shaped, MemberShape
  <2> QED
    BY <2>1, <2>2, CallsOrderly
<1>2. \/ \E r : Respond(s, r, members_, <<>>)
      \/ \E r, out : Respond(s, r, ns, out)
  BY DEF Message
<1> QED
  BY <1>1, <1>2, RespondOrderly

LEMMA HangUpOrderly ==
  ASSUME NEW s, NEW id, Orderly(members_), HangUp(s, id)
  PROVE  Orderly(members_')
<1> DEFINE ns == [members_ EXCEPT ![id].hungup = TRUE]
<1>1. Orderly(ns)
  <2>1. Shaped(ns) /\ DOMAIN ns = DOMAIN members_
    BY DEF Orderly, Shaped, MemberShape
  <2>2. \A i \in DOMAIN ns :
          ns[i].waiting = members_[i].waiting /\ ns[i].queue = members_[i].queue
    BY DEF Orderly, Shaped, MemberShape
  <2> QED
    BY <2>1, <2>2, CallsOrderly
<1>2. \/ \E r : Respond(s, r, members_, <<>>)
      \/ \E r, out : Respond(s, r, ns, out)
  BY DEF HangUp
<1> QED
  BY <1>1, <1>2, RespondOrderly

LEMMA HangUpConfirmOrderly ==
  ASSUME NEW s, NEW id, Orderly(members_), HangUpConfirm(s, id)
  PROVE  Orderly(members_')
<1> DEFINE p  == members_[id].partner
           ns == [members_ EXCEPT ![id].hungup = TRUE]
           ms == [i \in DOMAIN members_ |->
                    IF i \in {id, p} THEN [members_[i] EXCEPT !.partner = 0, !.hungup = FALSE]
                    ELSE members_[i]]
<1>1. Orderly(ns)
  <2>1. Shaped(ns) /\ DOMAIN ns = DOMAIN members_
    BY DEF Orderly, Shaped, MemberShape
  <2>2. \A i \in DOMAIN ns :
          ns[i].waiting = members_[i].waiting /\ ns[i].queue = members_[i].queue
    BY DEF Orderly, Shaped, MemberShape
  <2> QED
    BY <2>1, <2>2, CallsOrderly
<1>2. Orderly(ms)
  <2>1. Shaped(ms) /\ DOMAIN ms = DOMAIN members_
    BY DEF Orderly, Shaped, MemberShape
  <2>2. \A i \in DOMAIN ms :
          ms[i].waiting = members_[i].waiting /\ ms[i].queue = members_[i].queue
    BY DEF Orderly, Shaped, MemberShape
  <2> QED
    BY <2>1, <2>2, CallsOrderly
<1>3. \/ \E r : Respond(s, r, members_, <<>>)
      \/ \E r : Respond(s, r, ns, <<>>)
      \/ \E r, out : Respond(s, r, ms, out)
  BY DEF HangUpConfirm
<1> QED
  BY <1>1, <1>2, <1>3, RespondOrderly

LEMMA SignOutOrderly ==
  ASSUME NEW s, NEW id, Orderly(members_), SignOut(s, id)
  PROVE  Orderly(members_')
<1> DEFINE p  == members_[id].partner
           ns == IF Known(p) THEN [members_ EXCEPT ![p].partner = 0] ELSE members_
           ms == Without(ns, id)
<1>1. /\ Shaped(ns) /\ DOMAIN ns = DOMAIN members_
      /\ \A i \in DOMAIN ns :
           ns[i].waiting = members_[i].waiting /\ ns[i].queue = members_[i].queue
  BY DEF Orderly, Shaped, MemberShape
<1>2. \E r, out : Respond(s, r, ms, out)
  BY DEF SignOut
<1> HIDE DEF ns
<1>3. /\ Shaped(ms) /\ DOMAIN ms \subseteq DOMAIN members_
      /\ \A i \in DOMAIN ms :
           ms[i].waiting = members_[i].waiting /\ ms[i].queue = members_[i].queue
  BY <1>1 DEF Without, Shaped
<1> HIDE DEF ms
<1>4. Orderly(ms)
  BY <1>3, CallsOrderly
<1> QED
  BY <1>2, <1>4, RespondOrderly

LEMMA CloseSocketOrderly ==
  ASSUME NEW s, Orderly(members_), CloseSocket(s)
  PROVE  Orderly(members_')
<1>1. Shaped(members_') /\ DOMAIN members_' = DOMAIN members_
  BY DEF CloseSocket, Orderly, Shaped, MemberShape
<1>2. \A i \in DOMAIN members_ :
        /\ members_'[i].queue = members_[i].queue
        /\ members_'[i].waiting \in {members_[i].waiting, NoSocket}
  BY DEF CloseSocket, Orderly, Shaped, MemberShape
<1>3. Empty(members_')
  BY <1>1, <1>2 DEF Orderly, Empty
<1>4. Apart(members_')
  BY <1>1, <1>2 DEF Orderly, Apart
<1> QED
  BY <1>1, <1>3, <1>4 DEF Orderly

LEMMA CheckForTimeoutOrderly ==
  ASSUME NEW id, Orderly(members_), CheckForTimeout(id)
  PROVE  Orderly(members_')
<1> DEFINE ms == Without(members_, id)
<1>1. Orderly(ms)
  <2>1. /\ Shaped(ms) /\ DOMAIN ms \subseteq DOMAIN members_
        /\ \A i \in DOMAIN ms : ms[i] = members_[i]
    BY DEF Without, Orderly, Shaped
  <2> HIDE DEF ms
  <2> QED
    BY <2>1, CallsOrderly
<1>2. \E out : members_' = Posted(ms, out)
  BY DEF CheckForTimeout
<1> QED
  BY <1>1, <1>2, PostedOrderly

\* A step of the server, for any request.
LEMMA RequestOrderly ==
  ASSUME NEW s, NEW id, Orderly(members_), Request(s, id)
  PROVE  Orderly(members_')
<1>1. CASE Unknown(s, id)
  BY <1>1 DEF Unknown
<1>2. CASE Wait(s, id)
  BY <1>2, WaitOrderly
<1>3. CASE \E to \in Ids, body \in Bodies : Message(s, id, to, body)
  BY <1>3, MessageOrderly
<1>4. CASE HangUp(s, id)
  BY <1>4, HangUpOrderly
<1>5. CASE HangUpConfirm(s, id)
  BY <1>5, HangUpConfirmOrderly
<1>6. CASE SignOut(s, id)
  BY <1>6, SignOutOrderly
<1> QED
  BY <1>1, <1>2, <1>3, <1>4, <1>5, <1>6 DEF Request

LEMMA InitOrderly == Init => Orderly(members_)
<1> SUFFICES ASSUME Init PROVE Orderly(members_)
  OBVIOUS
<1>1. members_ = [i \in {} |-> NewMember]
  BY DEF Init
<1> QED
  BY <1>1 DEF Orderly, Shaped, Empty, Apart

-----------------------------------------------------------------------------
\* The DCHECKs of QueueResponse and SetWaitingSocket: whatever is asked of the
\* server, a member with a hanging get has nothing queued, and no connection
\* serves two members.
THEOREM ChannelOrder == Spec => [](WaitMeansEmpty /\ OneWaiter)
<1>1. Orderly(members_) /\ [Next]_channel => Orderly(members_)'
  <2> SUFFICES ASSUME Orderly(members_), [Next]_channel PROVE Orderly(members_')
    OBVIOUS
  <2>1. CASE \E s \in Sockets : SignIn(s)
    BY <2>1, SignInOrderly
  <2>2. CASE \E s \in Sockets : CloseSocket(s)
    BY <2>2, CloseSocketOrderly
  <2>3. CASE \E s \in Sockets : \E id \in {0} \cup Ids : Request(s, id)
    BY <2>3, RequestOrderly
  <2>4. CASE \E id \in Ids : CheckForTimeout(id)
    BY <2>4, CheckForTimeoutOrderly
  <2>5. CASE UNCHANGED channel
    BY <2>5 DEF channel
  <2> QED
    BY <2>1, <2>2, <2>3, <2>4, <2>5 DEF Next
<1>2. Orderly(members_) => WaitMeansEmpty /\ OneWaiter
  BY DEF Orderly, Empty, Apart, WaitMeansEmpty, OneWaiter
<1> QED
  BY InitOrderly, <1>1, <1>2, PTL DEF Spec

\* Every step of the session changes the server by one of its requests, or not.
LEMMA OrderlyNext ==
  ASSUME Orderly(members_), [SessionNext]_session
  PROVE  Orderly(members_')
<1>1. ASSUME NEW s, NEW r, Handle(s, r)
      PROVE  Orderly(members_')
  BY <1>1, SignInOrderly, MessageOrderly, HangUpOrderly, HangUpConfirmOrderly, SignOutOrderly
     DEF Handle, Unknown
<1>2. ASSUME NEW s, NEW id, Poll(s, id)
      PROVE  Orderly(members_')
  BY <1>2, WaitOrderly DEF Poll, Unknown
<1>3. ASSUME NEW c \in Clients, ServerStep(c)
      PROVE  Orderly(members_')
  BY <1>1, <1>2, <1>3, CloseSocketOrderly
     DEF ServerStep, ServeControl, ServeWait, ServeClosed, ServeDeadWait
<1>4. CASE \E id \in Ids : Expire(id)
  BY <1>4, CheckForTimeoutOrderly DEF Expire
<1>5. ASSUME NEW c \in Clients,
             ClientStep(c) \/ UserStep(c) \/ OnIceCandidate(c) \/ DropClosed(c)
               \/ LoseWait(c) \/ LoseControl(c)
      PROVE  members_' = members_
  BY <1>5 DEF ClientStep, ReadControl, ReadWait, Described, Reconnect, UserStep, Connect,
       Disconnect, ConnectToPeer, UserHangUp, OnIceCandidate, DropClosed, LoseWait,
       LoseControl, channel
<1>6. CASE UNCHANGED session
  BY <1>6 DEF session, channel
<1> QED
  BY <1>3, <1>4, <1>5, <1>6 DEF SessionNext, SystemStep

\* The same in the session, whose clients send what HttpSession says.
THEOREM SessionOrder == SessionSpec => [](WaitMeansEmpty /\ OneWaiter)
<1>1. Orderly(members_) /\ [SessionNext]_session => Orderly(members_)'
  BY OrderlyNext
<1>2. Orderly(members_) => WaitMeansEmpty /\ OneWaiter
  BY DEF Orderly, Empty, Apart, WaitMeansEmpty, OneWaiter
<1> QED
  BY InitOrderly, <1>1, <1>2, PTL DEF SessionSpec, SessionInit

-----------------------------------------------------------------------------
(* Types, for the requests Next enumerates.                                *)

Typed(ms) == \A i \in DOMAIN ms : ms[i] \in MemberType

Typings(out) == \A i \in DOMAIN out : out[i] \in Responses

LEMMA PostedTyped ==
  ASSUME NEW ms, NEW out, Typed(ms), Typings(out)
  PROVE  Typed(Posted(ms, out)) /\ DOMAIN Posted(ms, out) = DOMAIN ms
<1>1. DOMAIN Posted(ms, out) = DOMAIN ms
  BY DEF Posted
<1>2. ASSUME NEW i \in DOMAIN ms, i \in DOMAIN out, ms[i].waiting = NoSocket
      PROVE  Posted(ms, out)[i] \in MemberType
  <2>1. ms[i] \in MemberType /\ out[i] \in Responses
    BY <1>2 DEF Typed, Typings
  <2>2. Append(ms[i].queue, out[i]) \in Seq(Responses)
    BY <2>1 DEF MemberType
  <2> QED
    BY <1>2, <2>1, <2>2 DEF Posted, MemberType
<1>3. ASSUME NEW i \in DOMAIN ms, i \notin DOMAIN out \/ ms[i].waiting # NoSocket
      PROVE  Posted(ms, out)[i] \in MemberType
  BY <1>3 DEF Posted, MemberType, Typed
<1> QED
  BY <1>1, <1>2, <1>3 DEF Typed

\* What the handlers answer and post.
LEMMA ResponseTypes ==
  ASSUME NEW id \in {0} \cup Ids
  PROVE  /\ \A kind \in Bodies \cup {"joined", "left", "list", "hangup_confirm"},
               ids \in SUBSET Ids : Response(200, id, Body(kind, ids)) \in Responses
         /\ Typings(<<>>)
BY ChannelAssumption DEF Response, Body, Responses, Typings, Ids

LEMMA NoticesTyped ==
  ASSUME NEW ms, DOMAIN ms \subseteq Ids, NEW ids \in SUBSET Ids,
         NEW kind \in {"joined", "left", "list"}
  PROVE  Typings(Notices(ms, kind, ids))
<1>1. ASSUME NEW i \in DOMAIN ms
      PROVE  Response(200, i, Body(kind, ids)) \in Responses
  BY <1>1, ResponseTypes, ZenonT(60)
<1> QED
  BY <1>1 DEF Notices, Typings

LEMMA RespondTyped ==
  ASSUME NEW s, NEW reply, NEW ms, NEW out, Respond(s, reply, ms, out), Typed(ms),
         Typings(out)
  PROVE  Typed(members_') /\ DOMAIN members_' = DOMAIN ms
BY PostedTyped DEF Respond

LEMMA NextTyped == ChannelTypeOK /\ [Next]_channel => ChannelTypeOK'
<1> SUFFICES ASSUME ChannelTypeOK, [Next]_channel PROVE ChannelTypeOK'
  OBVIOUS
<1> USE ChannelAssumption
<1>1. Typed(members_) /\ DOMAIN members_ \subseteq Ids
  BY DEF ChannelTypeOK, Typed, Ids
<1>2. ASSUME Typed(members_'), DOMAIN members_' \subseteq DOMAIN members_,
             UNCHANGED s_member_id_
      PROVE  ChannelTypeOK'
  BY <1>2 DEF ChannelTypeOK, Typed
<1>3. ASSUME NEW s \in Sockets, SignIn(s)
      PROVE  ChannelTypeOK'
  <2> DEFINE id == s_member_id_ + 1
             ms == With(members_, id)
             out == Notices(members_, "joined", {id})
  <2>1. id \in Ids /\ s_member_id_' = id /\ \E r : Respond(s, r, ms, out)
    BY <1>3 DEF SignIn
  <2>2. NewMember \in MemberType
    BY DEF NewMember, MemberType
  <2>3. Typed(ms) /\ DOMAIN ms = DOMAIN members_ \cup {id}
    BY <1>1, <2>2 DEF With, Typed
  <2>4. Typings(out)
    BY <1>1, <2>1, NoticesTyped
  <2> HIDE DEF ms, out
  <2>5. Typed(members_') /\ DOMAIN members_' = DOMAIN ms
    BY <2>1, <2>3, <2>4, RespondTyped
  <2> QED
    BY <2>1, <2>3, <2>5 DEF ChannelTypeOK, Typed, Ids
<1>4. ASSUME NEW s \in Sockets, CloseSocket(s)
      PROVE  ChannelTypeOK'
  BY <1>1, <1>2, <1>4 DEF CloseSocket, Typed, MemberType
<1>5. ASSUME NEW s \in Sockets, NEW id \in {0} \cup Ids, Wait(s, id)
      PROVE  ChannelTypeOK'
  <2>1. /\ DOMAIN members_' = DOMAIN members_
        /\ \A i \in DOMAIN members_ \ {id} : members_'[i] = members_[i]
    BY <1>5 DEF Wait
  <2>2. id \in DOMAIN members_ /\ members_[id] \in MemberType
    BY <1>1, <1>5 DEF Wait, Known, Typed
  <2>3. CASE members_[id].queue = <<>>
    <3>1. members_'[id] = [members_[id] EXCEPT !.waiting = s]
      BY <1>5, <2>2, <2>3 DEF Wait
    <3>2. members_'[id] \in MemberType
      BY <2>2, <3>1 DEF MemberType
    <3> QED
      BY <1>1, <1>2, <1>5, <2>1, <3>2 DEF Typed, Wait
  <2>4. CASE members_[id].queue # <<>>
    <3>1. members_'[id] = [members_[id] EXCEPT !.queue = Tail(members_[id].queue)]
      BY <1>5, <2>2, <2>4 DEF Wait
    <3>2. Tail(members_[id].queue) \in Seq(Responses)
      BY <2>2, <2>4 DEF MemberType
    <3>3. members_'[id] \in MemberType
      BY <2>2, <3>1, <3>2 DEF MemberType
    <3> QED
      BY <1>1, <1>2, <1>5, <2>1, <3>3 DEF Typed, Wait
  <2> QED
    BY <2>3, <2>4
<1>6. ASSUME NEW s \in Sockets, NEW id \in {0} \cup Ids, NEW to \in Ids, NEW body \in Bodies,
             Message(s, id, to, body)
      PROVE  ChannelTypeOK'
  <2> DEFINE m  == Response(200, id, Body(body, {}))
             ms == [members_ EXCEPT ![id].partner = to, ![to].partner = id]
  <2>1. Typed(ms) /\ DOMAIN ms = DOMAIN members_
    <3>1. DOMAIN ms = DOMAIN members_
      OBVIOUS
    <3>2. \A i \in DOMAIN members_ \ {id, to} : ms[i] = members_[i]
      OBVIOUS
    <3>3. id \in Ids /\ id \in DOMAIN members_
      BY <1>1, <1>6 DEF Message, Known
    <3>4. ASSUME NEW i \in DOMAIN members_ \cap {id, to}
          PROVE  \E q \in {id, to} : ms[i] = [members_[i] EXCEPT !.partner = q]
      <4>1. CASE i = to
        <5>1. id = to => [[members_[to] EXCEPT !.partner = to] EXCEPT !.partner = id]
                           = [members_[to] EXCEPT !.partner = id]
          BY <1>1, <4>1 DEF Typed, MemberType
        <5> QED
          BY <4>1, <5>1
      <4>2. CASE i # to
        BY <4>2
      <4> QED
        BY <4>1, <4>2
    <3>5. \A i \in DOMAIN members_ \cap {id, to} : ms[i] \in MemberType
      <4>1. \A n \in MemberType, q \in Ids : [n EXCEPT !.partner = q] \in MemberType
        BY DEF MemberType, Ids
      <4> SUFFICES ASSUME NEW i \in DOMAIN members_ \cap {id, to}
                   PROVE  ms[i] \in MemberType
        OBVIOUS
      <4>2. PICK q \in {id, to} : ms[i] = [members_[i] EXCEPT !.partner = q]
        BY <3>4
      <4> HIDE DEF ms
      <4>3. q \in Ids /\ members_[i] \in MemberType
        BY <1>1, <1>6, <3>3 DEF Typed
      <4> QED
        BY <4>1, <4>2, <4>3
    <3> HIDE DEF ms
    <3> QED
      BY <1>1, <3>1, <3>2, <3>5 DEF Typed
  <2>2. Typings([i \in {to} |-> m]) /\ Typings(<<>>)
    BY ResponseTypes DEF Typings
  <2>3. \/ \E r : Respond(s, r, members_, <<>>)
        \/ \E r : Respond(s, r, ms, [i \in {to} |-> m])
    BY <1>6 DEF Message
  <2> HIDE DEF ms, m
  <2> QED
    BY <1>1, <1>2, <1>6, <2>1, <2>2, <2>3, RespondTyped DEF Message
<1>7. ASSUME NEW s \in Sockets, NEW id \in {0} \cup Ids, HangUp(s, id)
      PROVE  ChannelTypeOK'
  <2> DEFINE p   == members_[id].partner
             ms  == [members_ EXCEPT ![id].hungup = TRUE]
             out == [i \in {id, p} |->
                       Response(200, IF i = id THEN p ELSE id, Body("hangup_confirm", {}))]
  <2>1. Typed(ms) /\ DOMAIN ms = DOMAIN members_
    BY <1>1, <1>7 DEF Typed, MemberType
  <2>2. p \in {0} \cup Ids
    BY <1>1, <1>7 DEF HangUp, Known, Typed, MemberType, Ids
  <2>3. Typings(out) /\ Typings(<<>>)
    <3>1. \A q \in {0} \cup Ids : Response(200, q, Body("hangup_confirm", {})) \in Responses
      BY ResponseTypes
    <3>2. /\ DOMAIN out = {id, p}
          /\ \A i \in {id, p} :
               out[i] = Response(200, IF i = id THEN p ELSE id, Body("hangup_confirm", {}))
      OBVIOUS
    <3>3. \A i \in {id, p} : (IF i = id THEN p ELSE id) \in {0} \cup Ids
      BY <2>2
    <3> HIDE DEF out, p
    <3>4. Typings(out)
      BY <3>1, <3>2, <3>3, ZenonT(60) DEF Typings
    <3> QED
      BY <3>4, ResponseTypes
  <2>4. \/ \E r : Respond(s, r, members_, <<>>)
        \/ \E r : Respond(s, r, ms, out)
    BY <1>7 DEF HangUp
  <2> HIDE DEF ms, out
  <2> QED
    BY <1>1, <1>2, <1>7, <2>1, <2>3, <2>4, RespondTyped DEF HangUp
<1>8. ASSUME NEW s \in Sockets, NEW id \in {0} \cup Ids, HangUpConfirm(s, id)
      PROVE  ChannelTypeOK'
  <2> DEFINE p   == members_[id].partner
             ns  == [members_ EXCEPT ![id].hungup = TRUE]
             ms  == [i \in DOMAIN members_ |->
                       IF i \in {id, p}
                       THEN [members_[i] EXCEPT !.partner = 0, !.hungup = FALSE]
                       ELSE members_[i]]
             out == Notices(members_, "list", DOMAIN members_)
  <2>1. /\ Typed(ns) /\ DOMAIN ns = DOMAIN members_
        /\ Typed(ms) /\ DOMAIN ms = DOMAIN members_
    <3>1. Typed(ns) /\ DOMAIN ns = DOMAIN members_
      BY <1>1 DEF Typed, MemberType
    <3>2. ASSUME NEW m \in MemberType
          PROVE  [m EXCEPT !.partner = 0, !.hungup = FALSE] \in MemberType
      <4>1. [m EXCEPT !.partner = 0] \in MemberType
        BY DEF MemberType
      <4>2. \A n \in MemberType : [n EXCEPT !.hungup = FALSE] \in MemberType
        BY DEF MemberType
      <4> QED
        BY <4>1, <4>2
    <3> QED
      BY <1>1, <3>1, <3>2 DEF Typed
  <2>2. Typings(out) /\ Typings(<<>>)
    BY <1>1, NoticesTyped, ResponseTypes
  <2>3. \/ \E r : Respond(s, r, members_, <<>>)
        \/ \E r : Respond(s, r, ns, <<>>)
        \/ \E r : Respond(s, r, ms, out)
    BY <1>8 DEF HangUpConfirm
  <2> HIDE DEF ms, ns, out
  <2> QED
    BY <1>1, <1>2, <1>8, <2>1, <2>2, <2>3, RespondTyped DEF HangUpConfirm
<1>9. ASSUME NEW s \in Sockets, NEW id \in {0} \cup Ids, SignOut(s, id)
      PROVE  ChannelTypeOK'
  <2> DEFINE p   == members_[id].partner
             ns  == IF Known(p) THEN [members_ EXCEPT ![p].partner = 0] ELSE members_
             ms  == Without(ns, id)
             out == Notices(ms, "left", {id})
  <2>1. Typed(ns) /\ DOMAIN ns = DOMAIN members_
    <3>1. \A m \in MemberType : [m EXCEPT !.partner = 0] \in MemberType
      BY ChannelAssumption DEF MemberType
    <3>2. CASE Known(p)
      <4>1. p \in DOMAIN members_ /\ ns = [members_ EXCEPT ![p] = [members_[p] EXCEPT !.partner = 0]]
        BY <3>2 DEF Known
      <4> HIDE DEF p, ns
      <4> QED
        BY <1>1, <3>1, <4>1 DEF Typed
    <3>3. CASE ~Known(p)
      BY <1>1, <3>3
    <3> QED
      BY <3>2, <3>3
  <2>2. Typed(ms) /\ DOMAIN ms \subseteq DOMAIN members_
    BY <2>1 DEF Without, Typed
  <2>3. id \in Ids
    BY <1>1, <1>9 DEF SignOut, Known
  <2>4. Typings(out)
    BY <1>1, <2>2, <2>3, NoticesTyped
  <2>5. \E r : Respond(s, r, ms, out)
    BY <1>9 DEF SignOut
  <2> HIDE DEF ms, out
  <2> QED
    BY <1>2, <1>9, <2>2, <2>4, <2>5, RespondTyped DEF SignOut
<1>10. ASSUME NEW id \in Ids, CheckForTimeout(id)
       PROVE  ChannelTypeOK'
  <2> DEFINE ms  == Without(members_, id)
             out == Notices(ms, "left", {id})
  <2>1. Typed(ms) /\ DOMAIN ms \subseteq DOMAIN members_
    BY <1>1 DEF Without, Typed
  <2>2. Typings(out)
    BY <1>1, <2>1, NoticesTyped
  <2>3. members_' = Posted(ms, out)
    BY <1>10 DEF CheckForTimeout
  <2> HIDE DEF ms, out
  <2> QED
    BY <1>2, <1>10, <2>1, <2>2, <2>3, PostedTyped DEF CheckForTimeout
<1>11. ASSUME NEW s, NEW id, Unknown(s, id) \/ UNCHANGED channel
       PROVE  ChannelTypeOK'
  BY <1>11 DEF Unknown, channel, ChannelTypeOK
<1> QED
  BY <1>3, <1>4, <1>5, <1>6, <1>7, <1>8, <1>9, <1>10, <1>11 DEF Next, Request

\* The types of the server's state, for any number of members and connections.
THEOREM ChannelTypes == Spec => []ChannelTypeOK
<1>1. Init => ChannelTypeOK
  BY ChannelAssumption DEF Init, ChannelTypeOK
<1> QED
  BY <1>1, NextTyped, PTL DEF Spec

-----------------------------------------------------------------------------
(***************************************************************************)
(* The clients of HttpSession.                                             *)
(***************************************************************************)
Ops == {"sign_in", "message", "hangup", "hangup_confirm", "sign_out"}

Requests == [op : Ops, id : {0} \cup Ids, to : {0} \cup Ids, body : {""} \cup Bodies]

AtMostOne(S) == {<<>>} \cup {<<x>> : x \in S}

ClientType ==
  [st : {"off", "signing_in", "on", "out", "out_waiting"}, id : {0} \cup Ids,
   peers : SUBSET Ids, ctl : AtMostOne(Requests), reply : AtMostOne(Responses),
   wait : {"none", "asked", "held"}, note : AtMostOne(Responses),
   stray : SUBSET Requests, dead : SUBSET (Ids \X {"asked", "held"}),
   peer : {0} \cup Ids, pc : BOOLEAN, jobs : Seq({"offer", "answer"}), gather : BOOLEAN,
   pending : Seq(Bodies), again : BOOLEAN, left : BOOLEAN]

\* The requests of e that the server still has to see.
Asked(e) == e.stray \cup {e.ctl[k] : k \in DOMAIN e.ctl}

\* A client without an id has no call and no hanging get.
Unsigned(e) ==
  /\ e.id = 0 <=> e.st \in {"off", "signing_in"}
  /\ e.id = 0 => /\ e.wait = "none" /\ e.peers = {} /\ ~e.pc /\ e.peer = 0
                 /\ e.jobs = <<>> /\ ~e.gather /\ e.pending = <<>>

\* The control socket and the requests on it.
Controls(e) ==
  /\ e.st = "off" => e.ctl = <<>>
  /\ e.reply # <<>> => e.ctl # <<>>
  /\ e.reply # <<>> /\ e.id = 0 => e.reply[1].status = 200 /\ e.reply[1].from # 0
  /\ e.ctl # <<>> => (e.ctl[1].op = "sign_in" <=> e.st = "signing_in") /\ e.ctl[1].id = e.id

Asks(e) ==
  \A r \in Asked(e) : /\ r.op = "message" => r.to # 0 /\ r.body # ""
                      /\ r.op = "sign_out" => r.id # 0 /\ (r.id # e.id \/ e.left)

States(e) ==
  /\ e.st \in {"out", "out_waiting"} => e.left /\ e.wait = "none"
  /\ e.st = "off" /\ ~e.left => e.again

\* A notice for i says who it is about.
Notice(i, r) == r.from = i => r.body.ids # {}

\* Its hanging get.
Waits(e) ==
  /\ e.wait # "held" => e.note = <<>>
  /\ e.note # <<>> => Notice(e.id, e.note[1])
  /\ e.wait = "held" => \A d \in e.dead : d[1] # e.id

Alone(e) ==
  e \in ClientType /\ Unsigned(e) /\ Controls(e) /\ Asks(e) /\ States(e) /\ Waits(e)

\* The same if the network cuts no connection.
Uncut(e) ==
  /\ ~e.left => \A d \in e.dead : d[1] # e.id
  /\ e.st = "signing_in" => e.ctl # <<>>
  /\ e.st = "on" /\ ~e.left => e.wait # "none"

NoDrop == used["drop"] = 0

ClientsOK ==
  \A c \in Clients : Alone(client[c]) /\ (NoDrop => Uncut(client[c]))

-----------------------------------------------------------------------------
\* The id that the answer to a sign-in brings.
Given(e) == IF e.id = 0 /\ e.reply # <<>> THEN {e.reply[1].from} ELSE {}

\* It is a new one.
Fresh(e) ==
  \A i \in Given(e) : (\A d \in e.dead : d[1] # i) /\ (\A r \in Asked(e) : r.id # i)

\* The ids a client has, or has had while something of it is under way.
Holds(e) ==
  ({e.id} \cup {d[1] : d \in e.dead} \cup {r.id : r \in Asked(e)} \cup Given(e)) \ {0}

IdsOK ==
  /\ \A c \in Clients : Holds(client[c]) \subseteq 1 .. s_member_id_
  /\ \A c, d \in Clients : c # d => Holds(client[c]) \cap Holds(client[d]) = {}
  /\ \A c \in Clients : Fresh(client[c])

Gets(c, i) == <<c, "wait", i>>

Held(e, i) == e.id = i /\ e.wait = "held" /\ e.note = <<>>

\* The server holds the hanging gets of clients only,
WaitersOK ==
  \A i \in DOMAIN members_ : members_[i].waiting # NoSocket =>
    \E c \in Clients : /\ members_[i].waiting = Gets(c, i)
                       /\ Held(client[c], i) \/ <<i, "held">> \in client[c].dead

\* and every one that has not been answered.
GetsOK ==
  NoDrop =>
    \A c \in Clients :
      LET e == client[c] IN
        ~e.left /\ Held(e, e.id) => Known(e.id) /\ members_[e.id].waiting = Gets(c, e.id)

QueuesOK ==
  \A i \in DOMAIN members_ : \A k \in DOMAIN members_[i].queue : Notice(i, members_[i].queue[k])

PartnersOK == \A i \in DOMAIN members_ : members_[i].partner # i

-----------------------------------------------------------------------------
\* What i reads in mail leaves it with the members ms; and a message is from a
\* client it knows by then.
MailOK(i, peers, mail, ms) ==
  /\ PeersThen(i, peers, mail, Len(mail)) \ {i} = ms \ {i}
  /\ \A k \in 1 .. Len(mail) :
       mail[k].from # i /\ mail[k].body.kind # "hangup_confirm" =>
         mail[k].from \in PeersThen(i, peers, mail, k - 1)

\* A client that hears of the members from now on: who it is, whom it knows
\* when it has read what has come down the control socket.
Hears(e) == (e.st = "on" /\ ~e.left) \/ (e.id = 0 /\ e.reply # <<>>)

Self(e) == IF e.id = 0 THEN e.reply[1].from ELSE e.id

Knows(e) == IF e.id = 0 THEN e.reply[1].body.ids \ {Self(e)} ELSE e.peers

MailOf(e, ms, i) == e.note \o ms[i].queue

MailsOK ==
  NoDrop =>
    \A c \in Clients :
      LET e == client[c] IN
        Hears(e) /\ Known(Self(e)) =>
          /\ MailOK(Self(e), Knows(e), MailOf(e, members_, Self(e)), DOMAIN members_)
          /\ e.peer # 0 => e.peer \in e.peers

ServerOK ==
  /\ ChannelTypeOK /\ Orderly(members_) /\ PartnersOK /\ QueuesOK
  /\ used \in [Uses -> Nat] /\ DOMAIN client = Clients

SessInv == ServerOK /\ ClientsOK /\ IdsOK /\ WaitersOK /\ GetsOK /\ MailsOK

-----------------------------------------------------------------------------
(***************************************************************************)
(* What the operations of a client change.                                 *)
(***************************************************************************)
Moves(e, f) ==
  /\ Holds(f) \subseteq Holds(e)
  /\ Fresh(f)
  /\ \A i : (Held(e, i) \/ <<i, "held">> \in e.dead) => Held(f, i) \/ <<i, "held">> \in f.dead
  /\ f.id = 0 /\ f.reply # <<>> => e.id = 0 /\ f.reply = e.reply
  /\ ~f.left /\ f.wait = "held" /\ f.note = <<>> =>
       f.id = e.id /\ ~e.left /\ e.wait = "held" /\ e.note = <<>>

Fine(e, f) == Alone(f) /\ Moves(e, f)

Steady(e, f) ==
  f.st = "on" /\ ~f.left =>
    /\ e.st = "on" /\ ~e.left
    /\ f.id = e.id /\ f.peers = e.peers /\ f.note = e.note
    /\ f.peer \in {0, e.peer} \cup e.peers

Keeps(e, f) == Uncut(e) => Uncut(f)

Apt(e) == Alone(e) /\ Fresh(e)

LEMMA FineSame ==
  ASSUME NEW e, Apt(e)
  PROVE  Fine(e, e) /\ Steady(e, e) /\ Keeps(e, e)
BY DEF Fine, Steady, Keeps, Moves, Apt

LEMMA FineThen ==
  ASSUME NEW e, NEW f, NEW g, Fine(e, f), Fine(f, g)
  PROVE  Fine(e, g)
BY DEF Fine, Moves

LEMMA SteadyThen ==
  ASSUME NEW e, NEW f, NEW g, Steady(e, f), Steady(f, g)
  PROVE  Steady(e, g)
BY DEF Steady

LEMMA FineApt ==
  ASSUME NEW e, NEW f, Fine(e, f)
  PROVE  Apt(f)
BY DEF Fine, Moves, Apt

LEMMA One ==
  ASSUME NEW S, NEW x \in AtMostOne(S)
  PROVE  /\ x # <<>> => x[1] \in S /\ x = <<x[1]>> /\ DOMAIN x = {1}
         /\ x = <<>> => DOMAIN x = {}
BY DEF AtMostOne

LEMMA OneIs ==
  ASSUME NEW S, NEW y \in S
  PROVE  <<y>> \in AtMostOne(S) /\ <<y>> # <<>> /\ <<y>>[1] = y /\ <<>> \in AtMostOne(S)
BY DEF AtMostOne

LEMMA AskedIs ==
  ASSUME NEW e \in ClientType
  PROVE  /\ Asked(e) = IF e.ctl = <<>> THEN e.stray ELSE e.stray \cup {e.ctl[1]}
         /\ Asked(e) \subseteq Requests
<1>1. e.ctl \in AtMostOne(Requests) /\ e.stray \subseteq Requests
  BY DEF ClientType
<1>2. CASE e.ctl = <<>>
  BY <1>1, <1>2, One DEF Asked
<1>3. CASE e.ctl # <<>>
  BY <1>1, <1>3, One DEF Asked
<1> QED
  BY <1>2, <1>3

\* The control socket is closed: what was asked on it may still be seen.
LEMMA CloseControlFields ==
  ASSUME NEW e \in ClientType
  PROVE  LET f == CloseControl(e) IN
         /\ f.ctl = <<>> /\ f.reply = <<>>
         /\ f.stray = IF e.reply = <<>> THEN e.stray \cup {e.ctl[i] : i \in DOMAIN e.ctl} ELSE e.stray
         /\ f.st = e.st /\ f.id = e.id /\ f.peers = e.peers /\ f.wait = e.wait /\ f.note = e.note
         /\ f.dead = e.dead /\ f.peer = e.peer /\ f.pc = e.pc /\ f.jobs = e.jobs
         /\ f.gather = e.gather /\ f.pending = e.pending /\ f.again = e.again /\ f.left = e.left
BY DEF CloseControl, ClientType

LEMMA CloseControlType ==
  ASSUME NEW e \in ClientType
  PROVE  CloseControl(e) \in ClientType
<1> DEFINE S == IF e.reply = <<>> THEN e.stray \cup {e.ctl[i] : i \in DOMAIN e.ctl} ELSE e.stray
<1>1. S \in SUBSET Requests
  BY AskedIs DEF Asked, ClientType
<1>2. <<>> \in AtMostOne(Requests) /\ <<>> \in AtMostOne(Responses)
  BY DEF AtMostOne
<1>3. CloseControl(e) = [e EXCEPT !.ctl = <<>>, !.reply = <<>>, !.stray = S]
  BY DEF CloseControl
<1> HIDE DEF S
<1> QED
  BY <1>1, <1>2, <1>3 DEF ClientType

LEMMA CloseControlFine ==
  ASSUME NEW e, Apt(e)
  PROVE  LET f == CloseControl(e) IN
         /\ Fine(e, f) /\ Steady(e, f)
         /\ e.st # "signing_in" => Keeps(e, f)
<1> DEFINE f == CloseControl(e)
<1>1. e \in ClientType
  BY DEF Apt, Alone
<1>2. /\ f \in ClientType /\ f.ctl = <<>> /\ f.reply = <<>> /\ f.stray \subseteq Asked(e)
      /\ f.st = e.st /\ f.id = e.id /\ f.peers = e.peers /\ f.wait = e.wait /\ f.note = e.note
      /\ f.dead = e.dead /\ f.peer = e.peer /\ f.pc = e.pc /\ f.jobs = e.jobs
      /\ f.gather = e.gather /\ f.pending = e.pending /\ f.again = e.again /\ f.left = e.left
  BY <1>1, CloseControlFields, CloseControlType DEF Asked
<1> HIDE DEF f
<1>3. Asked(f) \subseteq Asked(e)
  BY <1>2, AskedIs
<1>4. Alone(f)
  BY <1>2, <1>3 DEF Apt, Alone, Unsigned, Controls, Asks, States, Waits
<1>5. Given(f) = {} /\ Holds(f) \subseteq Holds(e)
  BY <1>2, <1>3 DEF Given, Holds
<1>6. Moves(e, f)
  BY <1>2, <1>5 DEF Moves, Held, Fresh
<1>7. Steady(e, f) /\ (e.st # "signing_in" => Keeps(e, f))
  BY <1>2 DEF Steady, Keeps, Uncut
<1> QED
  BY <1>4, <1>6, <1>7 DEF Fine, f

\* The hanging get is closed.
LEMMA CloseWaitFields ==
  ASSUME NEW e \in ClientType
  PROVE  LET f == CloseWait(e) IN
         /\ f.wait = "none" /\ f.note = <<>>
         /\ f.dead = IF e.wait # "none" /\ e.note = <<>>
                     THEN e.dead \cup {<<e.id, e.wait>>} ELSE e.dead
         /\ f.st = e.st /\ f.id = e.id /\ f.peers = e.peers /\ f.ctl = e.ctl /\ f.reply = e.reply
         /\ f.stray = e.stray /\ f.peer = e.peer /\ f.pc = e.pc /\ f.jobs = e.jobs
         /\ f.gather = e.gather /\ f.pending = e.pending /\ f.again = e.again /\ f.left = e.left
BY DEF CloseWait, ClientType

LEMMA CloseWaitType ==
  ASSUME NEW e \in ClientType, e.id = 0 => e.wait = "none"
  PROVE  CloseWait(e) \in ClientType
<1> DEFINE S == IF e.wait # "none" /\ e.note = <<>> THEN e.dead \cup {<<e.id, e.wait>>} ELSE e.dead
<1>1. S \in SUBSET (Ids \X {"asked", "held"})
  BY DEF ClientType
<1>2. <<>> \in AtMostOne(Responses)
  BY DEF AtMostOne
<1>3. CloseWait(e) = [e EXCEPT !.wait = "none", !.note = <<>>, !.dead = S]
  BY DEF CloseWait
<1> HIDE DEF S
<1> QED
  BY <1>1, <1>2, <1>3 DEF ClientType

LEMMA CloseWaitFine ==
  ASSUME NEW e, Apt(e)
  PROVE  Fine(e, CloseWait(e))
<1> DEFINE f == CloseWait(e)
<1>1. e \in ClientType /\ (e.id = 0 => e.wait = "none")
  BY DEF Apt, Alone, Unsigned
<1>2. /\ f \in ClientType /\ f.wait = "none" /\ f.note = <<>>
      /\ f.dead = IF e.wait # "none" /\ e.note = <<>>
                  THEN e.dead \cup {<<e.id, e.wait>>} ELSE e.dead
      /\ f.st = e.st /\ f.id = e.id /\ f.peers = e.peers /\ f.ctl = e.ctl /\ f.reply = e.reply
      /\ f.stray = e.stray /\ f.peer = e.peer /\ f.pc = e.pc /\ f.jobs = e.jobs
      /\ f.gather = e.gather /\ f.pending = e.pending /\ f.again = e.again /\ f.left = e.left
  BY <1>1, CloseWaitFields, CloseWaitType
<1> HIDE DEF f
<1>3. Asked(f) = Asked(e) /\ Given(f) = Given(e)
  BY <1>2 DEF Asked, Given
<1>4. Alone(f)
  <2>1. Alone(e)
    BY DEF Apt
  <2>2. Unsigned(f)
    BY <1>2, <2>1 DEF Alone, Unsigned
  <2>3. Controls(f)
    BY <1>2, <2>1 DEF Alone, Controls
  <2>4. Asks(f)
    BY <1>2, <1>3, <2>1 DEF Alone, Asks
  <2>5. States(f) /\ Waits(f)
    BY <1>2, <2>1 DEF Alone, States, Waits
  <2> QED
    BY <1>2, <2>2, <2>3, <2>4, <2>5 DEF Alone
<1>5. Fresh(f)
  BY <1>1, <1>2, <1>3 DEF Fresh, Given, Apt, Alone, Controls
<1>6. Holds(f) \subseteq Holds(e)
  BY <1>2, <1>3 DEF Holds
<1>7. Moves(e, f)
  BY <1>2, <1>5, <1>6 DEF Moves, Held, Fresh
<1> QED
  BY <1>4, <1>7 DEF Fine, f

LEMMA ReqFields ==
  ASSUME NEW op, NEW id, NEW to, NEW body
  PROVE  LET r == Req(op, id, to, body) IN
         r.op = op /\ r.id = id /\ r.to = to /\ r.body = body /\ <<r>>[1] = r /\ <<r>> # <<>>
BY DEF Req

\* SignOut by a client that has an id.
LEMMA SignOutFields ==
  ASSUME NEW e \in ClientType, e.id # 0, e.st \notin {"off", "out"}
  PROVE  LET w == CloseWait(e)
             f == ClientSignOut(e) IN
         /\ f.left = TRUE
         /\ w.ctl # <<>> => f.st = "out_waiting" /\ f.ctl = w.ctl
         /\ w.ctl = <<>> => f.st = "out" /\ f.ctl = <<Req("sign_out", w.id, 0, "")>>
         /\ f.id = w.id /\ f.peers = w.peers /\ f.reply = w.reply /\ f.wait = w.wait
         /\ f.note = w.note /\ f.stray = w.stray /\ f.dead = w.dead /\ f.peer = w.peer
         /\ f.pc = w.pc /\ f.jobs = w.jobs /\ f.gather = w.gather /\ f.pending = w.pending
         /\ f.again = w.again
         /\ w \in ClientType => f \in ClientType
<1> DEFINE w == CloseWait(e)
           g == [w EXCEPT !.left = TRUE]
<1>1. w.id # 0 /\ \E z : w = [e EXCEPT !.wait = "none", !.note = <<>>, !.dead = z]
  BY CloseWaitFields DEF CloseWait
<1>2. ClientSignOut(e) = IF g.ctl # <<>> THEN [g EXCEPT !.st = "out_waiting"]
                         ELSE IF g.id = 0 THEN [g EXCEPT !.st = "out"]
                         ELSE Ask([g EXCEPT !.st = "out"], "sign_out")
  BY DEF ClientSignOut
<1> HIDE DEF w
<1>3. g.ctl = w.ctl /\ g.id = w.id
  BY <1>1 DEF ClientType
<1>4. CASE w.ctl # <<>>
  <2>1. ClientSignOut(e) = [g EXCEPT !.st = "out_waiting"]
    BY <1>2, <1>3, <1>4
  <2> QED
    BY <1>1, <1>4, <2>1 DEF ClientType, w
<1>5. CASE w.ctl = <<>>
  <2>1. ClientSignOut(e) = [[g EXCEPT !.st = "out"] EXCEPT !.ctl = <<Req("sign_out", w.id, 0, "")>>]
    BY <1>1, <1>2, <1>3, <1>5 DEF Ask, ClientType
  <2>2. w \in ClientType => <<Req("sign_out", w.id, 0, "")>> \in AtMostOne(Requests)
    BY <1>1, OneIs DEF ClientType, Requests, Req, Ops
  <2> QED
    BY <1>1, <1>5, <2>1, <2>2, ZenonT(60) DEF ClientType, w
<1> QED
  BY <1>4, <1>5

LEMMA SignOutFine ==
  ASSUME NEW e, Apt(e), e.id # 0
  PROVE  LET f == ClientSignOut(e) IN Fine(e, f) /\ Steady(e, f) /\ Keeps(e, f) /\ f.id = e.id
<1>1. CASE e.st \in {"off", "out"}
  BY <1>1, FineSame DEF ClientSignOut
<1>2. CASE e.st \notin {"off", "out"}
  <2> DEFINE w == CloseWait(e)
             f == ClientSignOut(e)
             q == Req("sign_out", w.id, 0, "")
  <2>1. e \in ClientType /\ Fine(e, w) /\ w \in ClientType /\ w.id = e.id /\ w.wait = "none"
    BY CloseWaitFine, CloseWaitFields DEF Apt, Alone, Fine
  <2>2. /\ f \in ClientType /\ f.left = TRUE
        /\ w.ctl # <<>> => f.st = "out_waiting" /\ f.ctl = w.ctl
        /\ w.ctl = <<>> => f.st = "out" /\ f.ctl = <<q>>
        /\ f.id = w.id /\ f.peers = w.peers /\ f.reply = w.reply /\ f.wait = w.wait
        /\ f.note = w.note /\ f.stray = w.stray /\ f.dead = w.dead /\ f.peer = w.peer
        /\ f.pc = w.pc /\ f.jobs = w.jobs /\ f.gather = w.gather /\ f.pending = w.pending
        /\ f.again = w.again
    BY <1>2, <2>1, SignOutFields
  <2>0. q.op = "sign_out" /\ q.id = w.id /\ <<q>>[1] = q /\ <<q>> # <<>>
    BY DEF Req
  <2> HIDE DEF w, f, q
  <2>3. w.id # 0 /\ Apt(w) /\ Alone(w) /\ w.note = <<>>
    BY <2>1, FineApt DEF Fine, Alone, Waits
  <2>4. /\ f.ctl # <<>> /\ f.ctl[1].id = w.id
        /\ f.ctl[1] = w.ctl[1] \/ (w.ctl = <<>> /\ f.ctl[1] = q)
        /\ f.ctl[1].op # "sign_in"
    <3>1. CASE w.ctl # <<>>
      <4>1. w.st = e.st /\ w.st # "signing_in"
        BY <2>1, <2>3, CloseWaitFields DEF Alone, Unsigned, w
      <4>2. Controls(w)
        BY <2>3 DEF Alone
      <4>3. w.ctl[1].op # "sign_in" /\ w.ctl[1].id = w.id
        BY <3>1, <4>1, <4>2 DEF Controls
      <4>4. f.ctl = w.ctl
        BY <2>2, <3>1
      <4> QED
        BY <3>1, <4>3, <4>4
    <3>2. CASE w.ctl = <<>>
      BY <2>2, <3>2, <2>0
    <3> QED
      BY <3>1, <3>2
  <2>5. Asked(f) \subseteq Asked(w) \cup {q}
    BY <2>1, <2>2, <2>4, AskedIs
  <2>6. Asks(f)
    <3>1. \A r \in Asked(w) : /\ r.op = "message" => r.to # 0 /\ r.body # ""
                              /\ r.op = "sign_out" => r.id # 0
      BY <2>3 DEF Alone, Asks
    <3> QED
      BY <2>2, <2>3, <2>5, <3>1, <2>0 DEF Asks
  <2>7. Unsigned(f) /\ States(f) /\ Waits(f)
    BY <2>1, <2>2, <2>3 DEF Alone, Unsigned, States, Waits
  <2>8. Controls(f)
    BY <2>2, <2>3, <2>4 DEF Alone, Controls
  <2>9. Given(f) = {} /\ Holds(f) \subseteq Holds(w)
    BY <2>2, <2>3, <2>5, <2>0 DEF Given, Holds
  <2>10. Moves(w, f)
    BY <2>2, <2>3, <2>9 DEF Moves, Held, Fresh
  <2>11. Fine(e, f)
    BY <2>1, <2>2, <2>6, <2>7, <2>8, <2>10, FineThen DEF Fine, Alone
  <2>12. Steady(e, f) /\ Keeps(e, f)
    BY <2>2 DEF Steady, Keeps, Uncut
  <2> QED
    BY <2>1, <2>2, <2>11, <2>12 DEF f
<1> QED
  BY <1>1, <1>2

\* A change of the call alone.
LEMMA CallFine ==
  ASSUME NEW e, NEW f \in ClientType, Apt(e),
         f.st = e.st, f.id = e.id, f.peers = e.peers, f.ctl = e.ctl, f.reply = e.reply,
         f.wait = e.wait, f.note = e.note, f.stray = e.stray, f.dead = e.dead, f.left = e.left,
         f.again = e.again,
         e.id = 0 => ~f.pc /\ f.peer = 0 /\ f.jobs = <<>> /\ ~f.gather /\ f.pending = <<>>
  PROVE  /\ Fine(e, f) /\ Keeps(e, f)
         /\ f.peer \in {0, e.peer} \cup e.peers => Steady(e, f)
<1>1. Alone(e)
  BY DEF Apt
<1>2. Asked(f) = Asked(e) /\ Given(f) = Given(e)
  BY DEF Asked, Given
<1>3. Unsigned(f)
  BY <1>1 DEF Alone, Unsigned
<1>4. Controls(f)
  BY <1>1 DEF Alone, Controls
<1>5. Asks(f)
  BY <1>1, <1>2 DEF Alone, Asks
<1>6. States(f) /\ Waits(f)
  BY <1>1 DEF Alone, States, Waits
<1>7. Holds(f) = Holds(e)
  BY <1>2 DEF Holds
<1>8. Moves(e, f)
  BY <1>2, <1>7 DEF Moves, Held, Fresh, Apt
<1> QED
  BY <1>3, <1>4, <1>5, <1>6, <1>8 DEF Alone, Fine, Keeps, Uncut, Steady

\* A request is put on the control socket, which has been closed.
LEMMA AskFine ==
  ASSUME NEW e, NEW f \in ClientType, NEW q \in Requests, Apt(e), e.id # 0, e.reply = <<>>,
         f.ctl = <<q>>, f.st = e.st, f.id = e.id, f.peers = e.peers, f.reply = e.reply,
         f.wait = e.wait, f.note = e.note, f.stray = e.stray, f.dead = e.dead, f.left = e.left,
         f.again = e.again, f.pc = e.pc, f.peer = e.peer, f.jobs = e.jobs, f.gather = e.gather,
         f.pending = e.pending,
         q.id = e.id, q.op \in {"message", "hangup"},
         q.op = "message" => q.to # 0 /\ q.body # ""
  PROVE  Fine(e, f) /\ Keeps(e, f) /\ Steady(e, f)
<1>1. Alone(e) /\ e \in ClientType
  BY DEF Apt, Alone
<1>0. f.ctl # <<>> /\ f.ctl[1] = q
  <2>1. <<q>> # <<>> /\ <<q>>[1] = q
    OBVIOUS
  <2> QED
    BY <2>1
<1>2. Asked(f) \subseteq Asked(e) \cup {q} /\ Given(f) = {}
  <2>1. Asked(f) = f.stray \cup {f.ctl[1]} /\ e.stray \subseteq Asked(e)
    BY <1>0, <1>1, AskedIs
  <2> QED
    BY <1>0, <2>1 DEF Given
<1>3. Unsigned(f)
  BY <1>1 DEF Alone, Unsigned
<1>4. e.st \notin {"off", "signing_in"}
  BY <1>1 DEF Alone, Unsigned
<1>5. Controls(f)
  BY <1>0, <1>4 DEF Controls
<1>6. \A r \in Asked(e) : /\ r.op = "message" => r.to # 0 /\ r.body # ""
                          /\ r.op = "sign_out" => r.id # 0 /\ (r.id # e.id \/ e.left)
  BY <1>1 DEF Alone, Asks
<1>7. Asks(f)
  BY <1>2, <1>6 DEF Asks
<1>8. States(f) /\ Waits(f)
  BY <1>1 DEF Alone, States, Waits
<1>9. Holds(f) \subseteq Holds(e)
  BY <1>2 DEF Holds
<1>10. Moves(e, f)
  BY <1>2, <1>9 DEF Moves, Held, Fresh, Apt
<1> QED
  BY <1>3, <1>4, <1>5, <1>7, <1>8, <1>10 DEF Alone, Fine, Keeps, Uncut, Steady

Good(e, f) == Fine(e, f) /\ Steady(e, f) /\ Keeps(e, f)

LEMMA GoodThen ==
  ASSUME NEW e, NEW f, NEW g, Good(e, f), Good(f, g)
  PROVE  Good(e, g)
BY FineThen, SteadyThen DEF Good, Keeps

LEMMA SendOrQuitGood ==
  ASSUME NEW e, NEW body \in Bodies, Apt(e)
  PROVE  Good(e, SendOrQuit(e, body)) /\ SendOrQuit(e, body).id = e.id
<1>1. e \in ClientType /\ (e.peer # 0 => e.id # 0) /\ (e.st = "on" => e.id # 0)
  BY DEF Apt, Alone, Unsigned
<1>2. CASE e.peer = 0
  BY <1>2, FineSame DEF SendOrQuit, Good
<1>3. CASE e.peer # 0 /\ e.st # "on"
  BY <1>1, <1>3, SignOutFine DEF SendOrQuit, DisconnectFromServer, Good
<1>4. CASE e.peer # 0 /\ e.st = "on"
  <2> DEFINE d == CloseControl(e)
             q == Req("message", e.id, e.peer, body)
             f == [d EXCEPT !.ctl = <<q>>]
  <2>1. /\ d \in ClientType /\ d.reply = <<>> /\ d.id = e.id /\ d.st = e.st
        /\ Fine(e, d) /\ Steady(e, d) /\ Keeps(e, d)
    BY <1>1, <1>4, CloseControlFields, CloseControlType, CloseControlFine
  <2>2. SendOrQuit(e, body) = f
    BY <1>4 DEF SendOrQuit
  <2>3. /\ q \in Requests /\ q.id = e.id /\ q.op = "message" /\ q.to # 0 /\ q.body # ""
    BY <1>1, <1>4, SessionAssumption DEF Req, Requests, Ops, ClientType
  <2> HIDE DEF d, q
  <2>4. <<q>> \in AtMostOne(Requests)
    BY <2>3, OneIs
  <2>5. /\ f \in ClientType /\ f.ctl = <<q>> /\ f.st = d.st /\ f.id = d.id /\ f.peers = d.peers
        /\ f.reply = d.reply /\ f.wait = d.wait /\ f.note = d.note /\ f.stray = d.stray
        /\ f.dead = d.dead /\ f.left = d.left /\ f.again = d.again /\ f.pc = d.pc
        /\ f.peer = d.peer /\ f.jobs = d.jobs /\ f.gather = d.gather /\ f.pending = d.pending
    BY <2>1, <2>4 DEF ClientType
  <2>6. Apt(d)
    BY <2>1, FineApt
  <2> HIDE DEF f
  <2>7. Good(d, f)
    BY <1>1, <1>4, <2>1, <2>3, <2>5, <2>6, AskFine DEF Good
  <2> QED
    BY <2>1, <2>2, <2>5, <2>7, GoodThen DEF Good
<1> QED
  BY <1>2, <1>3, <1>4

LEMMA SendFrontGood ==
  ASSUME NEW e, Apt(e)
  PROVE  Good(e, SendFront(e)) /\ SendFront(e).id = e.id
<1>1. e \in ClientType
  BY DEF Apt, Alone
<1>2. CASE e.pending = <<>> \/ IsSendingMessage(e)
  BY <1>2, FineSame DEF SendFront, Good
<1>3. CASE ~(e.pending = <<>> \/ IsSendingMessage(e))
  <2> DEFINE f == [e EXCEPT !.pending = Tail(@)]
  <2>1. e.id # 0 /\ Head(e.pending) \in Bodies /\ Tail(e.pending) \in Seq(Bodies)
    BY <1>1, <1>3 DEF Apt, Alone, Unsigned, ClientType
  <2>2. /\ f \in ClientType /\ f.st = e.st /\ f.id = e.id /\ f.peers = e.peers /\ f.ctl = e.ctl
        /\ f.reply = e.reply /\ f.wait = e.wait /\ f.note = e.note /\ f.stray = e.stray
        /\ f.dead = e.dead /\ f.left = e.left /\ f.again = e.again /\ f.peer = e.peer
    BY <1>1, <2>1 DEF ClientType
  <2>3. SendFront(e) = SendOrQuit(f, Head(e.pending))
    BY <1>3 DEF SendFront
  <2> HIDE DEF f
  <2>4. Good(e, f)
    BY <2>1, <2>2, CallFine DEF Good
  <2>5. Good(f, SendOrQuit(f, Head(e.pending))) /\ SendOrQuit(f, Head(e.pending)).id = f.id
    BY <2>1, <2>4, SendOrQuitGood, FineApt DEF Good
  <2> QED
    BY <2>2, <2>3, <2>4, <2>5, GoodThen
<1> QED
  BY <1>2, <1>3

LEMMA SendMessageGood ==
  ASSUME NEW e, NEW body \in Bodies, Apt(e), e.id # 0
  PROVE  Good(e, SendMessage(e, body))
<1> DEFINE f == [e EXCEPT !.pending = Append(@, body)]
<1>1. e \in ClientType
  BY DEF Apt, Alone
<1>2. Append(e.pending, body) \in Seq(Bodies)
  BY <1>1 DEF ClientType
<1>3. /\ f \in ClientType /\ f.st = e.st /\ f.id = e.id /\ f.peers = e.peers /\ f.ctl = e.ctl
      /\ f.reply = e.reply /\ f.wait = e.wait /\ f.note = e.note /\ f.stray = e.stray
      /\ f.dead = e.dead /\ f.left = e.left /\ f.again = e.again /\ f.peer = e.peer
  BY <1>1, <1>2 DEF ClientType
<1>4. SendMessage(e, body) = SendFront(f)
  BY DEF SendMessage
<1> HIDE DEF f
<1>5. Good(e, f)
  BY <1>3, CallFine DEF Good
<1>6. Good(f, SendFront(f))
  BY <1>5, SendFrontGood, FineApt DEF Good
<1> QED
  BY <1>4, <1>5, <1>6, GoodThen

LEMMA OnMessageSentGood ==
  ASSUME NEW e, Apt(e)
  PROVE  Good(e, OnMessageSent(e)) /\ OnMessageSent(e).id = e.id
<1> DEFINE f == SendFront(e)
           g == [f EXCEPT !.peer = 0]
<1>1. Good(e, f) /\ f.id = e.id
  BY SendFrontGood
<1>2. OnMessageSent(e) = IF f.pc THEN f ELSE g
  BY DEF OnMessageSent
<1> HIDE DEF f
<1>3. Apt(f) /\ f \in ClientType
  BY <1>1, FineApt DEF Good, Fine, Alone
<1>4. /\ g \in ClientType /\ g.st = f.st /\ g.id = f.id /\ g.peers = f.peers /\ g.ctl = f.ctl
      /\ g.reply = f.reply /\ g.wait = f.wait /\ g.note = f.note /\ g.stray = f.stray
      /\ g.dead = f.dead /\ g.left = f.left /\ g.again = f.again /\ g.peer = 0
      /\ g.pc = f.pc /\ g.jobs = f.jobs /\ g.gather = f.gather /\ g.pending = f.pending
  BY <1>3 DEF ClientType
<1> HIDE DEF g
<1>5. Good(f, g)
  BY <1>3, <1>4, CallFine DEF Good, Apt, Alone, Unsigned
<1>6. Good(e, g)
  BY <1>1, <1>5, GoodThen
<1> QED
  BY <1>1, <1>2, <1>4, <1>6

\* The client closes both connections and drops its call; left or again says
\* what comes of it.
LEMMA EndGood ==
  ASSUME NEW e, Apt(e), NEW g, NEW x,
         x = CloseWait(CloseControl(e)),
         g \in ClientType, g.left \/ g.again,
         g.st = "off", g.id = 0, g.peers = {}, g.pc = FALSE, g.peer = 0, g.pending = <<>>,
         g.jobs = <<>>, g.gather = FALSE, g.ctl = x.ctl, g.reply = x.reply, g.wait = x.wait,
         g.note = x.note, g.stray = x.stray, g.dead = x.dead
  PROVE  Good(e, g)
<1>1. Fine(e, CloseControl(e)) /\ Apt(CloseControl(e)) /\ CloseControl(e) \in ClientType
  BY CloseControlFine, FineApt DEF Fine, Alone
<1>2. Fine(e, x) /\ Apt(x) /\ Alone(x)
  BY <1>1, CloseWaitFine, FineThen, FineApt DEF Fine
<1>3. CloseControl(e).ctl = <<>> /\ CloseControl(e).reply = <<>>
  BY CloseControlFields DEF Apt, Alone
<1>4. x.ctl = <<>> /\ x.reply = <<>> /\ x.wait = "none" /\ x.note = <<>>
  BY <1>1, <1>3, CloseWaitFields
<1>5. Asked(g) = Asked(x) /\ Given(g) = {}
  BY <1>4 DEF Asked, Given
<1>6. Unsigned(g) /\ Controls(g) /\ States(g) /\ Waits(g)
  BY <1>4 DEF Unsigned, Controls, States, Waits
<1>7. Asks(g)
  BY <1>2, <1>5 DEF Alone, Asks
<1>8. Holds(g) \subseteq Holds(x)
  BY <1>5 DEF Holds
<1>9. Moves(x, g)
  BY <1>4, <1>5, <1>8 DEF Moves, Held, Fresh
<1>10. \A d \in g.dead : d[1] # 0
  BY DEF ClientType, Ids
<1> QED
  BY <1>2, <1>6, <1>7, <1>9, <1>10, FineThen DEF Good, Fine, Alone, Steady, Keeps, Uncut

LEMMA ClosedType ==
  ASSUME NEW e, Apt(e)
  PROVE  CloseWait(CloseControl(e)) \in ClientType
BY CloseControlFine, FineApt, CloseWaitFine DEF Fine, Alone

LEMMA EndFields ==
  ASSUME NEW x \in ClientType
  PROVE  LET g == NoCall([x EXCEPT !.st = "off", !.id = 0, !.peers = {}]) IN
         /\ g \in ClientType /\ g.st = "off" /\ g.id = 0 /\ g.peers = {}
         /\ g.pc = FALSE /\ g.peer = 0
         /\ g.pending = <<>> /\ g.jobs = <<>> /\ g.gather = FALSE /\ g.ctl = x.ctl
         /\ g.reply = x.reply /\ g.wait = x.wait /\ g.note = x.note /\ g.stray = x.stray
         /\ g.dead = x.dead
<1> DEFINE y == [x EXCEPT !.st = "off", !.id = 0, !.peers = {}]
           g == NoCall(y)
<1>1. /\ y \in ClientType /\ y.st = "off" /\ y.id = 0 /\ y.peers = {} /\ y.ctl = x.ctl
      /\ y.reply = x.reply /\ y.wait = x.wait /\ y.note = x.note /\ y.stray = x.stray
      /\ y.dead = x.dead
  BY DEF ClientType
<1> HIDE DEF y
<1>2. <<>> \in Seq(Bodies) /\ <<>> \in Seq({"offer", "answer"})
  OBVIOUS
<1>3. g = [y EXCEPT !.pc = FALSE, !.peer = 0, !.pending = <<>>, !.jobs = <<>>, !.gather = FALSE]
  BY DEF NoCall
<1> HIDE DEF g
<1>4. g \in ClientType
  BY <1>1, <1>2, <1>3, ZenonT(60) DEF ClientType
<1>5. /\ g.pc = FALSE /\ g.peer = 0 /\ g.pending = <<>> /\ g.jobs = <<>> /\ g.gather = FALSE
      /\ g.st = y.st /\ g.id = y.id /\ g.peers = y.peers
  BY <1>1, <1>3 DEF ClientType
<1>6. /\ g.ctl = y.ctl /\ g.reply = y.reply /\ g.wait = y.wait /\ g.note = y.note
      /\ g.stray = y.stray /\ g.dead = y.dead
  BY <1>1, <1>3 DEF ClientType
<1> QED
  BY <1>1, <1>4, <1>5, <1>6 DEF g, y

LEMMA RefusedGood ==
  ASSUME NEW e, Apt(e)
  PROVE  Good(e, Refused(e)) /\ Refused(e).st = "off"
<1> DEFINE x == CloseWait(CloseControl(e))
           g == Refused(e)
           y == NoCall([x EXCEPT !.st = "off", !.id = 0, !.peers = {}])
<1>1. x \in ClientType
  BY ClosedType
<1>2. g = [y EXCEPT !.left = TRUE]
  BY DEF Refused, ClientClose
<1> HIDE DEF x
<1>4. /\ y \in ClientType /\ y.st = "off" /\ y.id = 0 /\ y.peers = {}
      /\ y.pc = FALSE /\ y.peer = 0
      /\ y.pending = <<>> /\ y.jobs = <<>> /\ y.gather = FALSE /\ y.ctl = x.ctl
      /\ y.reply = x.reply /\ y.wait = x.wait /\ y.note = x.note /\ y.stray = x.stray
      /\ y.dead = x.dead
  BY <1>1, EndFields
<1> HIDE DEF y
<1>3. /\ g \in ClientType /\ g.left = TRUE
      /\ g.st = "off" /\ g.id = 0 /\ g.peers = {} /\ g.pc = FALSE /\ g.peer = 0
      /\ g.pending = <<>> /\ g.jobs = <<>> /\ g.gather = FALSE /\ g.ctl = x.ctl
      /\ g.reply = x.reply /\ g.wait = x.wait /\ g.note = x.note /\ g.stray = x.stray
      /\ g.dead = x.dead
  BY <1>2, <1>4 DEF ClientType
<1> HIDE DEF g
<1> QED
  BY <1>3, EndGood DEF x, g

LEMMA ConfirmFine ==
  ASSUME NEW e, Apt(e)
  PROVE  LET h == SendHangUpConfirm(e) IN
         /\ Good(e, h) /\ Apt(h)
         /\ \A r \in Asked(h) : r \in Asked(e) \/ r.op = "hangup_confirm"
<1> DEFINE q == Req("hangup_confirm", e.id, 0, "")
           h == SendHangUpConfirm(e)
<1>1. e \in ClientType /\ Alone(e)
  BY DEF Apt, Alone
<1>2. q \in Requests /\ q.id = e.id /\ q.op = "hangup_confirm"
  BY <1>1 DEF Req, Requests, Ops, ClientType
<1>3. h = [e EXCEPT !.stray = @ \cup {q}]
  BY DEF SendHangUpConfirm
<1> HIDE DEF q
<1>4. /\ h \in ClientType /\ h.stray = e.stray \cup {q}
      /\ h.st = e.st /\ h.id = e.id /\ h.peers = e.peers /\ h.ctl = e.ctl
      /\ h.reply = e.reply /\ h.wait = e.wait /\ h.note = e.note
      /\ h.dead = e.dead /\ h.left = e.left /\ h.again = e.again /\ h.peer = e.peer
      /\ h.pc = e.pc /\ h.jobs = e.jobs /\ h.gather = e.gather /\ h.pending = e.pending
  BY <1>1, <1>2, <1>3 DEF ClientType
<1> HIDE DEF h
<1>5. Asked(h) = Asked(e) \cup {q} /\ Given(h) = Given(e)
  BY <1>4 DEF Asked, Given
<1>6. Asks(h)
  BY <1>1, <1>2, <1>4, <1>5 DEF Alone, Asks
<1>7. Unsigned(h) /\ Controls(h) /\ States(h) /\ Waits(h)
  BY <1>1, <1>4 DEF Alone, Unsigned, Controls, States, Waits
<1>8. Holds(h) \subseteq Holds(e)
  BY <1>2, <1>4, <1>5 DEF Holds
<1>9. Fresh(h)
  <2>1. \A i \in Given(e) : i # e.id
    BY <1>1 DEF Given, Alone, Controls
  <2> QED
    BY <1>2, <1>4, <1>5, <2>1 DEF Fresh, Apt
<1>10. Moves(e, h)
  BY <1>4, <1>5, <1>8, <1>9 DEF Moves, Held
<1>11. Good(e, h)
  BY <1>4, <1>6, <1>7, <1>10 DEF Good, Fine, Alone, Keeps, Uncut, Steady
<1> QED
  BY <1>2, <1>5, <1>11, FineApt DEF Good, h

LEMMA OnPeerDisconnectedGood ==
  ASSUME NEW e, Apt(e), NEW id
  PROVE  LET g == OnPeerDisconnected(e, id) IN
         Good(e, g) /\ IF id = e.peer THEN g.st = "off" ELSE g = e
<1>1. CASE id # e.peer
  BY <1>1, FineSame DEF OnPeerDisconnected, Good
<1>2. CASE id = e.peer
  <2> DEFINE h == SendHangUpConfirm(e)
             x == CloseWait(CloseControl(h))
             y == NoCall([x EXCEPT !.st = "off", !.id = 0, !.peers = {}])
             g == OnPeerDisconnected(e, id)
  <2>1. Good(e, h) /\ Apt(h)
    BY ConfirmFine
  <2>2. g = [y EXCEPT !.again = TRUE]
    BY <1>2 DEF OnPeerDisconnected, ClientClose
  <2> HIDE DEF h
  <2>3. x \in ClientType
    BY <2>1, ClosedType
  <2> HIDE DEF x
  <2>4. /\ y \in ClientType /\ y.st = "off" /\ y.id = 0 /\ y.peers = {}
        /\ y.pc = FALSE /\ y.peer = 0
        /\ y.pending = <<>> /\ y.jobs = <<>> /\ y.gather = FALSE /\ y.ctl = x.ctl
        /\ y.reply = x.reply /\ y.wait = x.wait /\ y.note = x.note /\ y.stray = x.stray
        /\ y.dead = x.dead
    BY <2>3, EndFields
  <2> HIDE DEF y
  <2>5. /\ g \in ClientType /\ g.again = TRUE
        /\ g.st = "off" /\ g.id = 0 /\ g.peers = {} /\ g.pc = FALSE /\ g.peer = 0
        /\ g.pending = <<>> /\ g.jobs = <<>> /\ g.gather = FALSE /\ g.ctl = x.ctl
        /\ g.reply = x.reply /\ g.wait = x.wait /\ g.note = x.note /\ g.stray = x.stray
        /\ g.dead = x.dead
    BY <2>2, <2>4 DEF ClientType
  <2> HIDE DEF g
  <2>6. Good(h, g)
    BY <2>1, <2>5, EndGood DEF x
  <2> QED
    BY <1>2, <2>1, <2>5, <2>6, GoodThen DEF g
<1> QED
  BY <1>1, <1>2

-----------------------------------------------------------------------------
\* A message of the hanging get, read by the client.
Then(e, r) ==
  IF r.from # e.id THEN e.peers
  ELSE IF r.body.kind = "left" THEN e.peers \ {First(r.body.ids)}
  ELSE e.peers \cup {First(r.body.ids)}

Reads(e, n) ==
  LET r == e.note[1] IN
    /\ n.left = e.left /\ n.st = "on" /\ n.id = e.id /\ n.note = <<>> /\ n.wait = "asked"
    /\ n.peers = Then(e, r)
    /\ \/ n.peer = e.peer /\ ~(Left(e.id, r, n.peer))
       \/ n.peer = r.from /\ r.from # e.id /\ r.body.kind # "hangup_confirm"

LEMMA ResponseShape ==
  ASSUME NEW r \in Responses
  PROVE  r.from \in {0} \cup Ids /\ r.body.ids \subseteq Ids
BY ChannelAssumption DEF Responses, Ids

\* There is a least id.
LEMMA LeastId ==
  ASSUME NEW S \in SUBSET Ids, S # {}
  PROVE  First(S) \in S
<1>1. IsWellFoundedOn(OpToRel(<,Nat), Nat)
  BY NatLessThanWellFounded
<1>2. S \subseteq Nat
  BY DEF Ids
<1>3. \E x \in S : \A y \in S : ~(<<y, x>> \in OpToRel(<,Nat))
  BY <1>1, <1>2, WFMin
<1>4. \E x \in S : \A y \in S : ~(y < x)
  BY <1>2, <1>3 DEF OpToRel
<1>5. \E x \in S : \A y \in S : x <= y
  BY <1>2, <1>4
<1> QED
  BY <1>5 DEF First

LEMMA OnNoticeIs ==
  ASSUME NEW e, Apt(e), NEW r \in Responses, r.from = e.id, r.body.ids # {}, e.st = "on",
         e.wait = "asked", e.note = <<>>
  PROVE  LET n == OnNotice(e, r.body) IN
         /\ Fine(e, n) /\ Keeps(e, n)
         /\ \/ n.st = "off"
            \/ /\ n.left = e.left /\ n.st = "on" /\ n.id = e.id /\ n.note = <<>>
               /\ n.wait = "asked" /\ n.peers = Then(e, r)
               /\ n.peer = e.peer /\ ~Left(e.id, r, n.peer)
<1> DEFINE q == First(r.body.ids)
           n == OnNotice(e, r.body)
<1>1. e \in ClientType /\ q \in Ids /\ Alone(e) /\ e.id # 0
  BY LeastId, ResponseShape DEF Apt, Alone, Unsigned
<1> HIDE DEF q
<1>2. ASSUME NEW S \in SUBSET Ids, NEW f, f = [e EXCEPT !.peers = S]
      PROVE  Fine(e, f) /\ Keeps(e, f) /\ f.left = e.left /\ f.st = e.st /\ f.id = e.id
               /\ f.note = e.note /\ f.wait = e.wait /\ f.peers = S /\ f.peer = e.peer
  <2>1. /\ f \in ClientType /\ f.peers = S
        /\ f.st = e.st /\ f.id = e.id /\ f.stray = e.stray /\ f.ctl = e.ctl
        /\ f.reply = e.reply /\ f.wait = e.wait /\ f.note = e.note
        /\ f.dead = e.dead /\ f.left = e.left /\ f.again = e.again /\ f.peer = e.peer
        /\ f.pc = e.pc /\ f.jobs = e.jobs /\ f.gather = e.gather /\ f.pending = e.pending
    BY <1>1, <1>2 DEF ClientType
  <2>2. Asked(f) = Asked(e) /\ Given(f) = Given(e)
    BY <2>1 DEF Asked, Given
  <2>3. Unsigned(f) /\ Controls(f) /\ States(f) /\ Waits(f)
    BY <1>1, <2>1 DEF Alone, Unsigned, Controls, States, Waits
  <2>4. Asks(f)
    BY <1>1, <2>1, <2>2 DEF Alone, Asks
  <2>5. Holds(f) = Holds(e)
    BY <2>1, <2>2 DEF Holds
  <2>6. Moves(e, f)
    BY <2>1, <2>2, <2>5 DEF Moves, Held, Fresh, Apt
  <2> QED
    BY <2>1, <2>3, <2>4, <2>6 DEF Fine, Alone, Keeps, Uncut
<1>3. CASE r.body.kind = "left"
  <2> DEFINE f == [e EXCEPT !.peers = @ \ {q}]
  <2>1. n = OnPeerDisconnected(f, q)
    BY <1>3 DEF OnNotice, q
  <2>2. /\ Fine(e, f) /\ Keeps(e, f) /\ f.left = e.left /\ f.st = e.st /\ f.id = e.id
        /\ f.note = e.note /\ f.wait = e.wait /\ f.peers = e.peers \ {q} /\ f.peer = e.peer
    BY <1>1, <1>2 DEF ClientType
  <2> HIDE DEF f, n
  <2>3. Good(f, n) /\ IF q = f.peer THEN n.st = "off" ELSE n = f
    BY <2>1, <2>2, FineApt, OnPeerDisconnectedGood
  <2>4. Fine(e, n) /\ Keeps(e, n)
    BY <2>2, <2>3, FineThen DEF Good, Keeps
  <2>5. n.st # "off" => n = f /\ n.peer # q
    BY <2>3
  <2>6. Then(e, r) = e.peers \ {q}
    BY <1>3 DEF Then, q
  <2>7. n.peer # q => ~Left(e.id, r, n.peer)
    BY DEF Left, ReadsOf, q
  <2> QED
    BY <2>2, <2>4, <2>5, <2>6, <2>7 DEF n
<1>4. CASE r.body.kind # "left"
  <2>1. n = [e EXCEPT !.peers = @ \cup {q}]
    BY <1>4 DEF OnNotice, q
  <2> HIDE DEF n
  <2>2. /\ Fine(e, n) /\ Keeps(e, n) /\ n.left = e.left /\ n.st = e.st /\ n.id = e.id
        /\ n.note = e.note /\ n.wait = e.wait /\ n.peers = e.peers \cup {q} /\ n.peer = e.peer
    BY <1>1, <1>2, <2>1 DEF ClientType
  <2>3. Then(e, r) = e.peers \cup {q} /\ ~Left(e.id, r, n.peer)
    BY <1>4 DEF Then, q, Left
  <2> QED
    BY <2>2, <2>3 DEF n
<1> QED
  BY <1>3, <1>4

\* The next hanging get is open.
LEMMA WaitsAgain ==
  ASSUME NEW e, Apt(e), e.note # <<>>
  PROVE  LET f == OpenWait([e EXCEPT !.note = <<>>, !.wait = "none"]) IN
         /\ e.wait = "held" /\ e.id # 0 /\ e.st = "on"
         /\ e.note[1] \in Responses /\ Notice(e.id, e.note[1])
         /\ f \in ClientType /\ f.note = <<>> /\ f.wait = "asked"
         /\ f.st = e.st /\ f.id = e.id /\ f.peers = e.peers /\ f.ctl = e.ctl
         /\ f.reply = e.reply /\ f.stray = e.stray
         /\ f.dead = e.dead /\ f.left = e.left /\ f.again = e.again /\ f.peer = e.peer
         /\ f.pc = e.pc /\ f.jobs = e.jobs /\ f.gather = e.gather /\ f.pending = e.pending
         /\ Fine(e, f) /\ Keeps(e, f) /\ Apt(f)
<1> DEFINE r == e.note[1]
           f == OpenWait([e EXCEPT !.note = <<>>, !.wait = "none"])
<1>1. e \in ClientType /\ Alone(e) /\ e.wait = "held" /\ e.id # 0 /\ e.st = "on"
  BY DEF Apt, Alone, Unsigned, Waits, States, ClientType
<1>2. r \in Responses /\ Notice(e.id, r)
  BY <1>1, One DEF ClientType, Alone, Waits
<1>3. /\ f \in ClientType /\ f.note = <<>> /\ f.wait = "asked"
      /\ f.st = e.st /\ f.id = e.id /\ f.peers = e.peers /\ f.ctl = e.ctl
      /\ f.reply = e.reply /\ f.stray = e.stray
      /\ f.dead = e.dead /\ f.left = e.left /\ f.again = e.again /\ f.peer = e.peer
      /\ f.pc = e.pc /\ f.jobs = e.jobs /\ f.gather = e.gather /\ f.pending = e.pending
  <2>1. <<>> \in AtMostOne(Responses)
    BY DEF AtMostOne
  <2> QED
    BY <1>1, <2>1 DEF OpenWait, ClientType
<1> HIDE DEF f, r
<1>4. Asked(f) = Asked(e) /\ Given(f) = Given(e)
  BY <1>3 DEF Asked, Given
<1>5. Unsigned(f) /\ Controls(f) /\ States(f) /\ Waits(f)
  BY <1>1, <1>3 DEF Alone, Unsigned, Controls, States, Waits
<1>6. Asks(f)
  BY <1>1, <1>3, <1>4 DEF Alone, Asks
<1>7. Holds(f) = Holds(e)
  BY <1>3, <1>4 DEF Holds
<1>8. Moves(e, f)
  BY <1>3, <1>4, <1>7 DEF Moves, Held, Fresh, Apt
<1>9. Fine(e, f) /\ Keeps(e, f) /\ Apt(f)
  BY <1>3, <1>5, <1>6, <1>8, FineApt DEF Fine, Alone, Keeps, Uncut
<1> QED
  BY <1>1, <1>2, <1>3, <1>9 DEF f, r

LEMMA OnHangingGetReadIs ==
  ASSUME NEW e, Apt(e), e.note # <<>>
  PROVE  LET n == OnHangingGetRead(e) IN
         /\ e.st = "on" /\ e.id # 0 /\ e.note[1] \in Responses /\ Notice(e.id, e.note[1])
         /\ Fine(e, n) /\ Keeps(e, n) /\ (n.st = "off" \/ Reads(e, n))
<1> DEFINE r == e.note[1]
           f == OpenWait([e EXCEPT !.note = <<>>, !.wait = "none"])
           n == OnHangingGetRead(e)
<1>1. e.id # 0 /\ e.st = "on" /\ r \in Responses /\ Notice(e.id, r)
  BY WaitsAgain
<1>2. n = IF r.status # 200 THEN Refused(f)
          ELSE IF r.from = f.id THEN OnNotice(f, r.body)
          ELSE IF r.body.kind = "hangup_confirm" THEN OnPeerDisconnected(f, r.from)
          ELSE OnMessageFromPeer(f, r.from, r.body.kind)
  BY <1>1 DEF OnHangingGetRead
<1>3. /\ f \in ClientType /\ f.note = <<>> /\ f.wait = "asked"
      /\ f.st = e.st /\ f.id = e.id /\ f.peers = e.peers /\ f.ctl = e.ctl
      /\ f.reply = e.reply /\ f.stray = e.stray
      /\ f.dead = e.dead /\ f.left = e.left /\ f.again = e.again /\ f.peer = e.peer
      /\ f.pc = e.pc /\ f.jobs = e.jobs /\ f.gather = e.gather /\ f.pending = e.pending
      /\ Fine(e, f) /\ Keeps(e, f) /\ Apt(f)
  BY WaitsAgain
<1> HIDE DEF f, n, r
<1> SUFFICES Fine(e, n) /\ Keeps(e, n) /\ (n.st = "off" \/ Reads(e, n))
  BY <1>1 DEF n, r
<1>4. CASE r.status # 200
  BY <1>2, <1>3, <1>4, RefusedGood, FineThen DEF Good, Keeps
<1>5. CASE r.status = 200 /\ r.from = e.id
  <2>1. n = OnNotice(f, r.body) /\ r.body.ids # {}
    BY <1>1, <1>2, <1>3, <1>5 DEF Notice
  <2>2. /\ Fine(f, n) /\ Keeps(f, n)
        /\ \/ n.st = "off"
           \/ /\ n.left = f.left /\ n.st = "on" /\ n.id = f.id /\ n.note = <<>>
              /\ n.wait = "asked" /\ n.peers = Then(f, r)
              /\ n.peer = f.peer /\ ~Left(f.id, r, n.peer)
    BY <1>1, <1>3, <1>5, <2>1, OnNoticeIs
  <2>3. Then(f, r) = Then(e, r)
    BY <1>3 DEF Then
  <2>4. n.st = "off" \/ Reads(e, n)
    BY <1>3, <2>2, <2>3 DEF Reads, r
  <2> QED
    BY <1>3, <2>2, <2>4, FineThen DEF Keeps
<1>6. CASE r.status = 200 /\ r.from # e.id
  <2>1. Then(e, r) = e.peers /\ \A p : ~Left(e.id, r, p)
    BY <1>6 DEF Then, Left, ReadsOf
  <2>2. CASE r.body.kind = "hangup_confirm"
    <3>1. n = OnPeerDisconnected(f, r.from)
      BY <1>2, <1>3, <1>6, <2>2
    <3>2. Good(f, n) /\ (n.st = "off" \/ n = f)
      BY <1>3, <3>1, OnPeerDisconnectedGood
    <3>3. n.st = "off" \/ Reads(e, n)
      BY <1>1, <1>3, <2>1, <3>2 DEF Reads, r
    <3> QED
      BY <1>3, <3>2, <3>3, FineThen DEF Good, Keeps
  <2>3. CASE r.body.kind # "hangup_confirm"
    <3>1. n = OnMessageFromPeer(f, r.from, r.body.kind)
      BY <1>2, <1>3, <1>6, <2>3
    <3>2. CASE f.pc /\ r.from # f.peer
      <4>1. n = f
        BY <3>1, <3>2 DEF OnMessageFromPeer
      <4> QED
        BY <1>1, <1>3, <2>1, <4>1 DEF Reads, r
    <3>3. CASE ~(f.pc /\ r.from # f.peer)
      <4> DEFINE J == IF r.body.kind = "offer" THEN Append(f.jobs, "answer") ELSE f.jobs
      <4>1. n = [f EXCEPT !.pc = TRUE, !.peer = r.from, !.jobs = J]
        BY <3>1, <3>3 DEF OnMessageFromPeer
      <4>2. J \in Seq({"offer", "answer"}) /\ r.from \in {0} \cup Ids
        BY <1>1, <1>3, ResponseShape DEF ClientType
      <4> HIDE DEF J
      <4>3. /\ n \in ClientType /\ n.note = <<>> /\ n.wait = "asked"
            /\ n.st = f.st /\ n.id = f.id /\ n.peers = f.peers /\ n.ctl = f.ctl
            /\ n.reply = f.reply /\ n.stray = f.stray
            /\ n.dead = f.dead /\ n.left = f.left /\ n.again = f.again /\ n.peer = r.from
        BY <1>3, <4>1, <4>2 DEF ClientType
      <4>4. Fine(f, n) /\ Keeps(f, n)
        BY <1>1, <1>3, <4>3, CallFine
      <4>5. Reads(e, n)
        BY <1>1, <1>3, <1>6, <2>1, <2>3, <4>3 DEF Reads, r
      <4> QED
        BY <1>3, <4>4, <4>5, FineThen DEF Keeps
    <3> QED
      BY <3>2, <3>3
  <2> QED
    BY <2>2, <2>3
<1> QED
  BY <1>4, <1>5, <1>6

\* The reply on the control socket is taken; the server has closed it.
LEMMA TakenFields ==
  ASSUME NEW e \in ClientType
  PROVE  LET d == [e EXCEPT !.ctl = <<>>, !.reply = <<>>] IN
         /\ d \in ClientType /\ d.ctl = <<>> /\ d.reply = <<>>
         /\ d.st = e.st /\ d.id = e.id /\ d.peers = e.peers /\ d.wait = e.wait
         /\ d.note = e.note /\ d.stray = e.stray
         /\ d.dead = e.dead /\ d.left = e.left /\ d.again = e.again /\ d.peer = e.peer
         /\ d.pc = e.pc /\ d.jobs = e.jobs /\ d.gather = e.gather /\ d.pending = e.pending
<1>1. <<>> \in AtMostOne(Responses) /\ <<>> \in AtMostOne(Requests)
  BY DEF AtMostOne
<1> QED
  BY <1>1 DEF ClientType

LEMMA TakenFine ==
  ASSUME NEW e, Apt(e)
  PROVE  LET d == [e EXCEPT !.ctl = <<>>, !.reply = <<>>] IN
         Fine(e, d) /\ Steady(e, d) /\ (e.st # "signing_in" => Keeps(e, d))
<1> DEFINE d == [e EXCEPT !.ctl = <<>>, !.reply = <<>>]
<1>1. e \in ClientType /\ Alone(e)
  BY DEF Apt, Alone
<1>2. /\ d \in ClientType /\ d.ctl = <<>> /\ d.reply = <<>>
      /\ d.st = e.st /\ d.id = e.id /\ d.peers = e.peers /\ d.wait = e.wait
      /\ d.note = e.note /\ d.stray = e.stray
      /\ d.dead = e.dead /\ d.left = e.left /\ d.again = e.again /\ d.peer = e.peer
      /\ d.pc = e.pc /\ d.jobs = e.jobs /\ d.gather = e.gather /\ d.pending = e.pending
  BY <1>1, TakenFields
<1> HIDE DEF d
<1>3. Asked(d) \subseteq Asked(e) /\ Given(d) = {}
  BY <1>1, <1>2, AskedIs DEF Given
<1>4. Unsigned(d) /\ Controls(d) /\ States(d) /\ Waits(d)
  BY <1>1, <1>2 DEF Alone, Unsigned, Controls, States, Waits
<1>5. Asks(d)
  BY <1>1, <1>2, <1>3 DEF Alone, Asks
<1>6. Holds(d) \subseteq Holds(e)
  BY <1>2, <1>3 DEF Holds
<1>7. Moves(e, d)
  BY <1>2, <1>3, <1>6 DEF Moves, Held, Fresh, Apt
<1>8. Steady(e, d) /\ (e.st # "signing_in" => Keeps(e, d))
  BY <1>2 DEF Steady, Keeps, Uncut
<1> QED
  BY <1>2, <1>4, <1>5, <1>7, <1>8 DEF Fine, Alone, d

LEMMA OnReadGood ==
  ASSUME NEW e, Apt(e), e.reply # <<>>, e.id # 0
  PROVE  Good(e, OnRead(e))
<1> DEFINE r == e.reply[1]
           d == [e EXCEPT !.ctl = <<>>, !.reply = <<>>]
           f == OnMessageSent(d)
<1>1. Good(e, d) /\ Apt(d) /\ d.id = e.id
  BY TakenFine, TakenFields, FineApt DEF Apt, Alone, Unsigned, Good
<1>2. r \in Responses
  BY One DEF Apt, Alone, ClientType
<1>3. OnRead(e) = IF r.status # 200 THEN Refused(f)
                  ELSE IF f.id = 0
                       THEN OpenWait([f EXCEPT !.id = r.from, !.peers = r.body.ids \ {r.from},
                                               !.st = "on"])
                  ELSE IF f.st = "out"
                       THEN OpenWait([f EXCEPT !.peers = r.body.ids \ {f.id}, !.st = "on"])
                  ELSE IF f.st = "out_waiting" THEN ClientSignOut(f)
                  ELSE f
  BY DEF OnRead
<1> HIDE DEF d, f, r
<1>4. Good(d, f) /\ f.id = e.id
  BY <1>1, OnMessageSentGood DEF f
<1>5. Good(e, f) /\ Apt(f) /\ Alone(f) /\ f \in ClientType
  BY <1>1, <1>4, GoodThen, FineApt DEF Good, Fine, Alone
<1>6. CASE r.status # 200
  BY <1>3, <1>5, <1>6, RefusedGood, GoodThen
<1>7. CASE r.status = 200 /\ f.st = "out"
  <2> DEFINE P == r.body.ids \ {f.id}
             g == OpenWait([f EXCEPT !.peers = P, !.st = "on"])
  <2>1. OnRead(e) = g /\ P \in SUBSET Ids
    BY <1>2, <1>3, <1>4, <1>7, ResponseShape
  <2> HIDE DEF P
  <2>2. /\ g \in ClientType /\ g.peers = P /\ g.st = "on" /\ g.wait = "asked"
        /\ g.ctl = f.ctl /\ g.reply = f.reply /\ g.id = f.id
        /\ g.note = f.note /\ g.stray = f.stray
        /\ g.dead = f.dead /\ g.left = f.left /\ g.again = f.again /\ g.peer = f.peer
        /\ g.pc = f.pc /\ g.jobs = f.jobs /\ g.gather = f.gather /\ g.pending = f.pending
    BY <1>5, <2>1 DEF OpenWait, ClientType
  <2> HIDE DEF g
  <2>3. f.left /\ f.wait = "none" /\ f.note = <<>> /\ f.id # 0
    BY <1>4, <1>5, <1>7 DEF Alone, States, Waits
  <2>4. Asked(g) = Asked(f) /\ Given(g) = Given(f)
    BY <2>2 DEF Asked, Given
  <2>5. Unsigned(g) /\ Controls(g) /\ States(g) /\ Waits(g)
    BY <1>5, <1>7, <2>2, <2>3 DEF Alone, Unsigned, Controls, States, Waits
  <2>6. Asks(g)
    BY <1>5, <2>2, <2>4 DEF Alone, Asks
  <2>7. Holds(g) = Holds(f)
    BY <2>2, <2>4 DEF Holds
  <2>8. Moves(f, g)
    BY <1>5, <2>2, <2>3, <2>4, <2>7 DEF Moves, Held, Fresh, Apt
  <2>9. Good(f, g)
    BY <2>2, <2>3, <2>5, <2>6, <2>8 DEF Good, Fine, Alone, Steady, Keeps, Uncut
  <2> QED
    BY <1>5, <2>1, <2>9, GoodThen
<1>8. CASE r.status = 200 /\ f.st # "out"
  <2>1. OnRead(e) \in {f, ClientSignOut(f)}
    BY <1>3, <1>4, <1>8
  <2>2. Good(f, ClientSignOut(f))
    BY <1>4, <1>5, SignOutFine DEF Good
  <2> QED
    BY <1>5, <2>1, <2>2, GoodThen
<1> QED
  BY <1>6, <1>7, <1>8

\* The answer to a sign-in.
SignsIn(e, n) ==
  /\ n.st = "on" /\ n.left = e.left /\ n.id = e.reply[1].from /\ n.note = <<>>
  /\ n.wait = "asked" /\ n.peer = 0
  /\ n.peers = e.reply[1].body.ids \ {e.reply[1].from}

LEMMA OnReadSignsIn ==
  ASSUME NEW e, Apt(e), e.reply # <<>>, e.id = 0
  PROVE  LET n == OnRead(e) IN
         /\ Fine(e, n) /\ Uncut(n) /\ SignsIn(e, n) /\ e.note = <<>> /\ e.wait = "none"
         /\ n.ctl = <<>> /\ n.reply = <<>> /\ n.stray = e.stray /\ ~n.pc /\ n.jobs = <<>>
         /\ ~n.gather /\ n.pending = <<>>
<1> DEFINE r == e.reply[1]
           d == [e EXCEPT !.ctl = <<>>, !.reply = <<>>]
           f == OnMessageSent(d)
           n == OnRead(e)
           P == r.body.ids \ {r.from}
<1>1. /\ e \in ClientType /\ Alone(e) /\ r.status = 200 /\ r.from # 0
      /\ e.wait = "none" /\ e.note = <<>>
  BY DEF Apt, Alone, Controls, Unsigned, Waits
<1>2. r \in Responses /\ r.from \in Ids /\ P \in SUBSET Ids
  BY <1>1, One, ResponseShape DEF ClientType
<1>3. /\ d \in ClientType /\ d.ctl = <<>> /\ d.reply = <<>>
      /\ d.st = e.st /\ d.id = e.id /\ d.peers = e.peers /\ d.wait = e.wait
      /\ d.note = e.note /\ d.stray = e.stray
      /\ d.dead = e.dead /\ d.left = e.left /\ d.again = e.again /\ d.peer = e.peer
      /\ d.pc = e.pc /\ d.jobs = e.jobs /\ d.gather = e.gather /\ d.pending = e.pending
  BY <1>1, TakenFields
<1>4. n = IF r.status # 200 THEN Refused(f)
                  ELSE IF f.id = 0
                       THEN OpenWait([f EXCEPT !.id = r.from, !.peers = P, !.st = "on"])
                  ELSE IF f.st = "out"
                       THEN OpenWait([f EXCEPT !.peers = r.body.ids \ {f.id}, !.st = "on"])
                  ELSE IF f.st = "out_waiting" THEN ClientSignOut(f)
                  ELSE f
  BY DEF OnRead
<1> HIDE DEF d, n, r, P
<1>5. ~e.pc /\ e.peer = 0 /\ e.jobs = <<>> /\ ~e.gather /\ e.pending = <<>>
  BY <1>1 DEF Alone, Unsigned
<1>6. f = [d EXCEPT !.peer = 0]
  BY <1>3, <1>5 DEF OnMessageSent, SendFront
<1>7. /\ f \in ClientType /\ f.ctl = <<>> /\ f.reply = <<>>
      /\ f.st = e.st /\ f.id = e.id /\ f.peers = e.peers /\ f.wait = e.wait
      /\ f.note = e.note /\ f.stray = e.stray
      /\ f.dead = e.dead /\ f.left = e.left /\ f.again = e.again /\ f.peer = 0
      /\ f.pc = e.pc /\ f.jobs = e.jobs /\ f.gather = e.gather /\ f.pending = e.pending
  BY <1>3, <1>6, SMTT(30) DEF ClientType
<1> HIDE DEF f
<1>8. n = OpenWait([f EXCEPT !.id = r.from, !.peers = P, !.st = "on"])
  BY <1>1, <1>4, <1>7
<1>9. /\ n \in ClientType /\ n.ctl = <<>> /\ n.reply = <<>>
      /\ n.st = "on" /\ n.id = r.from /\ n.peers = P /\ n.wait = "asked"
      /\ n.note = e.note /\ n.stray = e.stray
      /\ n.dead = e.dead /\ n.left = e.left /\ n.again = e.again /\ n.peer = 0
      /\ n.pc = e.pc /\ n.jobs = e.jobs /\ n.gather = e.gather /\ n.pending = e.pending
  BY <1>2, <1>7, <1>8 DEF OpenWait, ClientType
<1>10. Asked(n) \subseteq Asked(e) /\ Given(n) = {} /\ Given(e) = {r.from}
  BY <1>1, <1>9, AskedIs DEF Given, r
<1>11. Unsigned(n) /\ Controls(n) /\ States(n) /\ Waits(n)
  BY <1>1, <1>9 DEF Alone, Unsigned, Controls, States, Waits
<1>12. Asks(n)
  <2>1. \A x \in Asked(e) : x.id # r.from
    BY <1>10 DEF Apt, Fresh
  <2>2. \A x \in Asked(e) : /\ x.op = "message" => x.to # 0 /\ x.body # ""
                            /\ x.op = "sign_out" => x.id # 0
    BY <1>1 DEF Alone, Asks
  <2>3. n.id = r.from /\ Asked(n) \subseteq Asked(e)
    BY <1>9, <1>10
  <2> QED
    BY <2>1, <2>2, <2>3 DEF Asks
<1>13. Holds(n) \subseteq Holds(e)
  BY <1>1, <1>9, <1>10 DEF Holds
<1>14. Moves(e, n)
  BY <1>1, <1>9, <1>10, <1>13 DEF Moves, Held, Fresh
<1>15. Fine(e, n)
  BY <1>9, <1>11, <1>12, <1>14 DEF Fine, Alone
<1>16. Uncut(n)
  BY <1>9, <1>10 DEF Uncut, Apt, Fresh
<1>17. SignsIn(e, n)
  BY <1>1, <1>9 DEF SignsIn, r, P
<1>18. /\ n.ctl = <<>> /\ n.reply = <<>> /\ n.stray = e.stray /\ ~n.pc /\ n.jobs = <<>>
       /\ ~n.gather /\ n.pending = <<>>
  BY <1>5, <1>9
<1> QED
  BY <1>1, <1>15, <1>16, <1>17, <1>18 DEF n

LEMMA DescribedGood ==
  ASSUME NEW e, Apt(e), e.jobs # <<>>, NEW g,
         LET f == [e EXCEPT !.jobs = Tail(@)] IN
           g \in {f, SendMessage([f EXCEPT !.gather = TRUE], Head(e.jobs))}
  PROVE  Good(e, g)
<1> DEFINE f == [e EXCEPT !.jobs = Tail(@)]
           h == [f EXCEPT !.gather = TRUE]
<1>1. /\ e \in ClientType /\ e.id # 0 /\ Tail(e.jobs) \in Seq({"offer", "answer"})
      /\ Head(e.jobs) \in Bodies
  BY SessionAssumption DEF Apt, Alone, Unsigned, ClientType
<1>2. /\ f \in ClientType /\ f.st = e.st /\ f.id = e.id /\ f.peers = e.peers /\ f.ctl = e.ctl
      /\ f.reply = e.reply /\ f.wait = e.wait /\ f.note = e.note /\ f.stray = e.stray
      /\ f.dead = e.dead /\ f.left = e.left /\ f.again = e.again /\ f.peer = e.peer
  BY <1>1 DEF ClientType
<1>3. g \in {f, SendMessage(h, Head(e.jobs))}
  OBVIOUS
<1> HIDE DEF f
<1>4. /\ h \in ClientType /\ h.st = e.st /\ h.id = e.id /\ h.peers = e.peers /\ h.ctl = e.ctl
      /\ h.reply = e.reply /\ h.wait = e.wait /\ h.note = e.note /\ h.stray = e.stray
      /\ h.dead = e.dead /\ h.left = e.left /\ h.again = e.again /\ h.peer = e.peer
  BY <1>2 DEF ClientType
<1> HIDE DEF h
<1>5. Good(e, f)
  BY <1>1, <1>2, CallFine DEF Good
<1>6. Good(e, h)
  BY <1>1, <1>4, CallFine DEF Good
<1>7. Good(h, SendMessage(h, Head(e.jobs)))
  BY <1>1, <1>4, <1>6, SendMessageGood, FineApt DEF Good
<1> QED
  BY <1>3, <1>5, <1>6, <1>7, GoodThen

LEMMA AgainFine ==
  ASSUME NEW e, Apt(e), e.st # "off"
  PROVE  Good(e, [e EXCEPT !.again = FALSE])
<1> DEFINE f == [e EXCEPT !.again = FALSE]
<1>1. e \in ClientType /\ Alone(e)
  BY DEF Apt, Alone
<1>2. /\ f \in ClientType /\ f.st = e.st /\ f.id = e.id /\ f.peers = e.peers /\ f.ctl = e.ctl
      /\ f.reply = e.reply /\ f.wait = e.wait /\ f.note = e.note /\ f.stray = e.stray
      /\ f.dead = e.dead /\ f.left = e.left /\ f.peer = e.peer
      /\ f.pc = e.pc /\ f.jobs = e.jobs /\ f.gather = e.gather /\ f.pending = e.pending
  BY <1>1 DEF ClientType
<1> HIDE DEF f
<1>3. Asked(f) = Asked(e) /\ Given(f) = Given(e)
  BY <1>2 DEF Asked, Given
<1>4. Unsigned(f) /\ Controls(f) /\ States(f) /\ Waits(f)
  BY <1>1, <1>2 DEF Alone, Unsigned, Controls, States, Waits
<1>5. Asks(f)
  BY <1>1, <1>2, <1>3 DEF Alone, Asks
<1>6. Holds(f) = Holds(e)
  BY <1>2, <1>3 DEF Holds
<1>7. Moves(e, f)
  BY <1>2, <1>3, <1>6 DEF Moves, Held, Fresh, Apt
<1>8. Steady(e, f) /\ Keeps(e, f)
  BY <1>2 DEF Steady, Keeps, Uncut
<1> QED
  BY <1>2, <1>4, <1>5, <1>7, <1>8 DEF Good, Fine, Alone, f

LEMMA ConnectGood ==
  ASSUME NEW e, Apt(e), e.st = "off", NEW a \in BOOLEAN
  PROVE  Good(e, ConnectToServer([e EXCEPT !.again = a]))
<1> DEFINE q == Req("sign_in", 0, 0, "")
           d == [e EXCEPT !.again = a]
           g == ConnectToServer(d)
<1>1. e \in ClientType /\ Alone(e) /\ e.id = 0 /\ e.ctl = <<>> /\ e.reply = <<>>
  BY DEF Apt, Alone, Unsigned, Controls
<1>2. q \in Requests /\ q.id = 0 /\ q.op = "sign_in" /\ <<q>> \in AtMostOne(Requests)
      /\ <<q>> # <<>> /\ <<q>>[1] = q
  BY OneIs DEF Req, Requests, Ops
<1>3. /\ d \in ClientType /\ d.st = e.st /\ d.id = 0 /\ d.peers = e.peers
      /\ d.reply = e.reply /\ d.wait = e.wait /\ d.note = e.note /\ d.stray = e.stray
      /\ d.dead = e.dead /\ d.peer = e.peer
      /\ d.pc = e.pc /\ d.jobs = e.jobs /\ d.gather = e.gather /\ d.pending = e.pending
  BY <1>1 DEF ClientType
<1>4. [d EXCEPT !.st = "signing_in", !.left = FALSE].id = 0
  BY <1>3 DEF ClientType
<1> HIDE DEF d
<1>5. g = [[d EXCEPT !.st = "signing_in", !.left = FALSE] EXCEPT !.ctl = <<q>>]
  BY <1>3, <1>4 DEF ConnectToServer, Ask
<1> HIDE DEF q
<1>6. /\ g \in ClientType /\ g.st = "signing_in" /\ g.left = FALSE /\ g.ctl = <<q>>
      /\ g.id = 0 /\ g.peers = e.peers
      /\ g.reply = e.reply /\ g.wait = e.wait /\ g.note = e.note /\ g.stray = e.stray
      /\ g.dead = e.dead /\ g.peer = e.peer
      /\ g.pc = e.pc /\ g.jobs = e.jobs /\ g.gather = e.gather /\ g.pending = e.pending
  BY <1>2, <1>3, <1>5, ZenonT(60) DEF ClientType
<1> HIDE DEF g
<1>7. Asked(g) = Asked(e) \cup {q} /\ Given(g) = {}
  BY <1>1, <1>2, <1>6, AskedIs DEF Given
<1>8. Unsigned(g) /\ Controls(g) /\ States(g) /\ Waits(g)
  BY <1>1, <1>2, <1>6 DEF Alone, Unsigned, Controls, States, Waits
<1>9. Asks(g)
  <2>1. \A x \in Asked(e) : /\ x.op = "message" => x.to # 0 /\ x.body # ""
                            /\ x.op = "sign_out" => x.id # 0
    BY <1>1 DEF Alone, Asks
  <2> QED
    BY <1>2, <1>6, <1>7, <2>1 DEF Asks
<1>10. Holds(g) \subseteq Holds(e)
  BY <1>2, <1>6, <1>7 DEF Holds
<1>11. Moves(e, g)
  BY <1>1, <1>6, <1>7, <1>10 DEF Moves, Held, Fresh, Alone, Unsigned
<1>12. \A x \in g.dead : x[1] # 0
  BY <1>6 DEF ClientType, Ids
<1>13. Steady(e, g) /\ Keeps(e, g)
  BY <1>2, <1>6, <1>12 DEF Steady, Keeps, Uncut
<1> QED
  BY <1>6, <1>8, <1>9, <1>11, <1>13 DEF Good, Fine, Alone, g, d

LEMMA DropFine ==
  ASSUME NEW e, Apt(e), NEW S, S \subseteq e.stray
  PROVE  Good(e, [e EXCEPT !.stray = S])
<1> DEFINE f == [e EXCEPT !.stray = S]
<1>1. e \in ClientType /\ Alone(e)
  BY DEF Apt, Alone
<1>2. /\ f \in ClientType /\ f.st = e.st /\ f.id = e.id /\ f.peers = e.peers /\ f.ctl = e.ctl
      /\ f.reply = e.reply /\ f.wait = e.wait /\ f.note = e.note /\ f.stray = S
      /\ f.dead = e.dead /\ f.left = e.left /\ f.peer = e.peer /\ f.again = e.again
      /\ f.pc = e.pc /\ f.jobs = e.jobs /\ f.gather = e.gather /\ f.pending = e.pending
  BY <1>1 DEF ClientType
<1> HIDE DEF f
<1>3. Asked(f) \subseteq Asked(e) /\ Given(f) = Given(e)
  BY <1>2 DEF Asked, Given
<1>4. Unsigned(f) /\ Controls(f) /\ States(f) /\ Waits(f)
  BY <1>1, <1>2 DEF Alone, Unsigned, Controls, States, Waits
<1>5. Asks(f)
  BY <1>1, <1>2, <1>3 DEF Alone, Asks
<1>6. Holds(f) \subseteq Holds(e)
  BY <1>2, <1>3 DEF Holds
<1>7. Moves(e, f)
  BY <1>2, <1>3, <1>6 DEF Moves, Held, Fresh, Apt
<1>8. Steady(e, f) /\ Keeps(e, f)
  BY <1>2 DEF Steady, Keeps, Uncut
<1> QED
  BY <1>2, <1>4, <1>5, <1>7, <1>8 DEF Good, Fine, Alone, f

LEMMA ConnectToPeerGood ==
  ASSUME NEW e, Apt(e), NEW p \in e.peers
  PROVE  Good(e, [e EXCEPT !.pc = TRUE, !.peer = p, !.jobs = Append(@, "offer")])
<1> DEFINE f == [e EXCEPT !.pc = TRUE, !.peer = p, !.jobs = Append(@, "offer")]
<1>1. e \in ClientType /\ e.id # 0
  BY DEF Apt, Alone, Unsigned
<1>2. Append(e.jobs, "offer") \in Seq({"offer", "answer"}) /\ p \in Ids
  BY <1>1 DEF ClientType
<1>3. /\ f \in ClientType /\ f.st = e.st /\ f.id = e.id /\ f.peers = e.peers /\ f.ctl = e.ctl
      /\ f.reply = e.reply /\ f.wait = e.wait /\ f.note = e.note /\ f.stray = e.stray
      /\ f.dead = e.dead /\ f.left = e.left /\ f.again = e.again /\ f.peer = p
  BY <1>1, <1>2 DEF ClientType
<1> HIDE DEF f
<1>4. Good(e, f)
  BY <1>1, <1>3, CallFine DEF Good
<1> QED
  BY <1>4 DEF f

LEMMA HangUpGood ==
  ASSUME NEW e, Apt(e), e.st = "on"
  PROVE  Good(e, Ask(CloseControl(e), "hangup"))
<1> DEFINE d == CloseControl(e)
           q == Req("hangup", d.id, 0, "")
           f == [d EXCEPT !.ctl = <<q>>]
<1>1. e \in ClientType /\ e.id # 0
  BY DEF Apt, Alone, Unsigned
<1>2. /\ d \in ClientType /\ d.reply = <<>> /\ d.id = e.id /\ d.st = e.st
      /\ Good(e, d) /\ Apt(d)
  BY <1>1, CloseControlFields, CloseControlType, CloseControlFine, FineApt DEF Good
<1> HIDE DEF d
<1>3. /\ q \in Requests /\ q.id = d.id /\ q.op = "hangup"
  BY <1>2 DEF Req, Requests, Ops, ClientType
<1> HIDE DEF q
<1>4. <<q>> \in AtMostOne(Requests)
  BY <1>3, OneIs
<1>5. /\ f \in ClientType /\ f.ctl = <<q>> /\ f.st = d.st /\ f.id = d.id /\ f.peers = d.peers
      /\ f.reply = d.reply /\ f.wait = d.wait /\ f.note = d.note /\ f.stray = d.stray
      /\ f.dead = d.dead /\ f.left = d.left /\ f.again = d.again /\ f.pc = d.pc
      /\ f.peer = d.peer /\ f.jobs = d.jobs /\ f.gather = d.gather /\ f.pending = d.pending
  BY <1>2, <1>4 DEF ClientType
<1>6. Ask(d, "hangup") = f
  BY DEF Ask, q
<1> HIDE DEF f
<1>7. Good(d, f)
  BY <1>1, <1>2, <1>3, <1>5, AskFine DEF Good
<1> QED
  BY <1>2, <1>6, <1>7, GoodThen DEF d

LEMMA LoseWaitFine ==
  ASSUME NEW e, Apt(e), e.wait # "none"
  PROVE  Fine(e, IF e.st = "on" THEN OpenWait(CloseWait(e)) ELSE CloseWait(e))
<1> DEFINE d == CloseWait(e)
           f == OpenWait(d)
<1>1. Fine(e, d) /\ Apt(d) /\ Alone(d) /\ d \in ClientType /\ e \in ClientType
  BY CloseWaitFine, FineApt DEF Fine, Alone, Apt
<1>2. d.wait = "none" /\ d.note = <<>> /\ d.id = e.id /\ d.st = e.st /\ e.id # 0
  BY <1>1, CloseWaitFields DEF Apt, Alone, Unsigned
<1> HIDE DEF d
<1>3. CASE e.st = "on"
  <2>1. /\ f \in ClientType /\ f.wait = "asked" /\ f.st = d.st /\ f.id = d.id
        /\ f.peers = d.peers /\ f.ctl = d.ctl
        /\ f.reply = d.reply /\ f.note = d.note /\ f.stray = d.stray
        /\ f.dead = d.dead /\ f.left = d.left /\ f.again = d.again /\ f.pc = d.pc
        /\ f.peer = d.peer /\ f.jobs = d.jobs /\ f.gather = d.gather /\ f.pending = d.pending
    BY <1>1 DEF OpenWait, ClientType
  <2> HIDE DEF f
  <2>2. Asked(f) = Asked(d) /\ Given(f) = Given(d)
    BY <2>1 DEF Asked, Given
  <2>3. Unsigned(f) /\ Controls(f) /\ States(f) /\ Waits(f)
    BY <1>1, <1>2, <1>3, <2>1 DEF Alone, Unsigned, Controls, States, Waits
  <2>4. Asks(f)
    BY <1>1, <2>1, <2>2 DEF Alone, Asks
  <2>5. Holds(f) = Holds(d)
    BY <2>1, <2>2 DEF Holds
  <2>6. Moves(d, f)
    BY <1>1, <1>2, <2>1, <2>2, <2>5 DEF Moves, Held, Fresh, Apt
  <2>7. Fine(e, f)
    BY <1>1, <2>1, <2>3, <2>4, <2>6, FineThen DEF Fine, Alone
  <2> QED
    BY <1>3, <2>7 DEF f, d
<1>4. CASE e.st # "on"
  BY <1>1, <1>4 DEF d
<1> QED
  BY <1>3, <1>4

-----------------------------------------------------------------------------
\* A step of the client c alone, when the network cuts nothing.
Turns(e, f) ==
  \/ Good(e, f)
  \/ e.note # <<>> /\ Keeps(e, f) /\ (f.st = "off" \/ (e.st = "on" /\ Reads(e, f)))
  \/ e.id = 0 /\ e.reply # <<>> /\ e.note = <<>> /\ Uncut(f) /\ SignsIn(e, f)

OwnStep(c) ==
  \/ ClientStep(c) \/ UserStep(c) \/ OnIceCandidate(c)
  \/ DropClosed(c) \/ LoseWait(c) \/ LoseControl(c)

LEMMA UseCounts ==
  ASSUME used \in [Uses -> Nat], NEW u \in Uses, Use(u)
  PROVE  /\ used' \in [Uses -> Nat]
         /\ used'["drop"] = 0 => used["drop"] = 0 /\ u # "drop"
BY DEF Use, Uses

LEMMA OwnStepIs ==
  ASSUME NEW c \in Clients, Apt(client[c]), used \in [Uses -> Nat], OwnStep(c)
  PROVE  /\ UNCHANGED channel /\ used' \in [Uses -> Nat]
         /\ NoDrop' => NoDrop
         /\ \E f : Becomes(c, f) /\ Fine(client[c], f) /\ (NoDrop' => Turns(client[c], f))
<1> DEFINE e == client[c]
           Goal == /\ UNCHANGED channel /\ used' \in [Uses -> Nat]
                   /\ NoDrop' => NoDrop
                   /\ \E f : Becomes(c, f) /\ Fine(e, f) /\ (NoDrop' => Turns(e, f))
<1>1. ASSUME NEW f, Becomes(c, f), Good(e, f), UNCHANGED channel,
             \/ used' = used
             \/ \E u \in Uses : Use(u)
      PROVE  Goal
  BY <1>1, UseCounts DEF Good, Turns, NoDrop
<1>2. ASSUME NEW f, Becomes(c, f), Fine(e, f), UNCHANGED channel, Use("drop")
      PROVE  Goal
  BY <1>2, UseCounts DEF Uses, NoDrop
<1>3. ASSUME ReadControl(c)
      PROVE  Goal
  <2>1. Becomes(c, OnRead(e)) /\ e.reply # <<>> /\ UNCHANGED channel /\ used' = used
    BY <1>3 DEF ReadControl
  <2>2. CASE e.id # 0
    BY <1>1, <2>1, <2>2, OnReadGood
  <2>3. CASE e.id = 0
    <3>1. Fine(e, OnRead(e)) /\ Turns(e, OnRead(e))
      BY <2>1, <2>3, OnReadSignsIn DEF Turns
    <3> QED
      BY <2>1, <3>1 DEF NoDrop
  <2> QED
    BY <2>2, <2>3
<1>4. ASSUME ReadWait(c)
      PROVE  Goal
  <2>1. Becomes(c, OnHangingGetRead(e)) /\ e.note # <<>> /\ UNCHANGED channel /\ used' = used
    BY <1>4 DEF ReadWait
  <2>2. Fine(e, OnHangingGetRead(e)) /\ Turns(e, OnHangingGetRead(e))
    BY <2>1, OnHangingGetReadIs DEF Turns
  <2> QED
    BY <2>1, <2>2 DEF NoDrop
<1>5. ASSUME Described(c)
      PROVE  Goal
  <2> DEFINE f == [e EXCEPT !.jobs = Tail(@)]
             h == SendMessage([f EXCEPT !.gather = TRUE], Head(e.jobs))
  <2>1. /\ e.jobs # <<>> /\ UNCHANGED channel /\ used' = used
        /\ Becomes(c, h) \/ Becomes(c, f)
    BY <1>5 DEF Described
  <2>2. Good(e, f) /\ Good(e, h)
    BY <2>1, DescribedGood
  <2> QED
    BY <1>1, <2>1, <2>2
<1>6. ASSUME Reconnect(c)
      PROVE  Goal
  <2> DEFINE d == [e EXCEPT !.again = FALSE]
  <2>1. Becomes(c, ConnectToServer(d)) /\ UNCHANGED channel /\ used' = used
    BY <1>6 DEF Reconnect
  <2>2. e \in ClientType
    BY DEF Apt, Alone
  <2>3. CASE e.st = "off"
    BY <1>1, <2>1, <2>3, ConnectGood
  <2>4. CASE e.st # "off"
    <3>1. d.st = e.st
      BY <2>2 DEF ClientType
    <3>2. ConnectToServer(d) = d
      BY <2>4, <3>1 DEF ConnectToServer
    <3> QED
      BY <1>1, <2>1, <2>4, <3>2, AgainFine
  <2> QED
    BY <2>3, <2>4
<1>7. ASSUME Connect(c)
      PROVE  Goal
  <2>1. /\ Becomes(c, ConnectToServer(e)) /\ UNCHANGED channel /\ Use("connect")
        /\ e.st = "off"
    BY <1>7 DEF Connect
  <2>2. e \in ClientType /\ e.again \in BOOLEAN
    BY DEF Apt, Alone, ClientType
  <2>3. e = [e EXCEPT !.again = e.again]
    BY <2>2 DEF ClientType
  <2>4. Good(e, ConnectToServer(e))
    BY <2>1, <2>2, <2>3, ConnectGood
  <2> QED
    BY <1>1, <2>1, <2>4 DEF Uses
<1>8. ASSUME Disconnect(c)
      PROVE  Goal
  <2>1. /\ Becomes(c, ClientSignOut(e)) /\ UNCHANGED channel /\ Use("disconnect")
        /\ e.id # 0
    BY <1>8 DEF Disconnect, DisconnectFromServer
  <2>2. Good(e, ClientSignOut(e))
    BY <2>1, SignOutFine DEF Good
  <2> QED
    BY <1>1, <2>1, <2>2 DEF Uses
<1>9. ASSUME ConnectToPeer(c)
      PROVE  Goal
  <2>1. UNCHANGED channel /\ Use("call")
    BY <1>9 DEF ConnectToPeer
  <2>2. PICK p \in e.peers :
          Becomes(c, [e EXCEPT !.pc = TRUE, !.peer = p, !.jobs = Append(@, "offer")])
    BY <1>9 DEF ConnectToPeer
  <2>3. Good(e, [e EXCEPT !.pc = TRUE, !.peer = p, !.jobs = Append(@, "offer")])
    BY ConnectToPeerGood
  <2> QED
    BY <1>1, <2>1, <2>2, <2>3 DEF Uses
<1>10. ASSUME UserHangUp(c)
       PROVE  Goal
  <2>1. /\ UNCHANGED channel /\ Use("hangup")
        /\ Becomes(c, IF e.st = "on" THEN Ask(CloseControl(e), "hangup") ELSE e)
    BY <1>10 DEF UserHangUp
  <2>2. Good(e, e) /\ (e.st = "on" => Good(e, Ask(CloseControl(e), "hangup")))
    BY FineSame, HangUpGood DEF Good
  <2> QED
    BY <1>1, <2>1, <2>2 DEF Uses
<1>11. ASSUME OnIceCandidate(c)
       PROVE  Goal
  <2>1. /\ Becomes(c, SendMessage(e, "candidate")) /\ UNCHANGED channel /\ Use("candidate")
        /\ e.gather
    BY <1>11 DEF OnIceCandidate
  <2>2. e.id # 0 /\ "candidate" \in Bodies
    BY <2>1, SessionAssumption DEF Apt, Alone, Unsigned
  <2>3. Good(e, SendMessage(e, "candidate"))
    BY <2>2, SendMessageGood
  <2> QED
    BY <1>1, <2>1, <2>3 DEF Uses
<1>12. ASSUME DropClosed(c)
       PROVE  Goal
  <2>1. PICK r \in e.stray : Becomes(c, [e EXCEPT !.stray = @ \ {r}])
    BY <1>12 DEF DropClosed
  <2>2. Good(e, [e EXCEPT !.stray = @ \ {r}])
    BY DropFine
  <2>3. UNCHANGED channel /\ used' = used
    BY <1>12 DEF DropClosed
  <2> QED
    BY <1>1, <2>1, <2>2, <2>3
<1>13. ASSUME LoseWait(c)
       PROVE  Goal
  <2>1. /\ UNCHANGED channel /\ Use("drop") /\ e.wait # "none"
        /\ Becomes(c, IF e.st = "on" THEN OpenWait(CloseWait(e)) ELSE CloseWait(e))
    BY <1>13 DEF LoseWait
  <2>2. Fine(e, IF e.st = "on" THEN OpenWait(CloseWait(e)) ELSE CloseWait(e))
    BY <2>1, LoseWaitFine
  <2> QED
    BY <1>2, <2>1, <2>2
<1>14. ASSUME LoseControl(c)
       PROVE  Goal
  <2>1. /\ UNCHANGED channel /\ Use("drop")
        /\ Becomes(c, OnMessageSent(CloseControl(e)))
    BY <1>14 DEF LoseControl
  <2>2. Fine(e, CloseControl(e))
    BY CloseControlFine
  <2>3. Fine(e, OnMessageSent(CloseControl(e)))
    BY <2>2, OnMessageSentGood, FineApt, FineThen DEF Good
  <2> QED
    BY <1>2, <2>1, <2>3
<1> QED
  BY <1>3, <1>4, <1>5, <1>6, <1>7, <1>8, <1>9, <1>10, <1>11, <1>12, <1>13, <1>14
     DEF OwnStep, ClientStep, UserStep

-----------------------------------------------------------------------------
(***************************************************************************)
(* Every step of the session is a step of the server, or of the clients    *)
(* alone.                                                                  *)
(***************************************************************************)
LEMMA OurSockets ==
  ASSUME NEW c \in Clients
  PROVE  /\ <<c, "control">> \in Sockets /\ <<c, "closed">> \in Sockets
         /\ \A i \in Ids : Gets(c, i) \in Sockets
BY SessionAssumption DEF Gets

LEMMA Differ ==
  ASSUME NEW c, NEW d, NEW i, NEW j
  PROVE  /\ Gets(c, i) # <<d, "control">> /\ Gets(c, i) # <<d, "closed">>
         /\ Gets(c, i) # NoSocket /\ NoSocket # <<d, "control">>
         /\ <<c, "closed">> # <<d, "control">>
         /\ Gets(c, i) = Gets(d, j) => c = d /\ i = j
         /\ <<c, "control">> = <<d, "control">> => c = d
BY DEF Gets, NoSocket

LEMMA HandleNext ==
  ASSUME NEW s \in Sockets, NEW r \in Requests, Handle(s, r),
         r.op = "message" => r.to # 0 /\ r.body # ""
  PROVE  Next
<1>1. r.id \in {0} \cup Ids /\ (r.op = "message" => r.to \in Ids /\ r.body \in Bodies)
  BY DEF Requests
<1>2. CASE SignIn(s)
  BY <1>2 DEF Next
<1>3. CASE r.op = "message" /\ Message(s, r.id, r.to, r.body)
  BY <1>1, <1>3 DEF Next, Request
<1>4. CASE Unknown(s, r.id) \/ HangUp(s, r.id) \/ HangUpConfirm(s, r.id) \/ SignOut(s, r.id)
  BY <1>1, <1>4 DEF Next, Request
<1> QED
  BY <1>2, <1>3, <1>4 DEF Handle

-----------------------------------------------------------------------------
(***************************************************************************)
(* What a handler that posts out does to the members: they are D from then *)
(* on.                                                                     *)
(***************************************************************************)
Outcome(D, out, s) ==
  /\ DOMAIN members_' = D
  /\ \A i \in D \ DOMAIN members_ :
       members_'[i].waiting = NoSocket /\ members_'[i].queue = <<>>
  /\ \A i \in D \cap DOMAIN members_ :
       LET m == members_[i]
           n == members_'[i]
       IN  IF i \notin DOMAIN out THEN n.waiting = m.waiting /\ n.queue = m.queue
           ELSE IF m.waiting # NoSocket
           THEN /\ n.waiting = NoSocket /\ n.queue = m.queue
                /\ m.waiting \in DOMAIN sent' /\ sent'[m.waiting] = out[i]
           ELSE n.waiting = NoSocket /\ n.queue = Append(m.queue, out[i])
  /\ \A t \in DOMAIN sent' :
       t = s \/ \E i \in D \cap DOMAIN members_ \cap DOMAIN out :
                  t = members_[i].waiting /\ t # NoSocket

Answers(s, reply) == s \in DOMAIN sent' /\ sent'[s] = reply

\* The notices posted tell of the change, the messages come from members.
Fits(D, out) ==
  \A i \in D \cap DOMAIN members_ :
    IF i \notin DOMAIN out THEN D = DOMAIN members_
    ELSE LET r == out[i] IN
         IF r.from = i
         THEN /\ r.body.ids # {}
              /\ IF r.body.kind = "left" THEN D = DOMAIN members_ \ {First(r.body.ids)}
                 ELSE D = DOMAIN members_ \cup {First(r.body.ids)}
         ELSE D = DOMAIN members_ /\ (r.body.kind = "hangup_confirm" \/ r.from \in D)

\* The response m to the member i is the message of the request r.
Relayed(r, i, m) ==
  /\ i = r.to /\ r.to # r.id /\ Known(r.id)
  /\ m.from = r.id /\ m.status = 200 /\ m.body.kind = r.body

\* What the request r says of the responses out, and of the calls.
Relays(r, D, out) ==
  /\ r.op = "message" =>
       /\ \A i \in DOMAIN out : Relayed(r, i, out[i])
       /\ \/ ~Known(r.id) \/ ~Known(r.to) \/ r.to = r.id
          \/ InCall(members_[r.to]) \/ r.to \in DOMAIN out
  /\ r.op \notin {"message", "hangup"} => \A i \in DOMAIN out : out[i].from = i
  /\ \A i \in D : InCall(members_'[i]) =>
       \/ i \in DOMAIN members_ /\ InCall(members_[i])
       \/ r.op = "message" /\ i \in {r.id, r.to} /\ r.to \in DOMAIN out
  /\ r.op = "sign_out" => r.id \notin D

\* The members before the messages are posted.
Before(ms) ==
  /\ Orderly(ms)
  /\ \A i \in DOMAIN ms :
       IF i \in DOMAIN members_
       THEN ms[i].waiting = members_[i].waiting /\ ms[i].queue = members_[i].queue
       ELSE ms[i].waiting = NoSocket /\ ms[i].queue = <<>>

LEMMA PostedBoxes ==
  ASSUME NEW ms, NEW out, Orderly(ms), NEW i \in DOMAIN ms
  PROVE  LET n == Posted(ms, out)[i] IN
         /\ DOMAIN Posted(ms, out) = DOMAIN ms
         /\ n.partner = ms[i].partner
         /\ IF i \notin DOMAIN out THEN n = ms[i]
            ELSE IF ms[i].waiting # NoSocket THEN n.waiting = NoSocket /\ n.queue = ms[i].queue
            ELSE n.waiting = NoSocket /\ n.queue = Append(ms[i].queue, out[i])
<1>1. MemberShape(ms[i])
  BY DEF Orderly, Shaped
<1> QED
  BY <1>1 DEF MemberShape, Posted

LEMMA AnsweredIs ==
  ASSUME NEW ms, NEW out, Orderly(ms)
  PROVE  /\ \A t \in DOMAIN Answered(ms, out) :
              \E i \in Served(ms, out) : t = ms[i].waiting
         /\ \A i \in Served(ms, out) : /\ ms[i].waiting \in DOMAIN Answered(ms, out)
                                       /\ Answered(ms, out)[ms[i].waiting] = out[i]
<1> DEFINE T == {ms[i].waiting : i \in Served(ms, out)}
<1>1. DOMAIN Answered(ms, out) = T
  BY DEF Answered
<1>2. ASSUME NEW i \in Served(ms, out)
      PROVE  Answered(ms, out)[ms[i].waiting] = out[i]
  <2> DEFINE j == CHOOSE j \in Served(ms, out) : ms[j].waiting = ms[i].waiting
  <2>1. j \in Served(ms, out) /\ ms[j].waiting = ms[i].waiting
    OBVIOUS
  <2>2. j = i
    BY <2>1 DEF Served, Orderly, Apart
  <2>3. Answered(ms, out)[ms[i].waiting] = out[j]
    BY DEF Answered
  <2> QED
    BY <2>2, <2>3
<1> QED
  BY <1>1, <1>2

LEMMA PostOutcome ==
  ASSUME NEW ms, NEW out, NEW s, Before(ms), members_' = Posted(ms, out),
         DOMAIN ms \cap DOMAIN out \subseteq DOMAIN members_,
         \A t \in DOMAIN sent' : t = s \/ t \in DOMAIN Answered(ms, out),
         \A t \in DOMAIN Answered(ms, out) : t \in DOMAIN sent' /\ sent'[t] = Answered(ms, out)[t]
  PROVE  Outcome(DOMAIN ms, out, s) /\ \A i \in DOMAIN ms : members_'[i].partner = ms[i].partner
<1> DEFINE D == DOMAIN ms
<1>1. Orderly(ms)
  BY DEF Before
<1>2. DOMAIN members_' = D
  BY DEF Posted
<1>3. ASSUME NEW i \in D \ DOMAIN members_
      PROVE  members_'[i].waiting = NoSocket /\ members_'[i].queue = <<>>
  <2>1. i \notin DOMAIN out /\ ms[i].waiting = NoSocket /\ ms[i].queue = <<>>
    BY <1>3 DEF Before
  <2>2. members_'[i] = ms[i]
    BY <1>1, <2>1, PostedBoxes
  <2> QED
    BY <2>1, <2>2
<1>4. ASSUME NEW i \in D \cap DOMAIN members_
      PROVE  LET m == members_[i]
                 n == members_'[i]
             IN  IF i \notin DOMAIN out THEN n.waiting = m.waiting /\ n.queue = m.queue
                 ELSE IF m.waiting # NoSocket
                 THEN /\ n.waiting = NoSocket /\ n.queue = m.queue
                      /\ m.waiting \in DOMAIN sent' /\ sent'[m.waiting] = out[i]
                 ELSE n.waiting = NoSocket /\ n.queue = Append(m.queue, out[i])
  <2>1. ms[i].waiting = members_[i].waiting /\ ms[i].queue = members_[i].queue
    BY <1>4 DEF Before
  <2>2. LET n == members_'[i] IN
        IF i \notin DOMAIN out THEN n = ms[i]
        ELSE IF ms[i].waiting # NoSocket THEN n.waiting = NoSocket /\ n.queue = ms[i].queue
        ELSE n.waiting = NoSocket /\ n.queue = Append(ms[i].queue, out[i])
    BY <1>1, <1>4, PostedBoxes
  <2>3. ASSUME i \in DOMAIN out, ms[i].waiting # NoSocket
        PROVE  ms[i].waiting \in DOMAIN sent' /\ sent'[ms[i].waiting] = out[i]
    <3>1. i \in Served(ms, out)
      BY <1>4, <2>3 DEF Served
    <3> QED
      BY <1>1, <3>1, AnsweredIs
  <2> QED
    BY <2>1, <2>2, <2>3
<1>5. ASSUME NEW t \in DOMAIN sent', t # s
      PROVE  \E i \in D \cap DOMAIN members_ \cap DOMAIN out :
               t = members_[i].waiting /\ t # NoSocket
  <2>1. PICK i \in Served(ms, out) : t = ms[i].waiting
    BY <1>1, <1>5, AnsweredIs
  <2>2. i \in D \cap DOMAIN out /\ ms[i].waiting # NoSocket
    BY DEF Served
  <2> QED
    BY <2>1, <2>2 DEF Before
<1>6. \A i \in D : members_'[i].partner = ms[i].partner
  BY <1>1, PostedBoxes
<1> QED
  BY <1>2, <1>3, <1>4, <1>5, <1>6 DEF Outcome

LEMMA RespondOutcome ==
  ASSUME NEW ms, NEW out, NEW s, NEW reply, Before(ms), Respond(s, reply, ms, out), Free(s),
         DOMAIN ms \cap DOMAIN out \subseteq DOMAIN members_
  PROVE  /\ Outcome(DOMAIN ms, out, s) /\ Answers(s, reply)
         /\ \A i \in DOMAIN ms : members_'[i].partner = ms[i].partner
<1> DEFINE A == Answered(ms, out)
<1>1. /\ members_' = Posted(ms, out)
      /\ sent' = [t \in DOMAIN A \cup {s} |-> IF t = s THEN reply ELSE A[t]]
  BY DEF Respond
<1>2. s \notin DOMAIN A
  <2> SUFFICES ASSUME s \in DOMAIN A PROVE FALSE
    OBVIOUS
  <2>1. PICK i \in Served(ms, out) : s = ms[i].waiting
    BY AnsweredIs DEF Before
  <2>2. i \in DOMAIN ms /\ i \in DOMAIN out
    BY DEF Served
  <2>3. i \in DOMAIN members_ /\ members_[i].waiting = s
    BY <2>1, <2>2 DEF Before
  <2> QED
    BY <2>3 DEF Free
<1> HIDE DEF A
<1>4. /\ DOMAIN sent' = DOMAIN A \cup {s}
      /\ \A t \in DOMAIN A : sent'[t] = A[t]
      /\ sent'[s] = reply
  BY <1>1, <1>2
<1>5. Outcome(DOMAIN ms, out, s) /\ \A i \in DOMAIN ms : members_'[i].partner = ms[i].partner
  BY <1>1, <1>4, PostOutcome, ZenonT(60) DEF A
<1> QED
  BY <1>4, <1>5 DEF Answers

LEMMA CallsBefore ==
  ASSUME NEW ms, Orderly(members_), Shaped(ms), DOMAIN ms \subseteq DOMAIN members_,
         \A i \in DOMAIN ms : ms[i].waiting = members_[i].waiting /\ ms[i].queue = members_[i].queue
  PROVE  Before(ms)
BY CallsOrderly DEF Before

Handled(s, r, D, out, reply) ==
  /\ Outcome(D, out, s) /\ Answers(s, reply) /\ Fits(D, out) /\ Relays(r, D, out)
  /\ Typings(out) /\ reply \in Responses
  /\ \A i \in DOMAIN members_ \ D : r.op = "sign_out" /\ i = r.id
  /\ PartnersOK'
  /\ IF r.op = "sign_in"
     THEN /\ s_member_id_' = s_member_id_ + 1 /\ D = DOMAIN members_ \cup {s_member_id_'}
          /\ s_member_id_' \in Ids
          /\ reply = Response(200, s_member_id_', Body("list", D))
     ELSE D \subseteq DOMAIN members_ /\ UNCHANGED s_member_id_

Serving == ChannelTypeOK /\ Orderly(members_) /\ PartnersOK

LEMMA NoNews ==
  /\ Typings(<<>>) /\ Fits(DOMAIN members_, <<>>)
  /\ DOMAIN <<>> = {}
BY DEF Typings, Fits

LEMMA ServingIds ==
  ASSUME Serving
  PROVE  /\ DOMAIN members_ \subseteq Ids
         /\ \A i \in DOMAIN members_ : members_[i].partner \in {0} \cup Ids
         /\ Done \in Responses /\ Failed \in Responses
<1>1. DOMAIN members_ \subseteq Ids
  BY ChannelAssumption DEF Serving, ChannelTypeOK, Ids
<1>2. \A i \in DOMAIN members_ : members_[i].partner \in {0} \cup Ids
  BY ChannelAssumption DEF Serving, ChannelTypeOK, MemberType, Ids
<1>3. Done \in Responses /\ Failed \in Responses
  BY ChannelAssumption DEF Done, Failed, Response, Body, Responses
<1> QED
  BY <1>1, <1>2, <1>3

\* A handler that answers and changes nothing.
LEMMA AnswerHandled ==
  ASSUME Serving, NEW s, NEW r, NEW reply \in Responses, Free(s),
         r.op \notin {"sign_in", "sign_out"},
         r.op = "message" => ~Known(r.to) \/ r.to = r.id \/ InCall(members_[r.to]),
         Respond(s, reply, members_, <<>>), UNCHANGED s_member_id_
  PROVE  Handled(s, r, DOMAIN members_, <<>>, reply)
<1>1. Before(members_)
  BY DEF Serving, Before
<1>2. /\ Outcome(DOMAIN members_, <<>>, s) /\ Answers(s, reply)
      /\ \A i \in DOMAIN members_ : members_'[i].partner = members_[i].partner
  BY <1>1, NoNews, RespondOutcome
<1>3. PartnersOK'
  BY <1>2 DEF Serving, PartnersOK, Outcome
<1>4. Relays(r, DOMAIN members_, <<>>)
  BY <1>2, NoNews DEF Relays, InCall
<1> QED
  BY <1>2, <1>3, <1>4, NoNews DEF Handled

LEMMA UnknownHandled ==
  ASSUME Serving, NEW s, NEW r, r.op # "sign_in", Unknown(s, r.id)
  PROVE  Handled(s, r, DOMAIN members_, <<>>, Failed)
<1>1. members_' = members_ /\ sent' = [t \in {s} |-> Failed] /\ UNCHANGED s_member_id_
  BY DEF Unknown, Only
<1>2. Outcome(DOMAIN members_, <<>>, s) /\ Answers(s, Failed)
  BY <1>1, NoNews DEF Outcome, Answers
<1>3. PartnersOK'
  BY <1>1 DEF Serving, PartnersOK
<1>4. Relays(r, DOMAIN members_, <<>>)
  BY <1>1, NoNews DEF Relays, InCall, Unknown, Known
<1> QED
  BY <1>1, <1>2, <1>3, <1>4, NoNews, ServingIds DEF Handled

\* Recording who calls whom leaves every record of a member a record of a member.
LEMMA PairShaped ==
  ASSUME NEW ms, Shaped(ms), NEW i, NEW j
  PROVE  LET ns == [ms EXCEPT ![i].partner = j, ![j].partner = i] IN
         Shaped(ns) /\ DOMAIN ns = DOMAIN ms
<1> DEFINE ns == [ms EXCEPT ![i].partner = j, ![j].partner = i]
<1>1. DOMAIN ns = DOMAIN ms
  OBVIOUS
<1>2. ASSUME NEW x \in DOMAIN ms
      PROVE  MemberShape(ns[x])
  <2>1. MemberShape(ms[x])
    BY DEF Shaped
  <2>2. /\ MemberShape([ms[x] EXCEPT !.partner = i])
        /\ MemberShape([ms[x] EXCEPT !.partner = j])
        /\ MemberShape([[ms[x] EXCEPT !.partner = j] EXCEPT !.partner = i])
    <3>1. ASSUME NEW m, MemberShape(m), NEW k
          PROVE  MemberShape([m EXCEPT !.partner = k])
      BY <3>1 DEF MemberShape
    <3> HIDE DEF ns
    <3> QED
      BY <2>1, <3>1
  <2>3. \/ ns[x] = ms[x] \/ ns[x] = [ms[x] EXCEPT !.partner = i]
        \/ ns[x] = [ms[x] EXCEPT !.partner = j]
        \/ ns[x] = [[ms[x] EXCEPT !.partner = j] EXCEPT !.partner = i]
    OBVIOUS
  <2> HIDE DEF ns
  <2> QED
    BY <2>1, <2>2, <2>3
<1>3. ns = [x \in DOMAIN ns |-> ns[x]]
  OBVIOUS
<1> HIDE DEF ns
<1>4. Shaped(ns) /\ DOMAIN ns = DOMAIN ms
  BY <1>1, <1>2, <1>3 DEF Shaped
<1> QED
  BY <1>4 DEF ns

LEMMA MessageHandled ==
  ASSUME Serving, NEW s, NEW id \in {0} \cup Ids, NEW to \in Ids, NEW body \in Bodies,
         Message(s, id, to, body), NEW r, r.op = "message", r.id = id, r.to = to,
         r.body = body
  PROVE  \E D, out, reply : Handled(s, r, D, out, reply)
<1> DEFINE m  == Response(200, id, Body(body, {}))
           b  == [m EXCEPT !.body = Body("busy", {})]
           ns == [members_ EXCEPT ![id].partner = to, ![to].partner = id]
           out == [i \in {to} |-> m]
<1>1. Free(s) /\ Known(id) /\ UNCHANGED s_member_id_ /\ id \in Ids
  BY ServingIds DEF Message, Known
<1>2. m \in Responses /\ m.from = id /\ m.status = 200 /\ m.body.kind = body
  BY ResponseTypes DEF Response, Body
<1>3. b \in Responses
  BY <1>2, ChannelAssumption, SMTT(30) DEF Responses, Body
<1>0. ASSUME NEW reply \in Responses, Respond(s, reply, members_, <<>>),
             ~Known(to) \/ to = id \/ InCall(members_[to])
      PROVE  \E D, o, a : Handled(s, r, D, o, a)
  <2>1. Handled(s, r, DOMAIN members_, <<>>, reply)
    BY <1>0, <1>1, AnswerHandled
  <2> QED
    BY <2>1
<1>4. CASE ~Known(to) /\ Respond(s, Failed, members_, <<>>)
  BY <1>0, <1>4, ServingIds
<1>5. CASE to = id /\ Respond(s, m, members_, <<>>)
  <2> HIDE DEF m
  <2> QED
    BY <1>0, <1>2, <1>5
<1>6. CASE InCall(members_[to]) /\ Respond(s, b, members_, <<>>)
  <2> HIDE DEF b
  <2> QED
    BY <1>0, <1>3, <1>6
<1>7. CASE Known(to) /\ to # id /\ Respond(s, Done, ns, out)
  <2>1. Shaped(ns) /\ DOMAIN ns = DOMAIN members_
    BY PairShaped DEF Serving, Orderly
  <2>2. \A i \in DOMAIN ns :
          ns[i].waiting = members_[i].waiting /\ ns[i].queue = members_[i].queue
    BY DEF Serving, Orderly, Shaped, MemberShape
  <2>3. \A i \in DOMAIN ns :
          ns[i].partner \in {members_[i].partner} \cup (IF i = id THEN {to} ELSE IF i = to THEN {id} ELSE {})
    BY <1>7 DEF Serving, Orderly, Shaped, MemberShape
  <2>4. Before(ns)
    BY <2>1, <2>2, CallsBefore DEF Serving
  <2> HIDE DEF ns
  <2>5. DOMAIN out = {to} /\ out[to] = m
    OBVIOUS
  <2> HIDE DEF out, m
  <2>6. /\ Outcome(DOMAIN members_, out, s) /\ Answers(s, Done)
        /\ \A i \in DOMAIN members_ : members_'[i].partner = ns[i].partner
    BY <1>1, <1>7, <2>1, <2>4, <2>5, RespondOutcome DEF Known
  <2>7. PartnersOK'
    BY <1>1, <1>7, <2>1, <2>3, <2>6 DEF Serving, PartnersOK, Outcome
  <2>8. Fits(DOMAIN members_, out)
    BY <1>1, <1>2, <1>7, <2>5 DEF Fits, Known
  <2>9. Typings(out)
    BY <1>2, <2>5 DEF Typings
  <2>10. Relays(r, DOMAIN members_, out)
    BY <1>1, <1>2, <1>7, <2>1, <2>3, <2>5, <2>6 DEF Relays, Relayed, InCall
  <2> QED
    BY <1>1, <2>6, <2>7, <2>8, <2>9, <2>10, ServingIds DEF Handled
<1> QED
  BY <1>4, <1>5, <1>6, <1>7 DEF Message, InCall

LEMMA HangUpHandled ==
  ASSUME Serving, NEW s, NEW id \in {0} \cup Ids, HangUp(s, id), NEW r, r.op = "hangup"
  PROVE  \E D, out, reply : Handled(s, r, D, out, reply)
<1> DEFINE p   == members_[id].partner
           ns  == [members_ EXCEPT ![id].hungup = TRUE]
           out == [i \in {id, p} |->
                     Response(200, IF i = id THEN p ELSE id, Body("hangup_confirm", {}))]
<1>1. Free(s) /\ Known(id) /\ UNCHANGED s_member_id_ /\ id \in Ids
  BY ServingIds DEF HangUp, Known
<1>2. CASE Respond(s, Done, members_, <<>>)
  BY <1>1, <1>2, ServingIds, AnswerHandled
<1>3. CASE Respond(s, Done, ns, out)
  <2>1. Shaped(ns) /\ DOMAIN ns = DOMAIN members_
    BY DEF Serving, Orderly, Shaped, MemberShape
  <2>2. \A i \in DOMAIN ns :
          /\ ns[i].waiting = members_[i].waiting /\ ns[i].queue = members_[i].queue
          /\ ns[i].partner = members_[i].partner
    BY DEF Serving, Orderly, Shaped, MemberShape
  <2>3. Before(ns)
    BY <2>1, <2>2, CallsBefore DEF Serving
  <2>4. p # id /\ p \in {0} \cup Ids
    BY <1>1, ServingIds DEF Serving, PartnersOK, Known
  <2>5. /\ DOMAIN out = {id, p}
        /\ \A i \in {id, p} : out[i] \in Responses /\ out[i].from # i
                                /\ out[i].body.kind = "hangup_confirm"
    <3>1. \A q \in {0} \cup Ids :
            LET x == Response(200, q, Body("hangup_confirm", {})) IN
            x \in Responses /\ x.from = q /\ x.body.kind = "hangup_confirm"
      BY ResponseTypes DEF Response, Body
    <3>2. /\ DOMAIN out = {id, p}
          /\ \A i \in {id, p} :
               out[i] = Response(200, IF i = id THEN p ELSE id, Body("hangup_confirm", {}))
      OBVIOUS
    <3> HIDE DEF out, p
    <3>3. ASSUME NEW i \in {id, p}, NEW q \in {0} \cup Ids, q # i,
                 out[i] = Response(200, q, Body("hangup_confirm", {}))
          PROVE  out[i] \in Responses /\ out[i].from # i /\ out[i].body.kind = "hangup_confirm"
      BY <3>1, <3>3
    <3>4. out[id] = Response(200, p, Body("hangup_confirm", {}))
      BY <3>2
    <3>5. out[p] = Response(200, id, Body("hangup_confirm", {}))
      BY <3>2, <2>4
    <3> QED
      BY <1>1, <2>4, <3>2, <3>3, <3>4, <3>5, ZenonT(60)
  <2> HIDE DEF ns, out, p
  <2>6. /\ Outcome(DOMAIN members_, out, s) /\ Answers(s, Done)
        /\ \A i \in DOMAIN members_ : members_'[i].partner = members_[i].partner
    <3>1. CASE Known(p)
      BY <1>1, <1>3, <2>1, <2>2, <2>3, <2>5, <3>1, RespondOutcome DEF Known
    <3>2. CASE ~Known(p)
      BY <1>1, <1>3, <2>1, <2>2, <2>3, <2>5, <3>2, RespondOutcome DEF Known
    <3> QED
      BY <3>1, <3>2
  <2>7. PartnersOK'
    BY <2>6 DEF Serving, PartnersOK, Outcome
  <2>8. Fits(DOMAIN members_, out)
    BY <2>5 DEF Fits
  <2>9. Typings(out)
    BY <2>5 DEF Typings
  <2>10. Relays(r, DOMAIN members_, out)
    BY <2>6 DEF Relays, InCall
  <2> QED
    BY <1>1, <2>6, <2>7, <2>8, <2>9, <2>10, ServingIds DEF Handled
<1> QED
  BY <1>2, <1>3 DEF HangUp

LEMMA NoticesAre ==
  ASSUME NEW ms, NEW kind, NEW ids
  PROVE  /\ DOMAIN Notices(ms, kind, ids) = DOMAIN ms
         /\ \A i \in DOMAIN ms :
              LET x == Notices(ms, kind, ids)[i] IN
              x.from = i /\ x.body.kind = kind /\ x.body.ids = ids
BY DEF Notices, Response, Body

LEMMA HangUpConfirmHandled ==
  ASSUME Serving, NEW s, NEW id \in {0} \cup Ids, HangUpConfirm(s, id), NEW r,
         r.op = "hangup_confirm"
  PROVE  \E D, out, reply : Handled(s, r, D, out, reply)
<1> DEFINE p   == members_[id].partner
           ns  == [members_ EXCEPT ![id].hungup = TRUE]
           ms  == [i \in DOMAIN members_ |->
                     IF i \in {id, p} THEN [members_[i] EXCEPT !.partner = 0, !.hungup = FALSE]
                     ELSE members_[i]]
           out == Notices(members_, "list", DOMAIN members_)
<1>1. Free(s) /\ Known(id) /\ UNCHANGED s_member_id_ /\ id \in Ids /\ DOMAIN members_ \subseteq Ids
  BY ServingIds DEF HangUpConfirm, Known
<1>2. CASE Respond(s, Done, members_, <<>>)
  BY <1>1, <1>2, ServingIds, AnswerHandled
<1>3. CASE Respond(s, Done, ns, <<>>)
  <2>1. Shaped(ns) /\ DOMAIN ns = DOMAIN members_
    BY DEF Serving, Orderly, Shaped, MemberShape
  <2>2. \A i \in DOMAIN ns :
          /\ ns[i].waiting = members_[i].waiting /\ ns[i].queue = members_[i].queue
          /\ ns[i].partner = members_[i].partner
    BY DEF Serving, Orderly, Shaped, MemberShape
  <2> HIDE DEF ns
  <2>3. Before(ns)
    BY <2>1, <2>2, CallsBefore DEF Serving
  <2>4. /\ Outcome(DOMAIN members_, <<>>, s) /\ Answers(s, Done)
        /\ \A i \in DOMAIN members_ : members_'[i].partner = members_[i].partner
    BY <1>1, <1>3, <2>1, <2>2, <2>3, NoNews, RespondOutcome
  <2>5. PartnersOK'
    BY <2>4 DEF Serving, PartnersOK, Outcome
  <2>6. Relays(r, DOMAIN members_, <<>>)
    BY <2>4, NoNews DEF Relays, InCall
  <2> QED
    BY <1>1, <2>4, <2>5, <2>6, NoNews, ServingIds DEF Handled
<1>4. CASE Respond(s, Done, ms, out)
  <2>1. Shaped(ms) /\ DOMAIN ms = DOMAIN members_
    BY DEF Serving, Orderly, Shaped, MemberShape
  <2>2. \A i \in DOMAIN ms :
          /\ ms[i].waiting = members_[i].waiting /\ ms[i].queue = members_[i].queue
          /\ ms[i].partner \in {0, members_[i].partner}
    BY DEF Serving, Orderly, Shaped, MemberShape
  <2> HIDE DEF ms
  <2>3. Before(ms)
    BY <2>1, <2>2, CallsBefore DEF Serving
  <2>4. /\ DOMAIN out = DOMAIN members_
        /\ \A i \in DOMAIN members_ : /\ out[i].from = i /\ out[i].body.kind = "list"
                                      /\ out[i].body.ids = DOMAIN members_
    BY NoticesAre
  <2>5. Typings(out)
    BY <1>1, NoticesTyped
  <2>6. DOMAIN members_ # {} /\ First(DOMAIN members_) \in DOMAIN members_
    BY <1>1, LeastId DEF Known
  <2> HIDE DEF out
  <2>7. Fits(DOMAIN members_, out)
    <3>1. DOMAIN members_ \cup {First(DOMAIN members_)} = DOMAIN members_ /\ "list" # "left"
      BY <2>6
    <3> QED
      BY <2>4, <2>6, <3>1 DEF Fits
  <2>8. /\ Outcome(DOMAIN members_, out, s) /\ Answers(s, Done)
        /\ \A i \in DOMAIN members_ : members_'[i].partner = ms[i].partner
    BY <1>1, <1>4, <2>1, <2>3, <2>4, RespondOutcome
  <2>9. PartnersOK'
    BY <1>1, <2>1, <2>2, <2>8 DEF Serving, PartnersOK, Outcome, Ids
  <2>10. Relays(r, DOMAIN members_, out)
    BY <2>1, <2>2, <2>4, <2>8 DEF Relays, InCall
  <2> QED
    BY <1>1, <2>5, <2>7, <2>8, <2>9, <2>10, ServingIds DEF Handled
<1> QED
  BY <1>2, <1>3, <1>4 DEF HangUpConfirm

LEMMA RemovalFits ==
  ASSUME NEW id \in DOMAIN members_, DOMAIN members_ \subseteq Ids, NEW out,
         DOMAIN out = DOMAIN members_ \ {id},
         \A i \in DOMAIN out : /\ out[i].from = i /\ out[i].body.kind = "left"
                               /\ out[i].body.ids = {id}
  PROVE  Fits(DOMAIN members_ \ {id}, out)
<1>1. First({id}) = id
  BY LeastId
<1> QED
  BY <1>1 DEF Fits

LEMMA SignOutHandled ==
  ASSUME Serving, NEW s, NEW r, SignOut(s, r.id), r.op = "sign_out"
  PROVE  \E D, out, reply : Handled(s, r, D, out, reply)
<1> DEFINE id == r.id
           p  == members_[id].partner
           ns == IF Known(p) THEN [members_ EXCEPT ![p].partner = 0] ELSE members_
           ms == Without(ns, id)
           D  == DOMAIN members_ \ {id}
           reply == Response(200, 0, Body("list", DOMAIN ms))
           out == Notices(ms, "left", {id})
<1>1. /\ Free(s) /\ Known(id) /\ UNCHANGED s_member_id_ /\ id \in Ids /\ DOMAIN members_ \subseteq Ids
      /\ Respond(s, reply, ms, out)
  BY ServingIds DEF SignOut, Known
<1>2. /\ Shaped(ns) /\ DOMAIN ns = DOMAIN members_
      /\ \A i \in DOMAIN ns :
           /\ ns[i].waiting = members_[i].waiting /\ ns[i].queue = members_[i].queue
           /\ ns[i].partner \in {0, members_[i].partner}
  <2>1. Shaped(members_)
    BY DEF Serving, Orderly
  <2>2. CASE ~Known(p)
    <3>1. ns = members_
      BY <2>2
    <3> HIDE DEF ns
    <3> QED
      BY <2>1, <3>1 DEF Shaped
  <2>3. CASE Known(p)
    <3>1. /\ DOMAIN ns = DOMAIN members_
          /\ \A i \in DOMAIN members_ \ {p} : ns[i] = members_[i]
          /\ ns[p] = [members_[p] EXCEPT !.partner = 0]
          /\ ns = [i \in DOMAIN ns |-> ns[i]]
      BY <2>1, <2>3 DEF Shaped, Known
    <3>2. /\ MemberShape(ns[p]) /\ ns[p].partner = 0
          /\ ns[p].waiting = members_[p].waiting /\ ns[p].queue = members_[p].queue
      BY <2>1, <2>3, <3>1 DEF Shaped, MemberShape, Known
    <3> HIDE DEF ns
    <3> QED
      BY <2>1, <3>1, <3>2 DEF Shaped
  <2> QED
    BY <2>2, <2>3
<1> HIDE DEF ns
<1>3. /\ Shaped(ms) /\ DOMAIN ms = D
      /\ \A i \in DOMAIN ms :
           /\ ms[i].waiting = members_[i].waiting /\ ms[i].queue = members_[i].queue
           /\ ms[i].partner \in {0, members_[i].partner}
  BY <1>2 DEF Without, Shaped
<1> HIDE DEF ms
<1>4. Before(ms)
  BY <1>3, CallsBefore DEF Serving
<1>5. /\ DOMAIN out = D
      /\ \A i \in D : out[i].from = i /\ out[i].body.kind = "left" /\ out[i].body.ids = {id}
  BY <1>3, NoticesAre
<1>6. Typings(out)
  BY <1>1, <1>3, NoticesTyped
<1>7. reply \in Responses
  BY <1>1, <1>3, ResponseTypes
<1> HIDE DEF out, reply
<1>8. Fits(D, out)
  BY <1>1, <1>5, RemovalFits DEF Known
<1>9. /\ Outcome(D, out, s) /\ Answers(s, reply)
      /\ \A i \in D : members_'[i].partner = ms[i].partner
  BY <1>1, <1>3, <1>4, <1>5, RespondOutcome
<1>10. PartnersOK'
  BY <1>1, <1>3, <1>9 DEF Serving, PartnersOK, Outcome, Ids
<1>11. Relays(r, D, out)
  BY <1>3, <1>5, <1>9 DEF Relays, InCall
<1> QED
  BY <1>1, <1>6, <1>7, <1>8, <1>9, <1>10, <1>11 DEF Handled

LEMMA SignInHandled ==
  ASSUME Serving, NEW s, NEW r, SignIn(s), r.op = "sign_in"
  PROVE  \E D, out, reply : Handled(s, r, D, out, reply)
<1> DEFINE id == s_member_id_ + 1
           ms == With(members_, id)
           D  == DOMAIN members_ \cup {id}
           reply == Response(200, id, Body("list", DOMAIN ms))
           out == Notices(members_, "joined", {id})
<1>1. /\ Free(s) /\ id \in Ids /\ s_member_id_' = id /\ Respond(s, reply, ms, out)
      /\ DOMAIN members_ \subseteq Ids
  BY ServingIds DEF SignIn
<1>2. id \notin DOMAIN members_
  BY ChannelAssumption DEF Serving, ChannelTypeOK
<1> HIDE DEF id
<1>3. /\ DOMAIN ms = D /\ ms[id] = NewMember
      /\ \A i \in DOMAIN members_ : ms[i] = members_[i]
  BY <1>2 DEF With
<1>4. Orderly(ms)
  BY WithOrderly DEF Serving
<1> HIDE DEF ms
<1>5. Before(ms)
  BY <1>2, <1>3, <1>4 DEF Before, NewMember
<1>6. /\ DOMAIN out = DOMAIN members_
      /\ \A i \in DOMAIN members_ : /\ out[i].from = i /\ out[i].body.kind = "joined"
                                    /\ out[i].body.ids = {id}
  BY NoticesAre
<1>7. Typings(out)
  BY <1>1, NoticesTyped
<1>8. reply \in Responses
  BY <1>1, <1>3, ResponseTypes, ZenonT(60)
<1>9. reply = Response(200, id, Body("list", D))
  BY <1>3
<1> HIDE DEF out, reply
<1>10. Fits(D, out)
  <2>1. First({id}) = id
    BY <1>1, LeastId
  <2> QED
    BY <1>6, <2>1 DEF Fits
<1>11. /\ Outcome(D, out, s) /\ Answers(s, reply)
       /\ \A i \in D : members_'[i].partner = ms[i].partner
  BY <1>1, <1>3, <1>5, <1>6, RespondOutcome
<1>12. PartnersOK'
  <2>1. ms[id].partner = 0 /\ id # 0
    BY <1>1, <1>3 DEF NewMember, Ids
  <2>2. DOMAIN members_' = D
    BY <1>11 DEF Outcome
  <2> QED
    BY <1>3, <1>11, <2>1, <2>2 DEF Serving, PartnersOK
<1>13. Relays(r, D, out)
  BY <1>3, <1>6, <1>11 DEF Relays, InCall, NewMember
<1> QED
  BY <1>1, <1>7, <1>8, <1>9, <1>10, <1>11, <1>12, <1>13 DEF Handled, id

LEMMA HandleHandled ==
  ASSUME Serving, NEW s, NEW r \in Requests, Handle(s, r),
         r.op = "message" => r.to # 0 /\ r.body # ""
  PROVE  \E D, out, reply : Handled(s, r, D, out, reply)
<1>1. r.id \in {0} \cup Ids /\ (r.op = "message" => r.to \in Ids /\ r.body \in Bodies)
  BY DEF Requests
<1>2. CASE r.op = "sign_in" /\ SignIn(s)
  BY <1>2, SignInHandled
<1>3. CASE r.op # "sign_in" /\ Unknown(s, r.id)
  BY <1>3, UnknownHandled
<1>4. CASE r.op = "message" /\ Message(s, r.id, r.to, r.body)
  BY <1>1, <1>4, MessageHandled
<1>5. CASE r.op = "hangup" /\ HangUp(s, r.id)
  BY <1>1, <1>5, HangUpHandled
<1>6. CASE r.op = "hangup_confirm" /\ HangUpConfirm(s, r.id)
  BY <1>1, <1>6, HangUpConfirmHandled
<1>7. CASE r.op = "sign_out" /\ SignOut(s, r.id)
  BY <1>7, SignOutHandled
<1> QED
  BY <1>2, <1>3, <1>4, <1>5, <1>6, <1>7 DEF Handle

\* A member that times out.
LEMMA TimeoutHandled ==
  ASSUME Serving, NEW id, CheckForTimeout(id)
  PROVE  LET D == DOMAIN members_ \ {id} IN
         \E out : /\ Outcome(D, out, NoSocket) /\ Fits(D, out) /\ Typings(out)
                  /\ \A r : r.op = "timeout" => Relays(r, D, out)
                  /\ PartnersOK' /\ UNCHANGED s_member_id_
                  /\ id \in DOMAIN members_ /\ members_[id].waiting = NoSocket
<1> DEFINE ms  == Without(members_, id)
           out == Notices(ms, "left", {id})
           D   == DOMAIN members_ \ {id}
<1>1. /\ Known(id) /\ members_[id].waiting = NoSocket /\ UNCHANGED s_member_id_
      /\ members_' = Posted(ms, out) /\ sent' = Answered(ms, out)
      /\ DOMAIN members_ \subseteq Ids
  BY ServingIds DEF CheckForTimeout, TimedOut
<1>2. /\ DOMAIN ms = D /\ \A i \in D : ms[i] = members_[i]
      /\ ms = [i \in DOMAIN ms |-> ms[i]]
  BY DEF Without
<1> HIDE DEF ms
<1>3. Shaped(ms)
  BY <1>2 DEF Serving, Orderly, Shaped
<1>4. Before(ms)
  BY <1>2, <1>3, CallsBefore DEF Serving
<1>5. /\ DOMAIN out = D
      /\ \A i \in D : out[i].from = i /\ out[i].body.kind = "left" /\ out[i].body.ids = {id}
  BY <1>2, NoticesAre
<1>6. Typings(out)
  BY <1>1, <1>2, NoticesTyped DEF Known
<1> HIDE DEF out
<1>7. Fits(D, out)
  BY <1>1, <1>5, RemovalFits DEF Known
<1>8. Outcome(D, out, NoSocket) /\ \A i \in D : members_'[i].partner = ms[i].partner
  BY <1>1, <1>2, <1>4, <1>5, PostOutcome
<1>9. PartnersOK'
  BY <1>2, <1>8 DEF Serving, PartnersOK, Outcome
<1>10. \A r : r.op = "timeout" => Relays(r, D, out)
  BY <1>2, <1>5, <1>8 DEF Relays, InCall
<1> QED
  BY <1>1, <1>6, <1>7, <1>8, <1>9, <1>10 DEF Known

-----------------------------------------------------------------------------
(***************************************************************************)
(* The server's part of a step of the session.                             *)
(***************************************************************************)
LEMMA RequestsAre ==
  ASSUME NEW e, Alone(e), NEW r \in Asked(e)
  PROVE  r \in Requests /\ (r.op = "message" => r.to # 0 /\ r.body # "")
<1>1. e \in ClientType
  BY DEF Alone
<1>2. r \in Requests
  BY <1>1, One DEF Asked, ClientType
<1> QED
  BY <1>2 DEF Alone, Asks

LEMMA PollNext ==
  ASSUME NEW s \in Sockets, NEW id \in {0} \cup Ids, Poll(s, id)
  PROVE  Next
BY DEF Poll, Next, Request

LEMMA SessionNextIsNext ==
  ASSUME ClientsOK, IdsOK, used \in [Uses -> Nat], [SessionNext]_session
  PROVE  [Next]_channel
<1>1. ASSUME NEW c \in Clients
      PROVE  /\ client[c] \in ClientType /\ Apt(client[c]) /\ client[c].id \in {0} \cup Ids
             /\ client[c].wait # "none" => client[c].id \in Ids
             /\ \A d \in client[c].dead : d[1] \in Ids
             /\ <<c, "control">> \in Sockets /\ <<c, "closed">> \in Sockets
             /\ \A i \in Ids : <<c, "wait", i>> \in Sockets
  <2>1. client[c] \in ClientType /\ Apt(client[c])
    BY DEF ClientsOK, IdsOK, Apt, Alone
  <2>2. client[c].wait # "none" => client[c].id # 0
    BY DEF ClientsOK, Alone, Unsigned
  <2> QED
    BY <2>1, <2>2, OurSockets DEF ClientType, Gets
<1>2. ASSUME NEW c \in Clients, ServeControl(c)
      PROVE  Next
  <2>1. client[c].ctl[1] \in Asked(client[c])
    <3>1. client[c].ctl \in AtMostOne(Requests) /\ client[c].ctl # <<>>
      BY <1>1, <1>2 DEF ServeControl, ClientType
    <3>2. DOMAIN client[c].ctl = {1}
      BY <3>1, One
    <3> QED
      BY <3>2 DEF Asked
  <2> QED
    BY <1>1, <1>2, <2>1, RequestsAre, HandleNext DEF ServeControl, Apt
<1>3. ASSUME NEW c \in Clients, ServeClosed(c)
      PROVE  Next
  <2>1. PICK r \in client[c].stray : Handle(<<c, "closed">>, r)
    BY <1>3 DEF ServeClosed
  <2>2. r \in Asked(client[c])
    BY DEF Asked
  <2> QED
    BY <1>1, <2>1, <2>2, RequestsAre, HandleNext DEF Apt
<1>4. ASSUME NEW c \in Clients, ServeWait(c)
      PROVE  Next
  BY <1>1, <1>4, PollNext DEF ServeWait
<1>5. ASSUME NEW c \in Clients, ServeDeadWait(c)
      PROVE  Next
  <2>1. PICK d \in client[c].dead :
          Poll(<<c, "wait", d[1]>>, d[1]) \/ CloseSocket(<<c, "wait", d[1]>>)
    BY <1>5 DEF ServeDeadWait
  <2>2. d[1] \in Ids /\ <<c, "wait", d[1]>> \in Sockets
    BY <1>1
  <2> QED
    BY <2>1, <2>2, PollNext DEF Next
<1>6. ASSUME NEW id \in Ids, Expire(id)
      PROVE  Next
  BY <1>6 DEF Expire, Next
<1>7. ASSUME NEW c \in Clients, OwnStep(c)
      PROVE  UNCHANGED channel
  BY <1>1, <1>7, OwnStepIs
<1>8. CASE UNCHANGED session
  BY <1>8 DEF session
<1> QED
  BY <1>2, <1>3, <1>4, <1>5, <1>6, <1>7, <1>8
     DEF SessionNext, SystemStep, ServerStep, OwnStep

-----------------------------------------------------------------------------
(***************************************************************************)
(* What a client will have made of its peers: with one more message at the *)
(* end of the mail, and with the first one read.                           *)
(***************************************************************************)
Told(i, peers, r) ==
  {p \in Ids : IF ReadsOf(i, r, p) THEN r.body.kind # "left" ELSE p \in peers}

LEMMA ThenSame ==
  ASSUME NEW i, NEW peers, NEW mail, NEW more, NEW n \in Nat,
         \A k \in 1 .. n : more[k] = mail[k]
  PROVE  PeersThen(i, peers, more, n) = PeersThen(i, peers, mail, n)
BY DEF PeersThen

LEMMA ThenLast ==
  ASSUME NEW i, NEW peers, NEW mail, NEW n \in Nat
  PROVE  PeersThen(i, peers, mail, n + 1) = Told(i, PeersThen(i, peers, mail, n), mail[n + 1])
<1> SUFFICES ASSUME NEW p \in Ids
             PROVE  p \in PeersThen(i, peers, mail, n + 1)
                      <=> p \in Told(i, PeersThen(i, peers, mail, n), mail[n + 1])
  BY DEF PeersThen, Told
<1> DEFINE L(k) == Left(i, mail[k], p)
           T(k) == There(i, mail[k], p)
           r    == mail[n + 1]
<1>1. p \in PeersThen(i, peers, mail, n + 1) <=>
        \/ p \in peers /\ \A k \in 1 .. n + 1 : ~L(k)
        \/ \E k \in 1 .. n + 1 : T(k) /\ \A j \in k + 1 .. n + 1 : ~L(j)
  BY DEF PeersThen
<1>2. p \in PeersThen(i, peers, mail, n) <=>
        \/ p \in peers /\ \A k \in 1 .. n : ~L(k)
        \/ \E k \in 1 .. n : T(k) /\ \A j \in k + 1 .. n : ~L(j)
  BY DEF PeersThen
<1>3. /\ L(n + 1) <=> ReadsOf(i, r, p) /\ r.body.kind = "left"
      /\ T(n + 1) <=> ReadsOf(i, r, p) /\ r.body.kind # "left"
  BY DEF Left, There
<1>4. p \in Told(i, PeersThen(i, peers, mail, n), r) <=>
        IF ReadsOf(i, r, p) THEN r.body.kind # "left" ELSE p \in PeersThen(i, peers, mail, n)
  BY DEF Told
<1> HIDE DEF L, T, r
<1>5. CASE L(n + 1)
  <2>1. \A k \in 1 .. n + 1 : k = n + 1 \/ n + 1 \in k + 1 .. n + 1
    OBVIOUS
  <2>2. n + 1 \in 1 .. n + 1 /\ ~T(n + 1)
    BY <1>3, <1>5
  <2> QED
    BY <1>1, <1>3, <1>4, <1>5, <2>1, <2>2 DEF r
<1>6. CASE T(n + 1)
  <2>1. n + 1 \in 1 .. n + 1 /\ (n + 1) + 1 .. n + 1 = {}
    OBVIOUS
  <2> QED
    BY <1>1, <1>3, <1>4, <1>6, <2>1 DEF r
<1>7. CASE ~L(n + 1) /\ ~T(n + 1)
  <2>1. 1 .. n + 1 = (1 .. n) \cup {n + 1}
    OBVIOUS
  <2>2. \A k \in 1 .. n : k + 1 .. n + 1 = (k + 1 .. n) \cup {n + 1}
    OBVIOUS
  <2>3. (\A k \in 1 .. n + 1 : ~L(k)) <=> (\A k \in 1 .. n : ~L(k))
    BY <1>7, <2>1
  <2>4. (\E k \in 1 .. n + 1 : T(k) /\ \A j \in k + 1 .. n + 1 : ~L(j))
          <=> (\E k \in 1 .. n : T(k) /\ \A j \in k + 1 .. n : ~L(j))
    BY <1>7, <2>1, <2>2
  <2>5. ~ReadsOf(i, r, p)
    BY <1>3, <1>7
  <2> QED
    BY <1>1, <1>2, <1>4, <2>3, <2>4, <2>5 DEF r
<1> QED
  BY <1>5, <1>6, <1>7

LEMMA ThenFirst ==
  ASSUME NEW i, NEW peers, NEW mail, NEW rest, NEW n \in Nat,
         \A k \in 1 .. n : mail[k + 1] = rest[k]
  PROVE  PeersThen(i, peers, mail, n + 1) = PeersThen(i, Told(i, peers, mail[1]), rest, n)
<1> SUFFICES ASSUME NEW p \in Ids
             PROVE  p \in PeersThen(i, peers, mail, n + 1)
                      <=> p \in PeersThen(i, Told(i, peers, mail[1]), rest, n)
  BY DEF PeersThen
<1> DEFINE L(k) == Left(i, mail[k], p)
           T(k) == There(i, mail[k], p)
           r    == mail[1]
           was  == p \in Told(i, peers, r)
<1>1. p \in PeersThen(i, peers, mail, n + 1) <=>
        \/ p \in peers /\ \A k \in 1 .. n + 1 : ~L(k)
        \/ \E k \in 1 .. n + 1 : T(k) /\ \A j \in k + 1 .. n + 1 : ~L(j)
  BY DEF PeersThen
<1>2. p \in PeersThen(i, Told(i, peers, r), rest, n) <=>
        \/ was /\ \A k \in 1 .. n : ~L(k + 1)
        \/ \E k \in 1 .. n : T(k + 1) /\ \A j \in k + 1 .. n : ~L(j + 1)
  <2>1. \A k \in 1 .. n : (Left(i, rest[k], p) <=> L(k + 1)) /\ (There(i, rest[k], p) <=> T(k + 1))
    OBVIOUS
  <2> HIDE DEF L, T
  <2>2. \A k \in 1 .. n : \A j \in k + 1 .. n : j \in 1 .. n
    OBVIOUS
  <2>3. p \in PeersThen(i, Told(i, peers, r), rest, n) <=>
          \/ was /\ \A k \in 1 .. n : ~Left(i, rest[k], p)
          \/ \E k \in 1 .. n : There(i, rest[k], p) /\ \A j \in k + 1 .. n : ~Left(i, rest[j], p)
    BY DEF PeersThen
  <2> HIDE DEF was
  <2> QED
    BY <2>1, <2>2, <2>3
<1>3. /\ L(1) <=> ReadsOf(i, r, p) /\ r.body.kind = "left"
      /\ T(1) <=> ReadsOf(i, r, p) /\ r.body.kind # "left"
  BY DEF Left, There
<1>4. was <=> IF ReadsOf(i, r, p) THEN r.body.kind # "left" ELSE p \in peers
  BY DEF Told
<1> HIDE DEF L, T, r, was
<1>5. was <=> T(1) \/ (p \in peers /\ ~L(1))
  BY <1>3, <1>4
<1>6. (\A k \in 1 .. n + 1 : ~L(k)) <=> ~L(1) /\ (\A k \in 1 .. n : ~L(k + 1))
  <2>1. ASSUME NEW k \in 1 .. n + 1, k # 1 PROVE k - 1 \in 1 .. n /\ (k - 1) + 1 = k
    BY <2>1
  <2>2. 1 \in 1 .. n + 1 /\ \A k \in 1 .. n : k + 1 \in 1 .. n + 1
    OBVIOUS
  <2> QED
    BY <2>1, <2>2
<1>7. \A k \in 0 .. n : (\A j \in (k + 1) + 1 .. n + 1 : ~L(j)) <=> (\A j \in k + 1 .. n : ~L(j + 1))
  <2> SUFFICES ASSUME NEW k \in 0 .. n
               PROVE  (\A j \in (k + 1) + 1 .. n + 1 : ~L(j)) <=> (\A j \in k + 1 .. n : ~L(j + 1))
    OBVIOUS
  <2>1. ASSUME NEW j \in (k + 1) + 1 .. n + 1 PROVE j - 1 \in k + 1 .. n /\ (j - 1) + 1 = j
    OBVIOUS
  <2>2. \A j \in k + 1 .. n : j + 1 \in (k + 1) + 1 .. n + 1
    OBVIOUS
  <2> QED
    BY <2>1, <2>2
<1>8. (\E k \in 1 .. n + 1 : T(k) /\ \A j \in k + 1 .. n + 1 : ~L(j)) <=>
        \/ T(1) /\ \A j \in 1 .. n : ~L(j + 1)
        \/ \E k \in 1 .. n : T(k + 1) /\ \A j \in k + 1 .. n : ~L(j + 1)
  <2>1. (\A j \in 1 + 1 .. n + 1 : ~L(j)) <=> (\A j \in 1 .. n : ~L(j + 1))
    BY <1>7
  <2>2. \A k \in 1 .. n + 1 : k = 1 \/ \E m \in 1 .. n : k = m + 1
    <3>1. ASSUME NEW k \in 1 .. n + 1, k # 1 PROVE k - 1 \in 1 .. n /\ k = (k - 1) + 1
      BY <3>1
    <3> QED
      BY <3>1
  <2>3. 1 \in 1 .. n + 1 /\ \A k \in 1 .. n : k + 1 \in 1 .. n + 1 /\ k \in 0 .. n
    OBVIOUS
  <2> QED
    BY <1>7, <2>1, <2>2, <2>3
<1> QED
  BY <1>1, <1>2, <1>5, <1>6, <1>8 DEF r

LEMMA ToldIs ==
  ASSUME NEW i, NEW peers \in SUBSET Ids, NEW r \in Responses, Notice(i, r)
  PROVE  Told(i, peers, r) =
           IF r.from # i THEN peers
           ELSE IF r.body.kind = "left" THEN peers \ {First(r.body.ids)}
           ELSE peers \cup {First(r.body.ids)}
<1>1. CASE r.from # i
  BY <1>1 DEF Told, ReadsOf
<1>2. CASE r.from = i
  <2>1. First(r.body.ids) \in Ids
    BY <1>2, ResponseShape, LeastId DEF Notice
  <2> QED
    BY <1>2, <2>1 DEF Told, ReadsOf
<1> QED
  BY <1>1, <1>2

\* The mail of a member grows by what the server posts to it.
LEMMA MailGrows ==
  ASSUME NEW i, NEW peers, NEW mail \in Seq(Responses), NEW r \in Responses, NEW ms, NEW D,
         MailOK(i, peers, mail, ms),
         IF r.from = i
         THEN /\ r.body.ids # {}
              /\ IF r.body.kind = "left" THEN D = ms \ {First(r.body.ids)}
                 ELSE D = ms \cup {First(r.body.ids)}
         ELSE D = ms /\ (r.body.kind = "hangup_confirm" \/ r.from \in D)
  PROVE  MailOK(i, peers, Append(mail, r), D)
<1> DEFINE n    == Len(mail)
           more == Append(mail, r)
           P(k) == PeersThen(i, peers, mail, k)
           Q(k) == PeersThen(i, peers, more, k)
<1>1. /\ n \in Nat /\ Len(more) = n + 1 /\ more[n + 1] = r
      /\ \A k \in 1 .. n : more[k] = mail[k]
  OBVIOUS
<1> HIDE DEF n, more
<1>2. \A k \in 0 .. n : Q(k) = P(k)
  <2> SUFFICES ASSUME NEW k \in 0 .. n PROVE Q(k) = P(k)
    OBVIOUS
  <2>1. k \in Nat /\ \A j \in 1 .. k : more[j] = mail[j]
    BY <1>1
  <2> QED
    BY <2>1, ThenSame
<1>3. Q(n + 1) = Told(i, P(n), r)
  <2>1. Q(n + 1) = Told(i, Q(n), more[n + 1])
    BY <1>1, ThenLast
  <2>2. Q(n) = P(n)
    BY <1>1, <1>2
  <2> QED
    BY <1>1, <2>1, <2>2
<1>4. P(n) \in SUBSET Ids
  BY DEF PeersThen
<1>5. P(n) \ {i} = ms \ {i}
  BY DEF MailOK, n
<1>6. \A k \in 1 .. n : mail[k].from # i /\ mail[k].body.kind # "hangup_confirm" =>
                          mail[k].from \in P(k - 1)
  BY DEF MailOK, n
<1> HIDE DEF P, Q
<1>7. Q(n + 1) \ {i} = D \ {i}
  <2>1. Notice(i, r)
    BY DEF Notice
  <2>2. Told(i, P(n), r) = IF r.from # i THEN P(n)
                           ELSE IF r.body.kind = "left" THEN P(n) \ {First(r.body.ids)}
                           ELSE P(n) \cup {First(r.body.ids)}
    BY <1>4, <2>1, ToldIs
  <2> QED
    BY <1>3, <1>5, <2>2
<1>8. \A k \in 1 .. n + 1 : more[k].from # i /\ more[k].body.kind # "hangup_confirm" =>
                              more[k].from \in Q(k - 1)
  <2> SUFFICES ASSUME NEW k \in 1 .. n + 1, more[k].from # i,
                      more[k].body.kind # "hangup_confirm"
               PROVE  more[k].from \in Q(k - 1)
    OBVIOUS
  <2>1. CASE k \in 1 .. n
    <3>1. k - 1 \in 0 .. n
      BY <1>1, <2>1
    <3> QED
      BY <1>1, <1>2, <1>6, <2>1, <3>1
  <2>2. CASE k = n + 1
    <3>1. k - 1 = n /\ n \in 0 .. n
      BY <1>1, <2>2
    <3>2. r.from \in D /\ D = ms /\ r.from # i
      BY <1>1, <2>2
    <3>3. Q(k - 1) = P(n)
      BY <1>2, <3>1
    <3> QED
      BY <1>1, <1>5, <2>2, <3>2, <3>3
  <2> QED
    BY <1>1, <2>1, <2>2
<1> QED
  BY <1>1, <1>7, <1>8 DEF MailOK, Q, more

LEMMA ThenTold ==
  ASSUME NEW e, NEW peers \in SUBSET Ids, peers = e.peers, NEW i, i = e.id,
         NEW r \in Responses, Notice(i, r)
  PROVE  Then(e, r) = Told(i, peers, r)
<1>1. Told(i, peers, r) = IF r.from # i THEN peers
                          ELSE IF r.body.kind = "left" THEN peers \ {First(r.body.ids)}
                          ELSE peers \cup {First(r.body.ids)}
  BY ONLY peers \in SUBSET Ids, r \in Responses, Notice(i, r), ToldIs
<1> QED
  BY <1>1 DEF Then

\* It shrinks by what the client reads.
LEMMA MailShrinks ==
  ASSUME NEW i, NEW peers \in SUBSET Ids, NEW r \in Responses,
         NEW rest \in Seq(Responses), NEW ms, MailOK(i, peers, <<r>> \o rest, ms)
  PROVE  /\ MailOK(i, Told(i, peers, r), rest, ms)
         /\ r.from # i /\ r.body.kind # "hangup_confirm" => r.from \in peers
<1> DEFINE n    == Len(rest)
           mail == <<r>> \o rest
           P(k) == PeersThen(i, peers, mail, k)
           Q(k) == PeersThen(i, Told(i, peers, r), rest, k)
<1>1. /\ n \in Nat /\ Len(mail) = n + 1 /\ mail[1] = r
      /\ \A k \in 1 .. n : mail[k + 1] = rest[k]
  OBVIOUS
<1> HIDE DEF n, mail
<1>2. \A k \in 0 .. n : P(k + 1) = Q(k)
  <2> SUFFICES ASSUME NEW k \in 0 .. n PROVE P(k + 1) = Q(k)
    OBVIOUS
  <2>1. k \in Nat /\ \A j \in 1 .. k : mail[j + 1] = rest[j]
    BY <1>1
  <2> QED
    BY <1>1, <2>1, ThenFirst
<1>3. P(0) = peers
  BY DEF PeersThen
<1>4. P(n + 1) \ {i} = ms \ {i}
  BY <1>1 DEF MailOK, mail
<1>5. \A k \in 1 .. n + 1 : mail[k].from # i /\ mail[k].body.kind # "hangup_confirm" =>
                              mail[k].from \in P(k - 1)
  BY <1>1 DEF MailOK, mail
<1> HIDE DEF P, Q
<1>6. Q(n) \ {i} = ms \ {i}
  BY <1>1, <1>2, <1>4
<1>7. \A k \in 1 .. n : rest[k].from # i /\ rest[k].body.kind # "hangup_confirm" =>
                          rest[k].from \in Q(k - 1)
  <2> SUFFICES ASSUME NEW k \in 1 .. n, rest[k].from # i, rest[k].body.kind # "hangup_confirm"
               PROVE  rest[k].from \in Q(k - 1)
    OBVIOUS
  <2>1. k + 1 \in 1 .. n + 1 /\ (k + 1) - 1 = (k - 1) + 1 /\ k - 1 \in 0 .. n
    BY <1>1
  <2>2. P((k + 1) - 1) = Q(k - 1)
    BY <1>2, <2>1
  <2> QED
    BY <1>1, <1>5, <2>1, <2>2
<1>8. r.from # i /\ r.body.kind # "hangup_confirm" => r.from \in peers
  <2>1. 1 \in 1 .. n + 1 /\ 1 - 1 = 0
    BY <1>1
  <2> QED
    BY <1>1, <1>3, <1>5, <2>1
<1> QED
  BY <1>6, <1>7, <1>8 DEF MailOK, Q, n

-----------------------------------------------------------------------------
(***************************************************************************)
(* What a step of the server does to the clients: f is what becomes of e.  *)
(***************************************************************************)
Same(e, f) ==
  /\ f \in ClientType
  /\ f.st = e.st /\ f.id = e.id /\ f.peers = e.peers /\ f.ctl = e.ctl /\ f.wait = e.wait
  /\ f.dead = e.dead /\ f.peer = e.peer /\ f.pc = e.pc /\ f.jobs = e.jobs
  /\ f.gather = e.gather /\ f.pending = e.pending /\ f.again = e.again /\ f.left = e.left
  /\ f.stray \subseteq e.stray

\* The server holds the hanging get of c and has a message to send down it.
Posts(c, D, out) ==
  LET i == client[c].id IN
    /\ Held(client[c], i)
    /\ i \in D \cap DOMAIN members_ \cap DOMAIN out
    /\ members_[i].waiting = Gets(c, i)

\* The answer to the request on the control socket.
Replied(e, f, D, reply) ==
  /\ e.ctl # <<>> /\ e.reply = <<>> /\ f.reply = <<reply>> /\ reply \in Responses
  /\ e.id = 0 => /\ reply = Response(200, s_member_id_', Body("list", D))
                 /\ s_member_id_' = s_member_id_ + 1 /\ s_member_id_' \in D

Serves(D, out, s, reply) ==
  /\ Outcome(D, out, s) /\ Fits(D, out) /\ Typings(out)
  /\ used' = used /\ DOMAIN client' = Clients
  /\ D \ DOMAIN members_ \subseteq {s_member_id_ + 1}
  /\ s_member_id_' \in {s_member_id_, s_member_id_ + 1}
  /\ \A i \in DOMAIN members_ \ D :
       members_[i].waiting = NoSocket \/ \A c \in Clients : client[c].id = i => client[c].left
  /\ \A c \in Clients :
       LET e == client[c]
           f == client'[c]
       IN  /\ Same(e, f)
           /\ f.note = IF Posts(c, D, out) THEN <<out[e.id]>> ELSE e.note
           /\ IF s = <<c, "control">> THEN Replied(e, f, D, reply) ELSE f.reply = e.reply

\* The step handles the request r of a client, on s, or lets a member time out.
Requested(s, r) ==
  \/ r.op = "timeout" /\ \A d \in Clients : s # <<d, "control">>
  \/ \E c \in Clients :
       /\ r \in Asked(client[c])
       /\ \A d \in Clients : s = <<d, "control">> =>
            d = c /\ client[c].ctl # <<>> /\ r = client[c].ctl[1]

LEMMA HoldsIs ==
  ASSUME NEW e, Alone(e)
  PROVE  /\ e.wait # "none" => e.id \in Holds(e)
         /\ e.id # 0 => e.id \in Holds(e)
         /\ \A i, x : <<i, x>> \in e.dead => i \in Holds(e)
         /\ \A r \in Asked(e) : r.id # 0 => r.id \in Holds(e)
         /\ Given(e) \subseteq Holds(e)
         /\ e.id \in {0} \cup Ids
<1>1. e \in ClientType
  BY DEF Alone
<1>2. e.id \in {0} \cup Ids /\ e.dead \subseteq Ids \X {"asked", "held"}
  BY <1>1 DEF ClientType
<1>3. \A i, x : <<i, x>> \in e.dead => i \in Holds(e)
  <2> SUFFICES ASSUME NEW i, NEW x, <<i, x>> \in e.dead PROVE i \in Holds(e)
    OBVIOUS
  <2>1. i \in Ids /\ i \in {d[1] : d \in e.dead}
    BY <1>2
  <2> QED
    BY <2>1 DEF Holds, Ids
<1>4. Given(e) \subseteq Holds(e)
  BY DEF Alone, Controls, Given, Holds
<1>5. e.wait # "none" => e.id # 0
  BY DEF Alone, Unsigned
<1>6. e.id # 0 => e.id \in Holds(e)
  BY DEF Holds
<1>7. \A r \in Asked(e) : r.id # 0 => r.id \in Holds(e)
  BY DEF Holds
<1> QED
  BY <1>2, <1>3, <1>4, <1>5, <1>6, <1>7

LEMMA Owners ==
  ASSUME SessInv, NEW c \in Clients, NEW d \in Clients, NEW i \in Holds(client[c]),
         i \in Holds(client[d])
  PROVE  c = d
BY DEF SessInv, IdsOK

\* Who holds the hanging get of a member.
LEMMA Waiter ==
  ASSUME SessInv, NEW i \in DOMAIN members_, members_[i].waiting # NoSocket
  PROVE  \E c \in Clients : /\ members_[i].waiting = Gets(c, i) /\ i \in Holds(client[c])
                            /\ Held(client[c], i) \/ <<i, "held">> \in client[c].dead
<1>1. PICK c \in Clients : /\ members_[i].waiting = Gets(c, i)
                           /\ Held(client[c], i) \/ <<i, "held">> \in client[c].dead
  BY DEF SessInv, WaitersOK
<1>2. Alone(client[c])
  BY DEF SessInv, ClientsOK
<1>3. i \in Holds(client[c])
  BY <1>1, <1>2, HoldsIs DEF Held
<1> QED
  BY <1>1, <1>3

LEMMA PostsTo ==
  ASSUME SessInv, NEW c \in Clients, NEW D, NEW out, NEW s, Outcome(D, out, s),
         \A i : s # Gets(c, i)
  PROVE  /\ client[c].wait = "held" /\ Gets(c, client[c].id) \in DOMAIN sent'
              <=> Posts(c, D, out)
         /\ Posts(c, D, out) => sent'[Gets(c, client[c].id)] = out[client[c].id]
         /\ <<c, "control">> \in DOMAIN sent' => s = <<c, "control">>
<1> DEFINE e == client[c]
           j == e.id
           w == Gets(c, j)
<1>1. Alone(e)
  BY DEF SessInv, ClientsOK
<1>2. ASSUME NEW t \in DOMAIN sent', t # s
      PROVE  \E i \in D \cap DOMAIN members_ \cap DOMAIN out :
               t = members_[i].waiting /\ t # NoSocket
  BY <1>2 DEF Outcome
<1>3. <<c, "control">> \in DOMAIN sent' => s = <<c, "control">>
  <2> SUFFICES ASSUME <<c, "control">> \in DOMAIN sent', s # <<c, "control">> PROVE FALSE
    OBVIOUS
  <2>1. PICK i \in DOMAIN members_ : <<c, "control">> = members_[i].waiting
                                      /\ members_[i].waiting # NoSocket
    BY <1>2
  <2>2. PICK d \in Clients : members_[i].waiting = Gets(d, i)
    BY <2>1, Waiter
  <2> QED
    BY <2>1, <2>2, Differ
<1>4. ASSUME e.wait = "held", w \in DOMAIN sent'
      PROVE  Posts(c, D, out)
  <2>1. PICK i \in D \cap DOMAIN members_ \cap DOMAIN out :
               w = members_[i].waiting /\ w # NoSocket
    BY <1>2, <1>4
  <2>2. PICK d \in Clients : /\ members_[i].waiting = Gets(d, i)
                             /\ Held(client[d], i) \/ <<i, "held">> \in client[d].dead
    BY <2>1, Waiter
  <2>3. d = c /\ i = j
    BY <2>1, <2>2, Differ
  <2>4. <<i, "held">> \notin e.dead
    BY <1>1, <1>4, <2>3 DEF Alone, Waits
  <2> QED
    BY <2>1, <2>2, <2>3, <2>4 DEF Posts
<1>5. ASSUME Posts(c, D, out)
      PROVE  e.wait = "held" /\ w \in DOMAIN sent' /\ sent'[w] = out[j]
  <2>1. /\ e.wait = "held" /\ j \in D \cap DOMAIN members_ /\ j \in DOMAIN out
        /\ members_[j].waiting = w
    BY <1>5 DEF Posts, Held
  <2>2. w # NoSocket
    BY Differ
  <2> QED
    BY <2>1, <2>2 DEF Outcome
<1> QED
  BY <1>3, <1>4, <1>5

LEMMA SameAsked ==
  ASSUME NEW e, NEW f, Same(e, f)
  PROVE  Asked(f) \subseteq Asked(e)
BY DEF Same, Asked

\* An answer or a message from the server leaves a client well formed.
LEMMA ServedAlone ==
  ASSUME SessInv, NEW D, NEW out, NEW s, NEW reply, Serves(D, out, s, reply), NEW c \in Clients
  PROVE  Alone(client'[c]) /\ (Uncut(client[c]) => Uncut(client'[c]))
<1> DEFINE e == client[c]
           f == client'[c]
<1>1. /\ Alone(e) /\ Same(e, f) /\ Fits(D, out)
      /\ f.note = IF Posts(c, D, out) THEN <<out[e.id]>> ELSE e.note
      /\ IF s = <<c, "control">> THEN Replied(e, f, D, reply) ELSE f.reply = e.reply
  BY DEF SessInv, ClientsOK, Serves
<1>2. Asked(f) \subseteq Asked(e)
  BY <1>1, SameAsked
<1> HIDE DEF e, f
<1>3. Unsigned(f)
  BY <1>1 DEF Alone, Unsigned, Same
<1>4. Controls(f)
  <2>1. CASE f.reply = e.reply
    BY <1>1, <2>1 DEF Alone, Controls, Same
  <2>2. CASE Replied(e, f, D, reply)
    <3>1. f.reply[1] = reply /\ f.reply # <<>> /\ e.ctl # <<>>
      BY <2>2 DEF Replied
    <3>2. e.id = 0 => reply.status = 200 /\ reply.from # 0
      <4> SUFFICES ASSUME e.id = 0 PROVE reply.status = 200 /\ reply.from # 0
        OBVIOUS
      <4>1. reply = Response(200, s_member_id_', Body("list", D))
              /\ s_member_id_' = s_member_id_ + 1
        BY <2>2 DEF Replied
      <4>2. s_member_id_ + 1 # 0
        BY ChannelAssumption DEF SessInv, ServerOK, ChannelTypeOK
      <4> QED
        BY <4>1, <4>2 DEF Response
    <3> QED
      BY <1>1, <3>1, <3>2 DEF Alone, Controls, Same
  <2> QED
    BY <1>1, <2>1, <2>2
<1>5. Asks(f)
  <2>1. f.id = e.id /\ f.left = e.left
    BY <1>1 DEF Same
  <2> QED
    BY <1>1, <1>2, <2>1 DEF Alone, Asks
<1>6. States(f)
  BY <1>1 DEF Alone, States, Same
<1>7. Waits(f)
  <2>1. CASE f.note = e.note
    BY <1>1, <2>1 DEF Alone, Waits, Same
  <2>2. CASE Posts(c, D, out)
    <3>1. e.wait = "held" /\ e.id \in D \cap DOMAIN members_ \cap DOMAIN out
      BY <2>2 DEF Posts, Held, e
    <3>2. Notice(e.id, out[e.id])
      BY <1>1, <3>1 DEF Fits, Notice
    <3>3. f.note = <<out[e.id]>> /\ f.note[1] = out[e.id]
      BY <1>1, <2>2
    <3> QED
      BY <1>1, <3>1, <3>2, <3>3 DEF Alone, Waits, Same
  <2> QED
    BY <1>1, <2>1, <2>2
<1>8. Uncut(e) => Uncut(f)
  BY <1>1 DEF Uncut, Same
<1>9. f \in ClientType
  BY <1>1 DEF Same
<1> QED
  BY <1>3, <1>4, <1>5, <1>6, <1>7, <1>8, <1>9 DEF Alone, e, f

\* The ids: only a client that has just signed in has a new one.
LEMMA ServedHolds ==
  ASSUME SessInv, NEW D, NEW out, NEW s, NEW reply, Serves(D, out, s, reply), NEW c \in Clients
  PROVE  LET e == client[c]
             f == client'[c]
             new == s_member_id_ + 1
         IN  /\ Fresh(f)
             /\ \/ Holds(f) \subseteq Holds(e) /\ Given(f) = Given(e)
                \/ /\ Holds(f) \subseteq Holds(e) \cup {new} /\ Given(f) = {new}
                   /\ s = <<c, "control">> /\ s_member_id_' = new
<1> DEFINE e == client[c]
           f == client'[c]
           new == s_member_id_ + 1
<1>1. /\ Alone(e) /\ Same(e, f) /\ Fresh(e) /\ Holds(e) \subseteq 1 .. s_member_id_
      /\ IF s = <<c, "control">> THEN Replied(e, f, D, reply) ELSE f.reply = e.reply
  BY DEF SessInv, ClientsOK, IdsOK, Serves
<1>2. Asked(f) \subseteq Asked(e) /\ f.id = e.id /\ f.dead = e.dead
  BY <1>1, SameAsked DEF Same
<1>3. s_member_id_ \in Nat
  BY ChannelAssumption DEF SessInv, ServerOK, ChannelTypeOK
<1>4. (\A d \in e.dead : d[1] # new) /\ (\A r \in Asked(e) : r.id # new)
  <2>1. \A i \in 1 .. s_member_id_ : i # new
    BY <1>3
  <2>2. new # 0
    BY <1>3
  <2>3. \A d \in e.dead : d[1] # 0 => d[1] \in Holds(e)
    BY DEF Holds
  <2>4. \A r \in Asked(e) : r.id # 0 => r.id \in Holds(e)
    BY DEF Holds
  <2> HIDE DEF new, e
  <2> QED
    BY <1>1, <2>1, <2>2, <2>3, <2>4
<1> HIDE DEF e, f, new
<1>5. CASE f.reply = e.reply
  <2>1. Given(f) = Given(e)
    BY <1>2, <1>5 DEF Given
  <2>2. Holds(f) \subseteq Holds(e)
    BY <1>2, <2>1 DEF Holds
  <2>3. Fresh(f)
    BY <1>1, <1>2, <2>1 DEF Fresh
  <2> QED
    BY <2>1, <2>2, <2>3 DEF e, f, new
<1>6. CASE Replied(e, f, D, reply) /\ e.id # 0
  <2>1. Given(f) = {} /\ Given(e) = {}
    BY <1>2, <1>6 DEF Given
  <2>2. Holds(f) \subseteq Holds(e)
    BY <1>2, <2>1 DEF Holds
  <2>3. Fresh(f)
    BY <2>1 DEF Fresh
  <2> QED
    BY <2>1, <2>2, <2>3 DEF e, f, new
<1>7. CASE Replied(e, f, D, reply) /\ e.id = 0 /\ s = <<c, "control">>
  <2>1. s_member_id_' = new /\ reply.from = new /\ f.reply[1] = reply /\ f.reply # <<>>
    BY <1>7 DEF Replied, Response, new
  <2>2. Given(f) = {new}
    BY <1>2, <1>7, <2>1 DEF Given
  <2>3. Holds(f) \subseteq Holds(e) \cup {new}
    BY <1>2, <2>2 DEF Holds
  <2>4. Fresh(f)
    BY <1>2, <1>4, <2>2 DEF Fresh
  <2> QED
    BY <1>7, <2>1, <2>2, <2>3, <2>4 DEF e, f, new
<1> QED
  BY <1>1, <1>5, <1>6, <1>7

LEMMA ServedIds ==
  ASSUME SessInv, NEW D, NEW out, NEW s, NEW reply, Serves(D, out, s, reply)
  PROVE  IdsOK'
<1> DEFINE new == s_member_id_ + 1
           New(c) == s = <<c, "control">> /\ s_member_id_' = new
<1>1. s_member_id_ \in Nat /\ s_member_id_' \in {s_member_id_, new}
  BY ChannelAssumption DEF SessInv, ServerOK, ChannelTypeOK, Serves
<1>2. \A i \in 1 .. s_member_id_ : i # new /\ i \in 1 .. s_member_id_'
  BY <1>1
<1>3. s_member_id_' = new => new \in 1 .. s_member_id_'
  BY <1>1
<1>4. \A c \in Clients : /\ Fresh(client'[c])
                         /\ Holds(client'[c]) \subseteq
                              Holds(client[c]) \cup (IF New(c) THEN {new} ELSE {})
                         /\ Holds(client[c]) \subseteq 1 .. s_member_id_
  BY ServedHolds DEF SessInv, IdsOK
<1>5. \A c, d \in Clients : c # d => Holds(client[c]) \cap Holds(client[d]) = {}
  BY DEF SessInv, IdsOK
<1>6. \A c, d : New(c) /\ New(d) => c = d
  BY Differ
<1>7. \A c \in Clients : New(c) => s_member_id_' = new
  OBVIOUS
<1> HIDE DEF new, New
<1>8. \A c \in Clients : Holds(client'[c]) \subseteq 1 .. s_member_id_'
  BY <1>2, <1>3, <1>4, <1>7
<1>9. \A c, d \in Clients : c # d => Holds(client'[c]) \cap Holds(client'[d]) = {}
  BY <1>2, <1>4, <1>5, <1>6
<1> QED
  BY <1>4, <1>8, <1>9 DEF IdsOK

LEMMA ServedWaiters ==
  ASSUME SessInv, NEW D, NEW out, NEW s, NEW reply, Serves(D, out, s, reply)
  PROVE  WaitersOK'
<1> SUFFICES ASSUME NEW i \in DOMAIN members_', members_'[i].waiting # NoSocket
             PROVE  \E c \in Clients :
                      /\ members_'[i].waiting = Gets(c, i)
                      /\ Held(client'[c], i) \/ <<i, "held">> \in client'[c].dead
  BY DEF WaitersOK
<1>1. i \in DOMAIN members_ /\ i \notin DOMAIN out /\ members_'[i].waiting = members_[i].waiting
  <2>1. Outcome(D, out, s)
    BY DEF Serves
  <2>2. i \in D
    BY <2>1 DEF Outcome
  <2>3. i \in DOMAIN members_
    BY <2>1, <2>2 DEF Outcome
  <2> QED
    BY <2>1, <2>2, <2>3 DEF Outcome
<1>2. PICK c \in Clients : /\ members_[i].waiting = Gets(c, i)
                           /\ Held(client[c], i) \/ <<i, "held">> \in client[c].dead
  BY <1>1, Waiter
<1>3. /\ Same(client[c], client'[c])
      /\ client'[c].note = IF Posts(c, D, out) THEN <<out[client[c].id]>> ELSE client[c].note
  BY DEF Serves
<1>4. CASE Held(client[c], i)
  <2>1. ~Posts(c, D, out)
    BY <1>1, <1>4 DEF Posts, Held
  <2> QED
    BY <1>1, <1>2, <1>3, <1>4, <2>1 DEF Held, Same
<1>5. CASE <<i, "held">> \in client[c].dead
  BY <1>1, <1>2, <1>3, <1>5 DEF Same
<1> QED
  BY <1>2, <1>4, <1>5

LEMMA ServedGets ==
  ASSUME SessInv, NEW D, NEW out, NEW s, NEW reply, Serves(D, out, s, reply)
  PROVE  GetsOK'
<1> SUFFICES ASSUME NoDrop', NEW c \in Clients, ~client'[c].left,
                    Held(client'[c], client'[c].id)
             PROVE  LET i == client'[c].id IN
                    i \in DOMAIN members_' /\ members_'[i].waiting = Gets(c, i)
  BY DEF GetsOK, Known
<1> DEFINE e == client[c]
           f == client'[c]
           i == e.id
<1>1. /\ Same(e, f) /\ Outcome(D, out, s) /\ used' = used
      /\ f.note = IF Posts(c, D, out) THEN <<out[e.id]>> ELSE e.note
      /\ \A j \in DOMAIN members_ \ D :
           members_[j].waiting = NoSocket \/ \A d \in Clients : client[d].id = j => client[d].left
  BY DEF Serves
<1>2. ~Posts(c, D, out) /\ Held(e, i) /\ ~e.left /\ f.id = i
  <2>1. f.wait = e.wait /\ f.left = e.left /\ f.id = i
    BY <1>1 DEF Same
  <2>2. f.wait = "held" /\ f.note = <<>> /\ ~f.left
    BY DEF Held
  <2>3. <<out[e.id]>> # <<>>
    OBVIOUS
  <2> HIDE DEF e, f
  <2> QED
    BY <1>1, <2>1, <2>2, <2>3 DEF Held
<1>3. i \in DOMAIN members_ /\ members_[i].waiting = Gets(c, i)
  BY <1>1, <1>2 DEF SessInv, GetsOK, NoDrop, Known
<1>4. i \in D
  BY <1>1, <1>2, <1>3, Differ
<1>5. i \notin DOMAIN out
  BY <1>2, <1>3, <1>4 DEF Posts
<1>6. DOMAIN members_' = D /\ members_'[i].waiting = members_[i].waiting
  BY <1>1, <1>3, <1>4, <1>5 DEF Outcome
<1> QED
  BY <1>2, <1>3, <1>4, <1>6

LEMMA ServedQueues ==
  ASSUME SessInv, NEW D, NEW out, NEW s, NEW reply, Serves(D, out, s, reply)
  PROVE  QueuesOK'
<1> SUFFICES ASSUME NEW i \in DOMAIN members_', NEW k \in DOMAIN members_'[i].queue
             PROVE  Notice(i, members_'[i].queue[k])
  BY DEF QueuesOK
<1>1. Outcome(D, out, s) /\ Fits(D, out) /\ Typings(out) /\ i \in D
  BY DEF Serves, Outcome
<1>2. CASE i \in DOMAIN members_ /\ members_'[i].queue = members_[i].queue
  BY <1>2 DEF SessInv, ServerOK, QueuesOK
<1>3. CASE i \in DOMAIN members_ /\ i \in DOMAIN out
             /\ members_'[i].queue = Append(members_[i].queue, out[i])
  <2>1. members_[i].queue \in Seq(Responses)
    BY <1>3 DEF SessInv, ServerOK, ChannelTypeOK, MemberType
  <2>2. \/ k \in DOMAIN members_[i].queue /\ members_'[i].queue[k] = members_[i].queue[k]
        \/ members_'[i].queue[k] = out[i]
    <3> DEFINE q == members_[i].queue
    <3>1. \A x : \A j \in DOMAIN Append(q, x) :
            (j \in DOMAIN q /\ Append(q, x)[j] = q[j]) \/ Append(q, x)[j] = x
      <4> HIDE DEF q
      <4> QED
        BY <2>1 DEF q
    <3> HIDE DEF q
    <3> QED
      BY <1>3, <3>1 DEF q
  <2>3. Notice(i, out[i])
    BY <1>1, <1>3 DEF Fits, Notice
  <2> QED
    BY <1>3, <2>2, <2>3 DEF SessInv, ServerOK, QueuesOK
<1>4. CASE members_'[i].queue = <<>>
  BY <1>4
<1> QED
  BY <1>1, <1>2, <1>3, <1>4 DEF Outcome

LEMMA OneSeq ==
  ASSUME NEW S, NEW x \in AtMostOne(S)
  PROVE  x \in Seq(S)
<1>1. CASE x = <<>>
  BY <1>1
<1>2. ASSUME NEW y \in S, x = <<y>>
      PROVE  x \in Seq(S)
  BY <1>2
<1> QED
  BY <1>1, <1>2 DEF AtMostOne

\* Who hears of the members.
LEMMA HearsIs ==
  ASSUME SessInv, NEW c \in Clients, Hears(client[c])
  PROVE  LET e == client[c]
             i == Self(e)
         IN  /\ i \in Holds(e) /\ i \in 1 .. s_member_id_
             /\ IF e.id = 0
                THEN /\ e.reply # <<>> /\ e.note = <<>> /\ e.wait = "none" /\ i \in Given(e)
                     /\ e.peer = 0
                ELSE e.st = "on" /\ ~e.left /\ i = e.id
             /\ NoDrop => \A x : <<i, x>> \notin e.dead
<1> DEFINE e == client[c]
           i == Self(e)
<1>1. Alone(e) /\ Fresh(e) /\ (NoDrop => Uncut(e)) /\ Holds(e) \subseteq 1 .. s_member_id_
  BY DEF SessInv, ClientsOK, IdsOK
<1> HIDE DEF e
<1>2. CASE e.id = 0
  <2>1. e.reply # <<>> /\ e.note = <<>> /\ e.wait = "none" /\ i \in Given(e) /\ e.peer = 0
    BY <1>1, <1>2 DEF Hears, Alone, Unsigned, Waits, Given, Self, e
  <2>2. i \in Holds(e)
    BY <1>1, <2>1, HoldsIs
  <2>3. \A x : <<i, x>> \notin e.dead
    BY <1>1, <2>1 DEF Fresh
  <2> QED
    BY <1>1, <1>2, <2>1, <2>2, <2>3 DEF e
<1>3. CASE e.id # 0
  <2>1. e.st = "on" /\ ~e.left /\ i = e.id
    BY <1>3 DEF Hears, Self, e
  <2>2. i \in Holds(e)
    BY <1>1, <1>3, <2>1, HoldsIs
  <2>3. NoDrop => \A x : <<i, x>> \notin e.dead
    BY <1>1, <2>1 DEF Uncut
  <2> QED
    BY <1>1, <1>3, <2>1, <2>2, <2>3 DEF e
<1> QED
  BY <1>2, <1>3

\* The mail of a client grows by what the server posts to it.
LEMMA PostedMail ==
  ASSUME SessInv, NoDrop, NEW D, NEW out, NEW s, NEW reply, Serves(D, out, s, reply),
         NEW c \in Clients, Hears(client[c]), NEW i, i = Self(client[c]), i \in D
  PROVE  LET m == MailOf(client[c], members_, i)
             n == MailOf(client'[c], members_', i)
         IN  /\ i \in DOMAIN members_
             /\ i \in DOMAIN out => n = Append(m, out[i])
             /\ i \notin DOMAIN out => n = m
<1> DEFINE e == client[c]
           f == client'[c]
<1>1. /\ Same(e, f) /\ Outcome(D, out, s) /\ Typings(out)
      /\ f.note = IF Posts(c, D, out) THEN <<out[e.id]>> ELSE e.note
      /\ D \ DOMAIN members_ \subseteq {s_member_id_ + 1}
  BY DEF Serves
<1>2. s_member_id_ \in Nat
  BY ChannelAssumption DEF SessInv, ServerOK, ChannelTypeOK
<1>3. /\ i \in Holds(e) /\ i \in 1 .. s_member_id_
      /\ e.id = 0 => i \in Given(e) /\ e.wait = "none"
      /\ e.id # 0 => i = e.id
      /\ \A x : <<i, x>> \notin e.dead
  BY HearsIs
<1>4. i \in DOMAIN members_
  <2>1. i # s_member_id_ + 1
    BY <1>2, <1>3
  <2> QED
    BY <1>1, <2>1
<1>5. /\ e.note \in Seq(Responses) /\ members_[i].queue \in Seq(Responses)
      /\ members_[i].waiting # NoSocket => members_[i].queue = <<>>
  <2>1. e.note \in Seq(Responses)
    <3>1. e.note \in AtMostOne(Responses)
      BY DEF SessInv, ClientsOK, Alone, ClientType
    <3> QED
      BY <3>1, OneSeq
  <2>2. members_[i].queue \in Seq(Responses)
    BY <1>4 DEF SessInv, ServerOK, ChannelTypeOK, MemberType
  <2>3. members_[i].waiting # NoSocket => members_[i].queue = <<>>
    BY <1>4 DEF SessInv, ServerOK, Orderly, Empty
  <2> QED
    BY <2>1, <2>2, <2>3
<1>6. members_[i].waiting # NoSocket => Held(e, i) /\ members_[i].waiting = Gets(c, i)
  <2> SUFFICES ASSUME members_[i].waiting # NoSocket
               PROVE  Held(e, i) /\ members_[i].waiting = Gets(c, i)
    OBVIOUS
  <2>1. PICK d \in Clients : /\ members_[i].waiting = Gets(d, i) /\ i \in Holds(client[d])
                             /\ Held(client[d], i) \/ <<i, "held">> \in client[d].dead
    BY <1>4, Waiter
  <2>2. d = c
    BY <1>3, <2>1, Owners
  <2> QED
    BY <1>3, <2>1, <2>2
<1>7. Posts(c, D, out) <=> i \in DOMAIN out /\ members_[i].waiting # NoSocket
  <2>1. ASSUME Posts(c, D, out) PROVE i = e.id /\ i \in DOMAIN out /\ members_[i].waiting # NoSocket
    <3>1. e.wait = "held" /\ e.id \in DOMAIN out /\ members_[e.id].waiting = Gets(c, e.id)
      BY <2>1 DEF Posts, Held
    <3>2. i = e.id
      BY <1>3, <3>1
    <3> QED
      BY <3>1, <3>2, Differ
  <2>2. ASSUME i \in DOMAIN out, members_[i].waiting # NoSocket PROVE Posts(c, D, out)
    <3>1. Held(e, i) /\ e.id = i
      BY <1>6, <2>2 DEF Held
    <3> QED
      BY <1>4, <1>6, <2>2, <3>1 DEF Posts
  <2> QED
    BY <2>1, <2>2
<1>8. CASE i \notin DOMAIN out
  <2>1. f.note = e.note
    BY <1>1, <1>7, <1>8
  <2>2. members_'[i].queue = members_[i].queue
    BY <1>1, <1>4, <1>8 DEF Outcome
  <2> QED
    BY <1>4, <1>8, <2>1, <2>2 DEF MailOf
<1>9. CASE i \in DOMAIN out /\ members_[i].waiting # NoSocket
  <2>1. e.note = <<>> /\ e.id = i
    BY <1>6, <1>9 DEF Held
  <2>2. f.note = <<out[i]>>
    BY <1>1, <1>7, <1>9, <2>1
  <2>3. members_'[i].queue = <<>> /\ members_[i].queue = <<>>
    BY <1>1, <1>4, <1>5, <1>9 DEF Outcome
  <2>4. f.note \o members_'[i].queue = <<out[i]>>
    BY <2>2, <2>3
  <2>5. Append(e.note \o members_[i].queue, out[i]) = <<out[i]>>
    BY <2>1, <2>3
  <2> QED
    BY <1>4, <1>9, <2>4, <2>5 DEF MailOf
<1>10. CASE i \in DOMAIN out /\ members_[i].waiting = NoSocket
  <2>1. f.note = e.note
    BY <1>1, <1>7, <1>10
  <2>2. members_'[i].queue = Append(members_[i].queue, out[i])
    BY <1>1, <1>4, <1>10 DEF Outcome
  <2>3. ASSUME NEW n \in Seq(Responses), NEW q \in Seq(Responses), NEW x \in Responses
        PROVE  n \o Append(q, x) = Append(n \o q, x)
    OBVIOUS
  <2>4. out[i] \in Responses
    BY <1>1, <1>10 DEF Typings
  <2>5. f.note \o members_'[i].queue = Append(e.note \o members_[i].queue, out[i])
    BY <1>5, <2>1, <2>2, <2>3, <2>4, ZenonT(60)
  <2> QED
    BY <1>4, <1>10, <2>5 DEF MailOf
<1> QED
  BY <1>8, <1>9, <1>10

LEMMA ServedMails ==
  ASSUME SessInv, NEW D, NEW out, NEW s, NEW reply, Serves(D, out, s, reply)
  PROVE  MailsOK'
<1> SUFFICES ASSUME NoDrop', NEW c \in Clients, Hears(client'[c]),
                    Self(client'[c]) \in DOMAIN members_'
             PROVE  LET f == client'[c]
                        i == Self(f)
                    IN  /\ MailOK(i, Knows(f), MailOf(f, members_', i), DOMAIN members_')
                        /\ f.peer # 0 => f.peer \in f.peers
  BY DEF MailsOK, Known
<1> DEFINE e == client[c]
           f == client'[c]
           i == Self(f)
<1>1. /\ Same(e, f) /\ Outcome(D, out, s) /\ Fits(D, out) /\ Typings(out) /\ NoDrop
      /\ f.note = IF Posts(c, D, out) THEN <<out[e.id]>> ELSE e.note
      /\ IF s = <<c, "control">> THEN Replied(e, f, D, reply) ELSE f.reply = e.reply
      /\ D \ DOMAIN members_ \subseteq {s_member_id_ + 1}
  BY DEF Serves, NoDrop
<1>2. DOMAIN members_' = D /\ Alone(e)
  BY <1>1 DEF Outcome, SessInv, ClientsOK
<1>3. CASE f.reply = e.reply \/ e.id # 0
  <2>1. Hears(e) /\ Self(f) = Self(e) /\ Knows(f) = Knows(e)
    <3>1. f.id = e.id /\ f.st = e.st /\ f.left = e.left /\ f.peers = e.peers
      BY <1>1 DEF Same
    <3>2. Hears(f)
      OBVIOUS
    <3> HIDE DEF e, f
    <3> QED
      BY <1>3, <3>1, <3>2 DEF Hears, Self, Knows
  <2>2. i = Self(e) /\ i \in D
    BY <1>2, <2>1
  <2> DEFINE m == MailOf(e, members_, i)
  <2>3. /\ i \in DOMAIN members_
        /\ i \in DOMAIN out => MailOf(f, members_', i) = Append(m, out[i])
        /\ i \notin DOMAIN out => MailOf(f, members_', i) = m
    <3>1. NoDrop
      BY <1>1
    <3> HIDE DEF i
    <3> QED
      BY <2>1, <2>2, <3>1, PostedMail
  <2>4. MailOK(i, Knows(e), m, DOMAIN members_) /\ (e.peer # 0 => e.peer \in e.peers)
    BY <1>1, <2>1, <2>2, <2>3 DEF SessInv, MailsOK, Known
  <2>5. m \in Seq(Responses)
    <3>1. e.note \in Seq(Responses)
      <4>1. e.note \in AtMostOne(Responses)
        BY <1>2 DEF Alone, ClientType
      <4> QED
        BY <4>1, OneSeq
    <3>2. members_[i].queue \in Seq(Responses)
      BY <2>3 DEF SessInv, ServerOK, ChannelTypeOK, MemberType
    <3> QED
      BY <3>1, <3>2 DEF MailOf
  <2>6. f.peer = e.peer /\ f.peers = e.peers
    BY <1>1 DEF Same
  <2> HIDE DEF m, i
  <2>7. MailOK(i, Knows(e), IF i \in DOMAIN out THEN Append(m, out[i]) ELSE m, D)
    <3>1. CASE i \in DOMAIN out
      <4>1. out[i] \in Responses
        BY <1>1, <3>1 DEF Typings
      <4>2. LET r == out[i] IN
            IF r.from = i
            THEN /\ r.body.ids # {}
                 /\ IF r.body.kind = "left" THEN D = DOMAIN members_ \ {First(r.body.ids)}
                    ELSE D = DOMAIN members_ \cup {First(r.body.ids)}
            ELSE D = DOMAIN members_ /\ (r.body.kind = "hangup_confirm" \/ r.from \in D)
        BY <1>1, <2>2, <2>3, <3>1 DEF Fits
      <4>3. MailOK(i, Knows(e), Append(m, out[i]), D)
        BY <2>4, <2>5, <4>1, <4>2, MailGrows
      <4> QED
        BY <3>1, <4>3
    <3>2. CASE i \notin DOMAIN out
      <4>1. D = DOMAIN members_
        BY <1>1, <2>2, <2>3, <3>2 DEF Fits
      <4> QED
        BY <2>4, <3>2, <4>1
    <3> QED
      BY <3>1, <3>2
  <2> QED
    BY <1>2, <2>1, <2>3, <2>4, <2>6, <2>7 DEF i
<1>4. CASE Replied(e, f, D, reply) /\ e.id = 0
  <2>1. /\ reply = Response(200, s_member_id_ + 1, Body("list", D)) /\ f.reply = <<reply>>
        /\ f.reply[1] = reply /\ s_member_id_ + 1 \in D
    BY <1>4 DEF Replied
  <2>2. reply.from = s_member_id_ + 1 /\ reply.body.ids = D
    BY <2>1 DEF Response, Body
  <2>3. f.id = 0 /\ f.peer = e.peer
    BY <1>1, <1>4 DEF Same
  <2>4. i = s_member_id_ + 1 /\ Knows(f) = D \ {i}
    BY <2>1, <2>2, <2>3 DEF Self, Knows
  <2>5. f.note = <<>>
    <3>1. e.note = <<>> /\ ~Held(e, e.id)
      BY <1>2, <1>4 DEF Alone, Unsigned, Waits, Held
    <3> QED
      BY <1>1, <3>1 DEF Posts
  <2>6. f.peer = 0
    BY <1>2, <1>4, <2>3 DEF Alone, Unsigned
  <2>7. members_'[i].queue = <<>>
    <3>1. s_member_id_ + 1 \notin DOMAIN members_
      BY ChannelAssumption DEF SessInv, ServerOK, ChannelTypeOK
    <3> QED
      BY <1>1, <2>1, <2>4, <3>1 DEF Outcome
  <2>8. D \subseteq Ids
    <3>1. ChannelTypeOK' => DOMAIN members_' \subseteq Ids
      BY ChannelAssumption DEF ChannelTypeOK, Ids
    <3> QED
      BY <1>2, <1>4, <2>1, <2>2 DEF Replied, Responses
  <2>9. MailOf(f, members_', i) = <<>>
    BY <2>5, <2>7 DEF MailOf
  <2> HIDE DEF i
  <2>10. MailOK(i, D \ {i}, <<>>, D)
    <3>1. PeersThen(i, D \ {i}, <<>>, 0) = D \ {i}
      BY <2>8 DEF PeersThen
    <3>2. Len(<<>>) = 0 /\ 1 .. 0 = {}
      OBVIOUS
    <3> QED
      BY <3>1, <3>2 DEF MailOK
  <2> QED
    BY <1>2, <2>4, <2>6, <2>9, <2>10 DEF i
<1> QED
  BY <1>1, <1>3, <1>4

LEMMA ReceiveIs ==
  ASSUME SessInv, NEW D, NEW out, NEW s, Outcome(D, out, s), Typings(out), NEW c \in Clients,
         \A i : s # Gets(c, i), NEW S, S \subseteq client[c].stray, NEW reply,
         s = <<c, "control">> => Answers(s, reply) /\ reply \in Responses,
         NEW f, f = Receive([client[c] EXCEPT !.stray = S], c, sent')
  PROVE  LET e == client[c] IN
         /\ Same(e, f)
         /\ Posts(c, D, out) => f.note = <<out[e.id]>>
         /\ ~Posts(c, D, out) => f.note = e.note
         /\ s = <<c, "control">> => f.reply = <<reply>>
         /\ s # <<c, "control">> => f.reply = e.reply
<1> DEFINE e == client[c]
           x == [e EXCEPT !.stray = S]
           w == Gets(c, e.id)
           R == IF <<c, "control">> \in DOMAIN sent' THEN <<sent'[<<c, "control">>]>> ELSE e.reply
           N == IF e.wait = "held" /\ w \in DOMAIN sent' THEN <<sent'[w]>> ELSE e.note
<1>1. e \in ClientType
  BY DEF SessInv, ClientsOK, Alone
<1>2. /\ x \in ClientType /\ x.stray = S
      /\ x.st = e.st /\ x.id = e.id /\ x.peers = e.peers /\ x.ctl = e.ctl /\ x.wait = e.wait
      /\ x.dead = e.dead /\ x.peer = e.peer /\ x.pc = e.pc /\ x.jobs = e.jobs
      /\ x.gather = e.gather /\ x.pending = e.pending /\ x.again = e.again /\ x.left = e.left
      /\ x.reply = e.reply /\ x.note = e.note
  BY <1>1 DEF ClientType
<1>3. f = [x EXCEPT !.reply = R, !.note = N]
  <2>1. f = Receive(x, c, sent')
    OBVIOUS
  <2> HIDE DEF x, e
  <2> QED
    BY <1>2, <2>1 DEF Receive, Gets, x
<1>4. /\ e.wait = "held" /\ w \in DOMAIN sent' <=> Posts(c, D, out)
      /\ Posts(c, D, out) => sent'[w] = out[e.id]
      /\ <<c, "control">> \in DOMAIN sent' => s = <<c, "control">>
  BY PostsTo
<1>5. N = IF Posts(c, D, out) THEN <<out[e.id]>> ELSE e.note
  BY <1>4
<1>6. R = IF s = <<c, "control">> THEN <<reply>> ELSE e.reply
  BY <1>4 DEF Answers
<1>7. Posts(c, D, out) => out[e.id] \in Responses
  BY DEF Posts, Typings
<1> HIDE DEF e, x, w, R, N
<1>8. N \in AtMostOne(Responses)
  BY <1>1, <1>5, <1>7, OneIs DEF ClientType
<1>9. R \in AtMostOne(Responses)
  BY <1>1, <1>6, OneIs DEF ClientType
<1>10. /\ f \in ClientType /\ f.stray = x.stray
       /\ f.st = x.st /\ f.id = x.id /\ f.peers = x.peers /\ f.ctl = x.ctl /\ f.wait = x.wait
       /\ f.dead = x.dead /\ f.peer = x.peer /\ f.pc = x.pc /\ f.jobs = x.jobs
       /\ f.gather = x.gather /\ f.pending = x.pending /\ f.again = x.again /\ f.left = x.left
       /\ f.reply = R /\ f.note = N
  BY <1>2, <1>3, <1>8, <1>9, ZenonT(60) DEF ClientType
<1>11. Same(e, f)
  BY <1>2, <1>10 DEF Same, e
<1> QED
  BY <1>5, <1>6, <1>10, <1>11 DEF e

LEMMA SameStray ==
  ASSUME NEW e \in ClientType
  PROVE  [e EXCEPT !.stray = e.stray] = e
BY DEF ClientType

\* A request of c, on a connection of its own.
LEMMA HandledServes ==
  ASSUME SessInv, NEW c \in Clients, NEW s \in {<<c, "control">>, <<c, "closed">>},
         NEW r \in Asked(client[c]), NEW D, NEW out, NEW reply, Handled(s, r, D, out, reply),
         UNCHANGED used, DOMAIN client' = Clients,
         \A d \in Clients :
           \E S : /\ S \subseteq client[d].stray
                  /\ client'[d] = Receive([client[d] EXCEPT !.stray = S], d, sent'),
         s = <<c, "control">> =>
           /\ client[c].ctl # <<>> /\ client[c].reply = <<>> /\ r = client[c].ctl[1]
  PROVE  Serves(D, out, s, reply) /\ PartnersOK'
<1>1. /\ Outcome(D, out, s) /\ Answers(s, reply) /\ Fits(D, out)
      /\ Typings(out) /\ reply \in Responses
      /\ \A i \in DOMAIN members_ \ D : r.op = "sign_out" /\ i = r.id
      /\ PartnersOK'
      /\ IF r.op = "sign_in"
         THEN /\ s_member_id_' = s_member_id_ + 1 /\ D = DOMAIN members_ \cup {s_member_id_'}
              /\ s_member_id_' \in Ids
              /\ reply = Response(200, s_member_id_', Body("list", D))
         ELSE D \subseteq DOMAIN members_ /\ UNCHANGED s_member_id_
  BY DEF Handled
<1>2. \A d \in Clients : Alone(client[d])
  BY DEF SessInv, ClientsOK
<1>3. ASSUME NEW i \in DOMAIN members_ \ D, NEW d \in Clients, client[d].id = i
      PROVE  client[d].left
  <2>1. r.op = "sign_out" /\ i = r.id
    BY <1>1, <1>3
  <2>2. r.id # 0 /\ (r.id # client[c].id \/ client[c].left)
    BY <1>2, <2>1 DEF Alone, Asks
  <2>3. i \in Holds(client[c]) /\ i \in Holds(client[d])
    BY <1>2, <1>3, <2>1, <2>2, HoldsIs
  <2>4. d = c
    BY <2>3, Owners
  <2> QED
    BY <1>3, <2>1, <2>2, <2>4
<1>4. ASSUME NEW d \in Clients
      PROVE  LET e == client[d]
                 f == client'[d]
             IN  /\ Same(e, f)
                 /\ f.note = IF Posts(d, D, out) THEN <<out[e.id]>> ELSE e.note
                 /\ IF s = <<d, "control">> THEN Replied(e, f, D, reply) ELSE f.reply = e.reply
  <2>1. PICK S : /\ S \subseteq client[d].stray
                 /\ client'[d] = Receive([client[d] EXCEPT !.stray = S], d, sent')
    OBVIOUS
  <2>2. \A i : s # Gets(d, i)
    BY Differ
  <2>3. ASSUME NEW f, f = Receive([client[d] EXCEPT !.stray = S], d, sent')
        PROVE  /\ Same(client[d], f)
               /\ Posts(d, D, out) => f.note = <<out[client[d].id]>>
               /\ ~Posts(d, D, out) => f.note = client[d].note
               /\ s = <<d, "control">> => f.reply = <<reply>>
               /\ s # <<d, "control">> => f.reply = client[d].reply
    BY <1>1, <2>1, <2>2, <2>3, ReceiveIs, SMTT(30)
  <2>4. ASSUME s = <<d, "control">>
        PROVE  Replied(client[d], client'[d], D, reply)
    <3>1. d = c /\ s = <<c, "control">>
      BY <2>4, Differ
    <3>2. client[c].id = 0 => r.op = "sign_in"
      BY <1>2, <3>1 DEF Alone, Unsigned, Controls
    <3> QED
      BY <1>1, <2>1, <2>3, <2>4, <3>1, <3>2 DEF Replied
  <2> QED
    BY <2>1, <2>3, <2>4
<1> QED
  BY <1>1, <1>3, <1>4 DEF Serves

LEMMA ServingNow ==
  ASSUME SessInv
  PROVE  Serving /\ DOMAIN client = Clients
BY DEF SessInv, ServerOK, Serving

LEMMA ServeControlServes ==
  ASSUME SessInv, NEW c \in Clients, ServeControl(c)
  PROVE  \E D, out, s, reply, r : /\ Serves(D, out, s, reply) /\ PartnersOK'
                                  /\ Relays(r, D, out) /\ Requested(s, r)
<1> DEFINE s == <<c, "control">>
           r == client[c].ctl[1]
<1>1. /\ client[c].ctl # <<>> /\ client[c].reply = <<>> /\ Handle(s, r) /\ UNCHANGED used
      /\ client' = [d \in Clients |-> Receive(client[d], d, sent')]
  BY DEF ServeControl, Deliver
<1>2. \A d \in Clients : client[d] \in ClientType /\ Alone(client[d])
  BY DEF SessInv, ClientsOK, Alone
<1>3. r \in Asked(client[c])
  <2>1. client[c].ctl \in AtMostOne(Requests)
    BY <1>2 DEF ClientType
  <2>2. DOMAIN client[c].ctl = {1}
    BY <1>1, <2>1, One
  <2> QED
    BY <2>2 DEF Asked
<1>4. r \in Requests /\ (r.op = "message" => r.to # 0 /\ r.body # "")
  BY <1>2, <1>3, RequestsAre
<1> HIDE DEF r
<1>5. PICK D, out, reply : Handled(s, r, D, out, reply)
  BY <1>1, <1>4, ServingNow, HandleHandled
<1>6. ASSUME NEW d \in Clients
      PROVE  \E S : /\ S \subseteq client[d].stray
                    /\ client'[d] = Receive([client[d] EXCEPT !.stray = S], d, sent')
  <2>1. [client[d] EXCEPT !.stray = client[d].stray] = client[d]
    BY <1>2, SameStray
  <2>2. client'[d] = Receive(client[d], d, sent')
    BY <1>1
  <2> QED
    BY <2>1, <2>2
<1>7. DOMAIN client' = Clients
  BY <1>1
<1>8. Serves(D, out, s, reply) /\ PartnersOK'
  BY <1>1, <1>3, <1>5, <1>6, <1>7, HandledServes DEF r
<1>9. Relays(r, D, out) /\ Requested(s, r)
  BY <1>3, <1>1, <1>5, Differ DEF Requested, Handled, r
<1> QED
  BY <1>8, <1>9

LEMMA ServeClosedServes ==
  ASSUME SessInv, NEW c \in Clients, ServeClosed(c)
  PROVE  \E D, out, s, reply, r : /\ Serves(D, out, s, reply) /\ PartnersOK'
                                  /\ Relays(r, D, out) /\ Requested(s, r)
<1> DEFINE s == <<c, "closed">>
<1>1. PICK r \in client[c].stray :
        /\ Handle(s, r) /\ UNCHANGED used
        /\ client' = [d \in Clients |->
                        Receive([client EXCEPT ![c].stray = @ \ {r}][d], d, sent')]
  BY DEF ServeClosed, Deliver
<1>2. \A d \in Clients : client[d] \in ClientType /\ Alone(client[d])
  BY DEF SessInv, ClientsOK, Alone
<1>3. r \in Asked(client[c])
  BY DEF Asked
<1>4. r \in Requests /\ (r.op = "message" => r.to # 0 /\ r.body # "")
  BY <1>2, <1>3, RequestsAre
<1>5. PICK D, out, reply : Handled(s, r, D, out, reply)
  BY <1>1, <1>4, ServingNow, HandleHandled
<1>6. ASSUME NEW d \in Clients
      PROVE  \E S : /\ S \subseteq client[d].stray
                    /\ client'[d] = Receive([client[d] EXCEPT !.stray = S], d, sent')
  <2> DEFINE cs == [client EXCEPT ![c].stray = @ \ {r}]
  <2>1. CASE d = c
    <3>1. cs[c] = [client[c] EXCEPT !.stray = client[c].stray \ {r}]
      BY ServingNow
    <3>2. client'[c] = Receive(cs[c], c, sent')
      BY <1>1
    <3> QED
      BY <2>1, <3>1, <3>2
  <2>2. CASE d # c
    <3>1. cs[d] = client[d]
      BY <2>2, ServingNow
    <3>2. client'[d] = Receive(cs[d], d, sent')
      BY <1>1
    <3>3. [client[d] EXCEPT !.stray = client[d].stray] = client[d]
      BY <1>2, SameStray
    <3> QED
      BY <3>1, <3>2, <3>3
  <2> QED
    BY <2>1, <2>2
<1>7. DOMAIN client' = Clients /\ s # <<c, "control">>
  BY <1>1, Differ
<1>8. Serves(D, out, s, reply) /\ PartnersOK'
  BY <1>1, <1>3, <1>5, <1>6, <1>7, HandledServes
<1>9. Relays(r, D, out) /\ Requested(s, r)
  BY <1>3, <1>5, Differ DEF Requested, Handled
<1> QED
  BY <1>8, <1>9

LEMMA ExpireServes ==
  ASSUME SessInv, NEW id \in Ids, Expire(id)
  PROVE  \E D, out, s, reply, r : /\ Serves(D, out, s, reply) /\ PartnersOK'
                                  /\ Relays(r, D, out) /\ Requested(s, r)
<1>7. PICK D : D = DOMAIN members_ \ {id}
  OBVIOUS
<1>1. /\ CheckForTimeout(id) /\ UNCHANGED used
      /\ client' = [d \in Clients |-> Receive(client[d], d, sent')]
  BY DEF Expire, Deliver
<1>2. \A d \in Clients : client[d] \in ClientType
  BY DEF SessInv, ClientsOK, Alone
<1>3. PICK out : /\ Outcome(D, out, NoSocket) /\ Fits(D, out) /\ Typings(out)
                 /\ \A r : r.op = "timeout" => Relays(r, D, out)
                 /\ PartnersOK' /\ UNCHANGED s_member_id_
                 /\ id \in DOMAIN members_ /\ members_[id].waiting = NoSocket
  BY <1>1, <1>7, ServingNow, TimeoutHandled
<1>4. ASSUME NEW d \in Clients
      PROVE  LET e == client[d]
                 f == client'[d]
             IN  /\ Same(e, f)
                 /\ f.note = IF Posts(d, D, out) THEN <<out[e.id]>> ELSE e.note
                 /\ NoSocket # <<d, "control">>
                 /\ f.reply = e.reply
  <2>1. client'[d] = Receive([client[d] EXCEPT !.stray = client[d].stray], d, sent')
    <3>1. [client[d] EXCEPT !.stray = client[d].stray] = client[d]
      BY <1>2, SameStray
    <3>2. client'[d] = Receive(client[d], d, sent')
      BY <1>1
    <3> QED
      BY <3>1, <3>2
  <2>2. (\A i : NoSocket # Gets(d, i)) /\ NoSocket # <<d, "control">>
    BY Differ
  <2>3. ASSUME NEW f, f = Receive([client[d] EXCEPT !.stray = client[d].stray], d, sent')
        PROVE  /\ Same(client[d], f)
               /\ Posts(d, D, out) => f.note = <<out[client[d].id]>>
               /\ ~Posts(d, D, out) => f.note = client[d].note
               /\ f.reply = client[d].reply
    <3>1. PICK s, S : s = NoSocket /\ S = client[d].stray
      OBVIOUS
    <3>2. f = Receive([client[d] EXCEPT !.stray = S], d, sent')
      BY <2>3, <3>1
    <3>3. Outcome(D, out, s) /\ Typings(out) /\ (\A i : s # Gets(d, i)) /\ s # <<d, "control">>
      BY <1>3, <2>2, <3>1
    <3> QED
      BY <3>1, <3>2, <3>3, ReceiveIs
  <2> QED
    BY <2>1, <2>2, <2>3
<1>5. DOMAIN client' = Clients
  BY <1>1
<1>6. Serves(D, out, NoSocket, Done)
  BY <1>1, <1>3, <1>4, <1>5, <1>7 DEF Serves
<1>8. PICK r : r = Req("timeout", 0, 0, "")
  OBVIOUS
<1>9. r.op = "timeout"
  BY <1>8 DEF Req
<1>10. Relays(r, D, out) /\ Requested(NoSocket, r)
  BY <1>3, <1>4, <1>9 DEF Requested
<1> QED
  BY <1>3, <1>6, <1>10

\* A handler, or a timeout, keeps the invariant.
LEMMA ServedInv ==
  ASSUME SessInv, NEW D, NEW out, NEW s, NEW reply, Serves(D, out, s, reply), PartnersOK',
         ChannelTypeOK', Orderly(members_')
  PROVE  SessInv'
<1>1. used' = used /\ DOMAIN client' = Clients
  BY DEF Serves
<1>2. ServerOK'
  BY <1>1, ServedQueues DEF SessInv, ServerOK
<1>3. ClientsOK'
  BY <1>1, ServedAlone DEF SessInv, ClientsOK, NoDrop
<1> QED
  BY <1>2, <1>3, ServedIds, ServedWaiters, ServedGets, ServedMails DEF SessInv

-----------------------------------------------------------------------------
(***************************************************************************)
(* The hanging get.                                                        *)
(***************************************************************************)
\* What a poll for the member id on s gets, and what becomes of the member.
Polled(s, id) ==
  /\ UNCHANGED s_member_id_ /\ DOMAIN members_' = DOMAIN members_
  /\ \A i \in DOMAIN members_ \ {id} : members_'[i] = members_[i]
  /\ \A i \in DOMAIN members_ : members_'[i].partner = members_[i].partner
  /\ \/ /\ ~Known(id) /\ DOMAIN sent' = {s} /\ sent'[s] = Failed
     \/ /\ Known(id) /\ members_[id].queue = <<>> /\ DOMAIN sent' = {}
        /\ members_'[id].waiting = s /\ members_'[id].queue = <<>>
     \/ /\ Known(id) /\ members_[id].queue # <<>>
        /\ DOMAIN sent' = {s} /\ sent'[s] = Head(members_[id].queue)
        /\ members_'[id].waiting = members_[id].waiting
        /\ members_'[id].queue = Tail(members_[id].queue)

LEMMA PollIs ==
  ASSUME Serving, NEW s, NEW id, Poll(s, id)
  PROVE  Polled(s, id)
<1>1. CASE Unknown(s, id)
  <2>1. ~Known(id) /\ sent' = Only(s, Failed) /\ members_' = members_ /\ s_member_id_' = s_member_id_
    BY <1>1 DEF Unknown
  <2>2. DOMAIN sent' = {s} /\ sent'[s] = Failed
    BY <2>1 DEF Only
  <2> QED
    BY <2>1, <2>2 DEF Polled
<1>2. CASE Wait(s, id)
  <2> DEFINE q == members_[id].queue
  <2>1. Known(id) /\ id \in DOMAIN members_ /\ s_member_id_' = s_member_id_
    BY <1>2 DEF Wait, Known
  <2>2. MemberShape(members_[id])
    BY <2>1 DEF Serving, Orderly, Shaped
  <2>3. CASE q = <<>>
    <3>1. members_' = [members_ EXCEPT ![id].waiting = s] /\ sent' = <<>>
      BY <1>2, <2>3 DEF Wait
    <3>2. members_'[id] = [members_[id] EXCEPT !.waiting = s]
      BY <2>1, <3>1
    <3>3. /\ members_'[id].waiting = s /\ members_'[id].queue = members_[id].queue
          /\ members_'[id].partner = members_[id].partner
      BY <2>2, <3>2 DEF MemberShape
    <3>4. /\ DOMAIN members_' = DOMAIN members_
          /\ \A i \in DOMAIN members_ \ {id} : members_'[i] = members_[i]
      BY <3>1
    <3>5. DOMAIN sent' = {}
      BY <3>1
    <3> QED
      BY <2>1, <2>3, <3>3, <3>4, <3>5 DEF Polled
  <2>4. CASE q # <<>>
    <3>1. members_' = [members_ EXCEPT ![id].queue = Tail(q)] /\ sent' = Only(s, Head(q))
      BY <1>2, <2>4 DEF Wait
    <3>2. members_'[id] = [members_[id] EXCEPT !.queue = Tail(q)]
      BY <2>1, <3>1
    <3>3. /\ members_'[id].waiting = members_[id].waiting /\ members_'[id].queue = Tail(q)
          /\ members_'[id].partner = members_[id].partner
      BY <2>2, <3>2 DEF MemberShape
    <3>4. /\ DOMAIN members_' = DOMAIN members_
          /\ \A i \in DOMAIN members_ \ {id} : members_'[i] = members_[i]
      BY <3>1
    <3>5. DOMAIN sent' = {s} /\ sent'[s] = Head(q)
      BY <3>1 DEF Only
    <3> QED
      BY <2>1, <2>4, <3>3, <3>4, <3>5 DEF Polled
  <2> QED
    BY <2>3, <2>4
<1> QED
  BY <1>1, <1>2 DEF Poll

LEMMA PolledServer ==
  ASSUME SessInv, NEW s, NEW id, Polled(s, id)
  PROVE  PartnersOK' /\ QueuesOK'
<1>1. PartnersOK'
  BY DEF Polled, SessInv, ServerOK, PartnersOK
<1>2. ASSUME NEW i \in DOMAIN members_', NEW k \in DOMAIN members_'[i].queue
      PROVE  Notice(i, members_'[i].queue[k])
  <2> DEFINE q == members_[i].queue
  <2>1. i \in DOMAIN members_ /\ q \in Seq(Responses)
    BY DEF Polled, SessInv, ServerOK, ChannelTypeOK, MemberType
  <2>2. members_'[i].queue = q \/ (q # <<>> /\ members_'[i].queue = Tail(q)) \/ members_'[i].queue = <<>>
    <3>1. i # id => members_'[i].queue = q
      BY <2>1 DEF Polled
    <3>2. i = id => members_'[i].queue = <<>> \/ (q # <<>> /\ members_'[i].queue = Tail(q))
      BY <2>1 DEF Polled, Known
    <3> QED
      BY <3>1, <3>2
  <2>3. \A j \in DOMAIN q : Notice(i, q[j])
    BY <2>1 DEF SessInv, ServerOK, QueuesOK
  <2> HIDE DEF q
  <2>4. CASE members_'[i].queue = q
    BY <1>2, <2>3, <2>4
  <2>5. CASE q # <<>> /\ members_'[i].queue = Tail(q)
    <3>1. \A j \in DOMAIN Tail(q) : j + 1 \in DOMAIN q /\ Tail(q)[j] = q[j + 1]
      BY <2>1, <2>5 DEF q
    <3> QED
      BY <1>2, <2>3, <2>5, <3>1
  <2>6. CASE members_'[i].queue = <<>>
    BY <1>2, <2>6
  <2> QED
    BY <2>2, <2>4, <2>5, <2>6
<1> QED
  BY <1>1, <1>2 DEF QueuesOK

LEMMA ServeWaitIs ==
  ASSUME SessInv, NEW c \in Clients, ServeWait(c)
  PROVE  LET e == client[c]
             f == client'[c]
         IN  /\ e.wait = "asked" /\ e.id # 0 /\ (\A d \in e.dead : d[1] # e.id)
             /\ Polled(Gets(c, e.id), e.id)
             /\ UNCHANGED used /\ DOMAIN client' = Clients
             /\ \A d \in Clients \ {c} : client'[d] = client[d]
             /\ f = [e EXCEPT !.wait = "held",
                              !.note = IF Gets(c, e.id) \in DOMAIN sent'
                                       THEN <<sent'[Gets(c, e.id)]>> ELSE <<>>]
<1> DEFINE e == client[c]
           w == Gets(c, e.id)
           x == [e EXCEPT !.wait = "held"]
           cs == [client EXCEPT ![c].wait = "held"]
<1>1. /\ e.wait = "asked" /\ (\A d \in e.dead : d[1] # e.id) /\ Poll(w, e.id)
      /\ UNCHANGED used /\ client' = [d \in Clients |-> Receive(cs[d], d, sent')]
  BY DEF ServeWait, Deliver, Gets
<1>2. Alone(e) /\ e \in ClientType /\ e.id # 0 /\ e.note = <<>>
  BY <1>1 DEF SessInv, ClientsOK, Alone, Unsigned, Waits
<1>3. Polled(w, e.id)
  BY <1>1, ServingNow, PollIs
<1>4. \A t \in DOMAIN sent' : t = w
  BY <1>3 DEF Polled
<1>5. /\ x \in ClientType /\ x.wait = "held" /\ x.id = e.id /\ x.note = <<>> /\ x.reply = e.reply
  BY <1>2 DEF ClientType
<1>6. cs[c] = x /\ \A d \in Clients \ {c} : cs[d] = client[d]
  BY ServingNow
<1> HIDE DEF x, cs
<1>7. client'[c] = [x EXCEPT !.note = IF w \in DOMAIN sent' THEN <<sent'[w]>> ELSE <<>>]
  <2>1. <<c, "control">> \notin DOMAIN sent'
    BY <1>4, Differ
  <2>2. client'[c] = Receive(x, c, sent')
    BY <1>1, <1>6
  <2>3. [x EXCEPT !.reply = x.reply] = x
    BY <1>5 DEF ClientType
  <2> DEFINE N == IF w \in DOMAIN sent' THEN <<sent'[w]>> ELSE <<>>
  <2>4. client'[c] = [x EXCEPT !.reply = x.reply, !.note = N]
    BY <1>5, <2>1, <2>2 DEF Receive, Gets
  <2>5. client'[c] = [x EXCEPT !.note = N]
    <3> HIDE DEF N
    <3> QED
      BY <2>3, <2>4
  <2> QED
    BY <2>5
<1>8. ASSUME NEW d \in Clients \ {c}
      PROVE  client'[d] = client[d]
  <2>1. client[d] \in ClientType
    BY DEF SessInv, ClientsOK, Alone
  <2>2. <<d, "control">> \notin DOMAIN sent' /\ Gets(d, client[d].id) \notin DOMAIN sent'
    BY <1>4, Differ
  <2>3. client'[d] = Receive(client[d], d, sent')
    BY <1>1, <1>6
  <2>4. client'[d] = [client[d] EXCEPT !.reply = client[d].reply, !.note = client[d].note]
    BY <2>2, <2>3 DEF Receive, Gets
  <2> QED
    BY <2>1, <2>4 DEF ClientType
<1>9. DOMAIN client' = Clients
  BY <1>1
<1>10. client'[c] = [e EXCEPT !.wait = "held",
                              !.note = IF w \in DOMAIN sent' THEN <<sent'[w]>> ELSE <<>>]
  BY <1>7 DEF x
<1> QED
  BY <1>1, <1>2, <1>3, <1>8, <1>9, <1>10

\* The client is answered, or its hanging get is held.
LEMMA ServeWaitClient ==
  ASSUME SessInv, NEW c \in Clients, ServeWait(c)
  PROVE  LET e == client[c]
             f == client'[c]
             i == e.id
         IN  /\ Alone(f) /\ (Uncut(e) => Uncut(f)) /\ Holds(f) = Holds(e) /\ Fresh(f)
             /\ f.st = e.st /\ f.id = i /\ f.left = e.left /\ f.peers = e.peers /\ f.peer = e.peer
             /\ f.wait = "held" /\ f.dead = e.dead /\ e.note = <<>> /\ i \in Holds(e)
             /\ \/ ~Known(i) /\ f.note # <<>>
                \/ Known(i) /\ members_[i].queue = <<>> /\ f.note = <<>>
                \/ Known(i) /\ members_[i].queue # <<>> /\ f.note = <<Head(members_[i].queue)>>
<1> DEFINE e == client[c]
           f == client'[c]
           i == e.id
           w == Gets(c, i)
           q == members_[i].queue
           N == IF w \in DOMAIN sent' THEN <<sent'[w]>> ELSE <<>>
<1>1. /\ e.wait = "asked" /\ i # 0 /\ (\A d \in e.dead : d[1] # i) /\ Polled(w, i)
      /\ f = [e EXCEPT !.wait = "held", !.note = N]
  BY ServeWaitIs
<1>2. Alone(e) /\ e \in ClientType /\ Fresh(e) /\ e.note = <<>> /\ i \in Holds(e) /\ i \in Ids
  <2>1. Alone(e) /\ Fresh(e) /\ e \in ClientType
    BY DEF SessInv, ClientsOK, IdsOK, Alone
  <2>2. i \in Holds(e) /\ i \in Ids
    BY <1>1, <2>1, HoldsIs
  <2> QED
    BY <1>1, <2>1, <2>2 DEF Alone, Waits
<1>3. /\ N \in AtMostOne(Responses) /\ (N # <<>> => Notice(i, N[1]))
      /\ \/ ~Known(i) /\ N # <<>>
         \/ Known(i) /\ q = <<>> /\ N = <<>>
         \/ Known(i) /\ q # <<>> /\ N = <<Head(q)>>
  <2>1. CASE ~Known(i) /\ DOMAIN sent' = {w} /\ sent'[w] = Failed
    <3>1. N = <<Failed>> /\ Failed \in Responses /\ Failed.from = 0
      BY <2>1, ServingNow, ServingIds DEF Failed, Response
    <3>2. N \in AtMostOne(Responses) /\ N # <<>> /\ N[1] = Failed
      BY <3>1, OneIs
    <3> HIDE DEF N, i, q
    <3> QED
      BY <1>1, <2>1, <3>1, <3>2 DEF Notice
  <2>2. CASE Known(i) /\ q = <<>> /\ DOMAIN sent' = {}
    <3>1. N = <<>>
      BY <2>2
    <3> HIDE DEF N, i, q
    <3> QED
      BY <2>2, <3>1 DEF AtMostOne
  <2>3. CASE Known(i) /\ q # <<>> /\ DOMAIN sent' = {w} /\ sent'[w] = Head(q)
    <3>1. q \in Seq(Responses) /\ \A k \in DOMAIN q : Notice(i, q[k])
      BY <2>3 DEF SessInv, ServerOK, ChannelTypeOK, MemberType, QueuesOK, Known
    <3>2. N = <<Head(q)>>
      BY <2>3
    <3> HIDE DEF q
    <3>3. Head(q) = q[1] /\ 1 \in DOMAIN q /\ Head(q) \in Responses
      BY <2>3, <3>1
    <3>4. N \in AtMostOne(Responses) /\ N # <<>> /\ N[1] = Head(q)
      BY <3>2, <3>3, OneIs
    <3> HIDE DEF N, i
    <3> QED
      BY <2>3, <3>1, <3>2, <3>3, <3>4
  <2> QED
    BY <1>1, <2>1, <2>2, <2>3 DEF Polled
<1> HIDE DEF N, q
<1>4. /\ f \in ClientType /\ f.wait = "held" /\ f.note = N
      /\ f.st = e.st /\ f.id = e.id /\ f.peers = e.peers /\ f.ctl = e.ctl /\ f.reply = e.reply
      /\ f.stray = e.stray /\ f.dead = e.dead /\ f.peer = e.peer /\ f.pc = e.pc
      /\ f.jobs = e.jobs /\ f.gather = e.gather /\ f.pending = e.pending /\ f.again = e.again
      /\ f.left = e.left
  BY <1>1, <1>2, <1>3, ZenonT(60) DEF ClientType
<1> HIDE DEF e, f
<1>5. Asked(f) = Asked(e) /\ Given(f) = Given(e)
  BY <1>4 DEF Asked, Given
<1>6. Holds(f) = Holds(e) /\ Fresh(f)
  BY <1>2, <1>4, <1>5 DEF Holds, Fresh
<1>7. Unsigned(f) /\ Controls(f) /\ Asks(f)
  BY <1>1, <1>2, <1>4, <1>5, ZenonT(60) DEF Alone, Unsigned, Controls, Asks
<1>8. States(f)
  BY <1>1, <1>2, <1>4 DEF Alone, States
<1>9. Waits(f)
  BY <1>1, <1>3, <1>4 DEF Waits
<1>10. Uncut(e) => Uncut(f)
  BY <1>4 DEF Uncut
<1> QED
  BY <1>2, <1>3, <1>4, <1>6, <1>7, <1>8, <1>9, <1>10 DEF Alone, e, f, q

LEMMA ServeWaitInv ==
  ASSUME SessInv, NEW c \in Clients, ServeWait(c), ChannelTypeOK', Orderly(members_')
  PROVE  SessInv'
<1> DEFINE e == client[c]
           f == client'[c]
<1>8. PICK i : i = e.id
  OBVIOUS
<1>1. /\ i # 0 /\ Polled(Gets(c, i), i) /\ UNCHANGED used /\ DOMAIN client' = Clients
      /\ (\A d \in e.dead : d[1] # i) /\ e.wait = "asked"
      /\ \A d \in Clients \ {c} : client'[d] = client[d]
  BY <1>8, ServeWaitIs
<1>2. /\ Alone(f) /\ (Uncut(e) => Uncut(f)) /\ Holds(f) = Holds(e) /\ Fresh(f)
      /\ f.st = e.st /\ f.id = i /\ f.left = e.left /\ f.peers = e.peers /\ f.peer = e.peer
      /\ f.wait = "held" /\ f.dead = e.dead /\ e.note = <<>> /\ i \in Holds(e)
      /\ \/ ~Known(i) /\ f.note # <<>>
         \/ Known(i) /\ members_[i].queue = <<>> /\ f.note = <<>>
         \/ Known(i) /\ members_[i].queue # <<>> /\ f.note = <<Head(members_[i].queue)>>
  BY <1>8, ServeWaitClient
<1>3. /\ DOMAIN members_' = DOMAIN members_ /\ s_member_id_' = s_member_id_
      /\ \A j \in DOMAIN members_ : j # i => members_'[j] = members_[j]
  BY <1>1 DEF Polled
<1>4. \A d \in Clients : d # c => i \notin Holds(client[d])
  BY <1>2, Owners
<1> HIDE DEF e, f
<1>5. ServerOK' /\ ClientsOK' /\ IdsOK'
  <2>1. ServerOK'
    BY <1>1, PolledServer DEF SessInv, ServerOK
  <2>2. ClientsOK'
    BY <1>1, <1>2 DEF SessInv, ClientsOK, NoDrop, e, f
  <2>3. IdsOK'
    <3>1. \A d \in Clients : Holds(client'[d]) = Holds(client[d]) /\ Fresh(client'[d])
      BY <1>1, <1>2 DEF SessInv, IdsOK, e, f
    <3> QED
      BY <1>3, <3>1 DEF SessInv, IdsOK
  <2> QED
    BY <2>1, <2>2, <2>3
<1>6. WaitersOK'
  <2> SUFFICES ASSUME NEW j \in DOMAIN members_, members_'[j].waiting # NoSocket
               PROVE  \E d \in Clients :
                        /\ members_'[j].waiting = Gets(d, j)
                        /\ Held(client'[d], j) \/ <<j, "held">> \in client'[d].dead
    BY <1>3 DEF WaitersOK
  <2>1. CASE members_'[j].waiting = members_[j].waiting
    <3>1. PICK d \in Clients : /\ members_[j].waiting = Gets(d, j)
                               /\ Held(client[d], j) \/ <<j, "held">> \in client[d].dead
      BY <2>1, Waiter
    <3>2. CASE d # c
      BY <1>1, <2>1, <3>1, <3>2
    <3>3. CASE d = c
      <4>1. <<j, "held">> \in e.dead
        BY <1>1, <3>1, <3>3 DEF Held, e
      <4> QED
        BY <1>2, <2>1, <3>1, <3>3, <4>1 DEF f
    <3> QED
      BY <3>2, <3>3
  <2>2. CASE members_'[j].waiting # members_[j].waiting
    <3>1. j = i
      BY <1>3, <2>2
    <3>2. members_'[i].waiting = Gets(c, i) /\ members_[i].queue = <<>> /\ Known(i)
      BY <1>1, <2>2, <3>1 DEF Polled, Known
    <3>3. f.note = <<>>
      BY <1>2, <3>2
    <3> QED
      BY <1>2, <3>1, <3>2, <3>3 DEF Held, f
  <2> QED
    BY <2>1, <2>2
<1>7. GetsOK'
  <2> SUFFICES ASSUME NoDrop', NEW d \in Clients, ~client'[d].left,
                      Held(client'[d], client'[d].id)
               PROVE  LET j == client'[d].id IN
                      j \in DOMAIN members_' /\ members_'[j].waiting = Gets(d, j)
    BY DEF GetsOK, Known
  <2>1. CASE d = c
    <3>1. f.note = <<>>
      BY <2>1 DEF Held, f
    <3>2. Known(i) /\ members_[i].queue = <<>>
      BY <1>2, <3>1
    <3>3. members_'[i].waiting = Gets(c, i)
      BY <1>1, <3>2 DEF Polled
    <3> QED
      BY <1>2, <1>3, <2>1, <3>2, <3>3 DEF Known, f
  <2>2. CASE d # c
    <3>1. client'[d] = client[d]
      BY <1>1, <2>2
    <3>2. Known(client[d].id) /\ members_[client[d].id].waiting = Gets(d, client[d].id)
      BY <1>1, <3>1 DEF SessInv, GetsOK, NoDrop
    <3>3. client[d].id \in Holds(client[d])
      <4>1. Alone(client[d]) /\ client[d].wait # "none"
        BY <3>1 DEF SessInv, ClientsOK, Held
      <4> QED
        BY <4>1, HoldsIs
    <3>4. client[d].id # i
      BY <1>4, <2>2, <3>3
    <3> QED
      BY <1>3, <3>1, <3>2, <3>4 DEF Known
  <2> QED
    BY <2>1, <2>2
<1>9. MailsOK'
  <2> SUFFICES ASSUME NoDrop', NEW d \in Clients, Hears(client'[d]),
                      Self(client'[d]) \in DOMAIN members_'
               PROVE  LET h == client'[d]
                          j == Self(h)
                      IN  /\ MailOK(j, Knows(h), MailOf(h, members_', j), DOMAIN members_')
                          /\ h.peer # 0 => h.peer \in h.peers
    BY DEF MailsOK, Known
  <2>0. NoDrop
    BY <1>1 DEF NoDrop
  <2>1. CASE d = c
    <3>1. Self(f) = i /\ Self(e) = i /\ Knows(f) = e.peers /\ Knows(e) = e.peers
            /\ Hears(e)
      BY <1>1, <1>2, <1>8, <2>1 DEF Self, Knows, Hears, f
    <3>2. Known(i)
      BY <1>3, <2>1, <3>1 DEF Known, f
    <3>3. /\ MailOK(i, e.peers, MailOf(e, members_, i), DOMAIN members_)
          /\ e.peer # 0 => e.peer \in e.peers
      BY <2>0, <3>1, <3>2 DEF SessInv, MailsOK, e
    <3>4. MailOf(f, members_', i) = MailOf(e, members_, i)
      <4>1. members_[i].queue \in Seq(Responses)
        BY <3>2 DEF SessInv, ServerOK, ChannelTypeOK, MemberType, Known
      <4> DEFINE q == members_[i].queue
      <4>2. CASE q = <<>>
        <5>1. members_'[i].queue = <<>> /\ f.note = <<>>
          BY <1>1, <1>2, <3>2, <4>2 DEF Polled
        <5> QED
          BY <1>2, <4>2, <5>1 DEF MailOf
      <4>3. CASE q # <<>>
        <5>1. members_'[i].queue = Tail(q) /\ f.note = <<Head(q)>>
          BY <1>1, <1>2, <3>2, <4>3 DEF Polled
        <5>2. <<Head(q)>> \o Tail(q) = <<>> \o q
          <6> HIDE DEF q
          <6> QED
            BY <4>1, <4>3 DEF q
        <5> QED
          BY <1>2, <5>1, <5>2 DEF MailOf
      <4> QED
        BY <4>2, <4>3
    <3> QED
      BY <1>2, <1>3, <2>1, <3>1, <3>3, <3>4 DEF f
  <2>2. CASE d # c
    <3>1. client'[d] = client[d] /\ Hears(client[d])
      BY <1>1, <2>2
    <3>2. Self(client[d]) \in DOMAIN members_
      BY <1>3, <3>1
    <3>3. LET h == client[d]
              j == Self(h)
          IN  /\ MailOK(j, Knows(h), MailOf(h, members_, j), DOMAIN members_)
              /\ h.peer # 0 => h.peer \in h.peers
      BY <2>0, <3>1, <3>2 DEF SessInv, MailsOK, Known
    <3>4. Self(client[d]) # i
      BY <1>4, <2>2, <3>1, HearsIs
    <3>5. MailOf(client[d], members_', Self(client[d])) = MailOf(client[d], members_, Self(client[d]))
      BY <1>3, <3>2, <3>4 DEF MailOf
    <3> QED
      BY <1>3, <3>1, <3>3, <3>5
  <2> QED
    BY <2>1, <2>2
<1> QED
  BY <1>5, <1>6, <1>7, <1>9 DEF SessInv

\* A hanging get that the client has closed concerns no one that hears.
LEMMA ServeDeadWaitIs ==
  ASSUME SessInv, NEW c \in Clients, ServeDeadWait(c)
  PROVE  \E i \in Ids, f \in ClientType :
           /\ <<i, "asked">> \in client[c].dead \/ <<i, "held">> \in client[c].dead
           /\ UNCHANGED <<used, s_member_id_>> /\ DOMAIN client' = Clients /\ client'[c] = f
           /\ \A d \in Clients \ {c} : client'[d] = client[d]
           /\ f = [client[c] EXCEPT !.dead = f.dead]
           /\ \/ /\ Polled(Gets(c, i), i)
                 /\ <<i, "held">> \in f.dead
                 /\ \A j, x : <<j, x>> \in f.dead => \E y : <<j, y>> \in client[c].dead
                 /\ \A j : <<j, "held">> \in client[c].dead => <<j, "held">> \in f.dead
              \/ /\ CloseSocket(Gets(c, i))
                 /\ f.dead \subseteq client[c].dead
                 /\ \A j : <<j, "held">> \in client[c].dead => j = i \/ <<j, "held">> \in f.dead
<1> DEFINE e == client[c]
<1>1. e \in ClientType /\ Alone(e)
  BY DEF SessInv, ClientsOK, Alone
<1>2. PICK d \in e.dead :
        LET s == <<c, "wait", d[1]>>
            x == [client EXCEPT ![c].dead = @ \ {d}]
        IN  \/ /\ d[2] = "asked" /\ Poll(s, d[1])
               /\ Deliver([x EXCEPT ![c].dead = @ \cup {<<d[1], "held">>}])
            \/ CloseSocket(s) /\ Deliver(x)
  BY DEF ServeDeadWait
<1>3. PICK i \in Ids, k \in {"asked", "held"} : d = <<i, k>>
  BY <1>1 DEF ClientType
<1>4. d[1] = i /\ d[2] = k
  BY <1>3
<1> DEFINE w == Gets(c, i)
           x == [client EXCEPT ![c].dead = @ \ {d}]
           y == [x EXCEPT ![c].dead = @ \cup {<<i, "held">>}]
<1>5. w = <<c, "wait", i>>
  BY DEF Gets
<1>6. ASSUME NEW cs, NEW S, S \in SUBSET (Ids \X {"asked", "held"}),
             cs[c] = [e EXCEPT !.dead = S],
             \A v \in Clients \ {c} : cs[v] = client[v],
             DOMAIN client' = Clients, \A v \in Clients : client'[v] = Receive(cs[v], v, sent'),
             \A t \in DOMAIN sent' : t = w,
             e.wait = "held" => e.id # i
      PROVE  /\ client'[c] = [e EXCEPT !.dead = S] /\ client'[c] \in ClientType
             /\ client'[c].dead = S
             /\ DOMAIN client' = Clients
             /\ \A v \in Clients \ {c} : client'[v] = client[v]
  <2>1. ASSUME NEW v \in Clients, NEW g \in ClientType, g.wait = "held" /\ v = c => g.id # i
        PROVE  Receive(g, v, sent') = g
    <3>1. <<v, "control">> \notin DOMAIN sent'
      BY <1>6, Differ
    <3>2. g.wait # "held" \/ Gets(v, g.id) \notin DOMAIN sent'
      BY <1>6, <2>1, Differ
    <3>3. Receive(g, v, sent') = [g EXCEPT !.reply = g.reply, !.note = g.note]
      BY <3>1, <3>2 DEF Receive, Gets
    <3> QED
      BY <2>1, <3>3 DEF ClientType
  <2> DEFINE g == [e EXCEPT !.dead = S]
  <2>2. g \in ClientType /\ g.dead = S /\ g.wait = e.wait /\ g.id = e.id
    BY <1>1, <1>6 DEF ClientType
  <2> HIDE DEF g
  <2>3. Receive(g, c, sent') = g
    BY <1>6, <2>1, <2>2
  <2>4. \A v \in Clients \ {c} : Receive(client[v], v, sent') = client[v]
    BY <2>1 DEF SessInv, ClientsOK, Alone
  <2>5. cs[c] = g
    BY <1>6 DEF g
  <2>6. client'[c] = g /\ DOMAIN client' = Clients
    BY <1>6, <2>3, <2>5
  <2>7. \A v \in Clients \ {c} : client'[v] = client[v]
    BY <1>6, <2>4
  <2> QED
    BY <2>2, <2>6, <2>7 DEF g
<1>7. e.wait = "held" => e.id # i
  BY <1>1, <1>4 DEF Alone, Waits
<1>8. e.dead \in SUBSET (Ids \X {"asked", "held"})
  BY <1>1 DEF ClientType
<1>9. /\ x[c] = [e EXCEPT !.dead = e.dead \ {d}] /\ DOMAIN x = Clients
      /\ \A v \in Clients \ {c} : x[v] = client[v]
  BY ServingNow
<1>10. CASE CloseSocket(w) /\ Deliver(x)
  <2>1. /\ client' = [v \in Clients |-> Receive(x[v], v, sent')] /\ UNCHANGED used
        /\ sent' = <<>> /\ UNCHANGED s_member_id_
    BY <1>10 DEF Deliver, CloseSocket
  <2>2. \A t \in DOMAIN sent' : t = w
    BY <2>1
  <2> DEFINE S == e.dead \ {d}
  <2>3. S \in SUBSET (Ids \X {"asked", "held"})
    BY <1>8
  <2> HIDE DEF x, S
  <2>4. /\ client'[c] = [e EXCEPT !.dead = S] /\ client'[c] \in ClientType
        /\ client'[c].dead = S /\ DOMAIN client' = Clients
        /\ \A v \in Clients \ {c} : client'[v] = client[v]
    <3>1. PICK cs, T : cs = x /\ T = S
      OBVIOUS
    <3>2. cs[c] = [e EXCEPT !.dead = T] /\ \A v \in Clients \ {c} : cs[v] = client[v]
      BY <1>9, <3>1 DEF S
    <3>3. DOMAIN client' = Clients /\ \A v \in Clients : client'[v] = Receive(cs[v], v, sent')
      BY <2>1, <3>1
    <3> HIDE DEF e, w
    <3> QED
      BY <1>6, <1>7, <2>2, <2>3, <3>1, <3>2, <3>3
  <2>5. S \subseteq e.dead /\ \A j : <<j, "held">> \in e.dead => j = i \/ <<j, "held">> \in S
    BY <1>3 DEF S
  <2>6. <<i, "asked">> \in e.dead \/ <<i, "held">> \in e.dead
    BY <1>3
  <2> HIDE DEF e, w
  <2> QED
    BY <1>10, <2>1, <2>4, <2>5, <2>6 DEF e, w
<1>11. CASE k = "asked" /\ Poll(w, i) /\ Deliver(y)
  <2>1. client' = [v \in Clients |-> Receive(y[v], v, sent')] /\ UNCHANGED used
    BY <1>11 DEF Deliver
  <2>2. Polled(w, i)
    BY <1>11, ServingNow, PollIs
  <2>3. (\A t \in DOMAIN sent' : t = w) /\ UNCHANGED s_member_id_
    BY <2>2 DEF Polled
  <2> DEFINE S == (e.dead \ {d}) \cup {<<i, "held">>}
  <2>4. S \in SUBSET (Ids \X {"asked", "held"})
    BY <1>8
  <2>5. /\ y[c] = [x[c] EXCEPT !.dead = @ \cup {<<i, "held">>}]
        /\ \A v \in Clients \ {c} : y[v] = x[v]
    <3> HIDE DEF x
    <3> QED
      BY <1>9
  <2>6. y[c] = [e EXCEPT !.dead = S]
    <3>1. ASSUME NEW g \in ClientType, NEW A, A \in SUBSET (Ids \X {"asked", "held"}), NEW B
          PROVE  [[g EXCEPT !.dead = A] EXCEPT !.dead = @ \cup B] = [g EXCEPT !.dead = A \cup B]
      <4>1. [g EXCEPT !.dead = A].dead = A
        BY DEF ClientType
      <4> QED
        BY <4>1
    <3> HIDE DEF x, y
    <3> QED
      BY <1>1, <1>8, <1>9, <2>5, <3>1, ZenonT(60)
  <2>7. \A v \in Clients \ {c} : y[v] = client[v]
    BY <1>9, <2>5
  <2> HIDE DEF x, y, S
  <2>8. /\ client'[c] = [e EXCEPT !.dead = S] /\ client'[c] \in ClientType
        /\ client'[c].dead = S /\ DOMAIN client' = Clients
        /\ \A v \in Clients \ {c} : client'[v] = client[v]
    <3>1. PICK cs, T : cs = y /\ T = S
      OBVIOUS
    <3>2. cs[c] = [e EXCEPT !.dead = T] /\ \A v \in Clients \ {c} : cs[v] = client[v]
      BY <2>6, <2>7, <3>1
    <3>3. DOMAIN client' = Clients /\ \A v \in Clients : client'[v] = Receive(cs[v], v, sent')
      BY <2>1, <3>1
    <3> HIDE DEF e, w
    <3> QED
      BY <1>6, <1>7, <2>3, <2>4, <3>1, <3>2, <3>3
  <2>9. <<i, "held">> \in S /\ \A j : <<j, "held">> \in e.dead => <<j, "held">> \in S
    BY <1>3 DEF S
  <2>10. \A j, z : <<j, z>> \in S => \E u : <<j, u>> \in e.dead
    BY <1>3 DEF S
  <2>11. <<i, "asked">> \in e.dead \/ <<i, "held">> \in e.dead
    BY <1>3
  <2> HIDE DEF e, w
  <2> QED
    BY <2>1, <2>2, <2>3, <2>8, <2>9, <2>10, <2>11 DEF e, w
<1> QED
  BY <1>2, <1>4, <1>5, <1>10, <1>11

LEMMA CloseIs ==
  ASSUME Serving, NEW s, CloseSocket(s)
  PROVE  /\ UNCHANGED s_member_id_ /\ DOMAIN members_' = DOMAIN members_
         /\ \A j \in DOMAIN members_ :
              /\ members_'[j].partner = members_[j].partner
              /\ members_'[j].queue = members_[j].queue
              /\ members_[j].waiting = s => members_'[j].waiting = NoSocket
              /\ members_[j].waiting # s => members_'[j].waiting = members_[j].waiting
<1>1. members_' = [j \in DOMAIN members_ |->
                     IF members_[j].waiting = s
                     THEN [members_[j] EXCEPT !.waiting = NoSocket] ELSE members_[j]]
  BY DEF CloseSocket
<1>2. \A j \in DOMAIN members_ : MemberShape(members_[j])
  BY DEF Serving, Orderly, Shaped
<1>3. UNCHANGED s_member_id_
  BY DEF CloseSocket
<1> QED
  BY <1>1, <1>2, <1>3 DEF MemberShape

\* The client, without the hanging get or with another one.
LEMMA FewerDead ==
  ASSUME NEW e, Apt(e), NEW f \in ClientType, f = [e EXCEPT !.dead = f.dead],
         \A j, x : <<j, x>> \in f.dead => \E y : <<j, y>> \in e.dead
  PROVE  /\ Alone(f) /\ (Uncut(e) => Uncut(f)) /\ Holds(f) \subseteq Holds(e) /\ Fresh(f)
         /\ f.st = e.st /\ f.id = e.id /\ f.left = e.left /\ f.peers = e.peers /\ f.peer = e.peer
         /\ f.wait = e.wait /\ f.note = e.note /\ f.reply = e.reply
<1>1. e \in ClientType /\ Alone(e) /\ Fresh(e)
  BY DEF Apt, Alone
<1>2. /\ f.st = e.st /\ f.id = e.id /\ f.peers = e.peers /\ f.ctl = e.ctl /\ f.reply = e.reply
      /\ f.wait = e.wait /\ f.note = e.note /\ f.stray = e.stray /\ f.peer = e.peer /\ f.pc = e.pc
      /\ f.jobs = e.jobs /\ f.gather = e.gather /\ f.pending = e.pending /\ f.again = e.again
      /\ f.left = e.left
  BY <1>1 DEF ClientType
<1>3. {d[1] : d \in f.dead} \subseteq {d[1] : d \in e.dead}
  <2> SUFFICES ASSUME NEW d \in f.dead PROVE \E b \in e.dead : b[1] = d[1]
    OBVIOUS
  <2>1. PICK j, x : d = <<j, x>>
    BY DEF ClientType
  <2>2. PICK y : <<j, y>> \in e.dead
    BY <2>1
  <2> QED
    BY <2>1, <2>2
<1>4. \A d \in f.dead : \E b \in e.dead : b[1] = d[1]
  BY <1>3
<1>5. Asked(f) = Asked(e) /\ Given(f) = Given(e)
  BY <1>2 DEF Asked, Given
<1>6. Holds(f) \subseteq Holds(e)
  BY <1>2, <1>3, <1>5 DEF Holds
<1>7. Fresh(f)
  BY <1>1, <1>4, <1>5 DEF Fresh
<1>8. Unsigned(f) /\ Controls(f) /\ Asks(f) /\ States(f)
  <2>1. Unsigned(f)
    BY <1>1, <1>2 DEF Alone, Unsigned
  <2>2. Controls(f)
    BY <1>1, <1>2 DEF Alone, Controls
  <2>3. Asks(f)
    BY <1>1, <1>2, <1>5 DEF Alone, Asks
  <2>4. States(f)
    BY <1>1, <1>2 DEF Alone, States
  <2> QED
    BY <2>1, <2>2, <2>3, <2>4
<1>9. Waits(f)
  BY <1>1, <1>2, <1>4 DEF Alone, Waits
<1>10. Uncut(e) => Uncut(f)
  BY <1>2, <1>4 DEF Uncut
<1> QED
  BY <1>2, <1>6, <1>7, <1>8, <1>9, <1>10 DEF Alone

LEMMA ServeDeadWaitInv ==
  ASSUME SessInv, NEW c \in Clients, ServeDeadWait(c), ChannelTypeOK', Orderly(members_')
  PROVE  SessInv'
<1> DEFINE e == client[c]
<1>1. PICK i \in Ids, f \in ClientType :
           /\ <<i, "asked">> \in e.dead \/ <<i, "held">> \in e.dead
           /\ UNCHANGED <<used, s_member_id_>> /\ DOMAIN client' = Clients /\ client'[c] = f
           /\ \A d \in Clients \ {c} : client'[d] = client[d]
           /\ f = [e EXCEPT !.dead = f.dead]
           /\ \/ /\ Polled(Gets(c, i), i)
                 /\ <<i, "held">> \in f.dead
                 /\ \A j, x : <<j, x>> \in f.dead => \E y : <<j, y>> \in e.dead
                 /\ \A j : <<j, "held">> \in e.dead => <<j, "held">> \in f.dead
              \/ /\ CloseSocket(Gets(c, i))
                 /\ f.dead \subseteq e.dead
                 /\ \A j : <<j, "held">> \in e.dead => j = i \/ <<j, "held">> \in f.dead
  BY ServeDeadWaitIs
<1>2. Apt(e) /\ Alone(e)
  BY DEF SessInv, ClientsOK, IdsOK, Apt
<1>3. /\ Alone(f) /\ (Uncut(e) => Uncut(f)) /\ Holds(f) \subseteq Holds(e) /\ Fresh(f)
      /\ f.st = e.st /\ f.id = e.id /\ f.left = e.left /\ f.peers = e.peers /\ f.peer = e.peer
      /\ f.wait = e.wait /\ f.note = e.note /\ f.reply = e.reply
  <2>1. \A j, x : <<j, x>> \in f.dead => \E y : <<j, y>> \in e.dead
    BY <1>1
  <2>2. f \in ClientType /\ f = [e EXCEPT !.dead = f.dead]
    BY <1>1
  <2> HIDE DEF e
  <2> QED
    BY <1>2, <2>1, <2>2, FewerDead
<1>4. i \in Holds(e) /\ (e.wait = "held" => e.id # i)
  <2>1. i \in Holds(e)
    BY <1>1, <1>2, HoldsIs
  <2>2. e.wait = "held" => e.id # i
    <3>1. PICK x : <<i, x>> \in e.dead
      BY <1>1
    <3> QED
      BY <1>2, <3>1 DEF Alone, Waits
  <2> QED
    BY <2>1, <2>2
<1>5. \A d \in Clients : d # c => i \notin Holds(client[d])
  BY <1>4, Owners
<1>6. /\ DOMAIN members_' = DOMAIN members_
      /\ \A j \in DOMAIN members_ : /\ members_'[j].partner = members_[j].partner
                                    /\ j # i => members_'[j].queue = members_[j].queue
  <2>1. CASE Polled(Gets(c, i), i)
    BY <2>1 DEF Polled
  <2>2. CASE CloseSocket(Gets(c, i))
    BY <2>2, CloseIs, ServingNow
  <2> QED
    BY <1>1, <2>1, <2>2
<1>7. \A j \in DOMAIN members_ :
        j # i /\ members_[j].waiting # Gets(c, i) => members_'[j].waiting = members_[j].waiting
  <2>1. CASE Polled(Gets(c, i), i)
    BY <2>1 DEF Polled
  <2>2. CASE CloseSocket(Gets(c, i))
    BY <2>2, CloseIs, ServingNow
  <2> QED
    BY <1>1, <2>1, <2>2
<1> HIDE DEF e
<1>8. \A d \in Clients :
        LET g == client[d]
            h == client'[d]
        IN  /\ Alone(h) /\ (Uncut(g) => Uncut(h)) /\ Holds(h) \subseteq Holds(g) /\ Fresh(h)
            /\ h.st = g.st /\ h.id = g.id /\ h.left = g.left /\ h.peers = g.peers
            /\ h.peer = g.peer /\ h.wait = g.wait /\ h.note = g.note /\ h.reply = g.reply
  <2> SUFFICES ASSUME NEW d \in Clients
               PROVE  LET g == client[d]
                          h == client'[d]
                      IN  /\ Alone(h) /\ (Uncut(g) => Uncut(h)) /\ Holds(h) \subseteq Holds(g)
                          /\ Fresh(h)
                          /\ h.st = g.st /\ h.id = g.id /\ h.left = g.left /\ h.peers = g.peers
                          /\ h.peer = g.peer /\ h.wait = g.wait /\ h.note = g.note
                          /\ h.reply = g.reply
    OBVIOUS
  <2>1. CASE d = c
    BY <1>1, <1>3, <2>1 DEF e
  <2>2. CASE d # c
    <3>1. client'[d] = client[d] /\ Alone(client[d]) /\ Fresh(client[d])
      BY <1>1, <2>2 DEF SessInv, ClientsOK, IdsOK
    <3> QED
      BY <3>1
  <2> QED
    BY <2>1, <2>2
<1>9. ServerOK' /\ ClientsOK' /\ IdsOK'
  <2>1. PartnersOK'
    BY <1>6 DEF SessInv, ServerOK, PartnersOK
  <2>2. QueuesOK'
    <3>1. CASE Polled(Gets(c, i), i)
      BY <3>1, PolledServer
    <3>2. CASE CloseSocket(Gets(c, i))
      <4>1. \A j \in DOMAIN members_ : members_'[j].queue = members_[j].queue
        BY <3>2, CloseIs, ServingNow
      <4> QED
        BY <1>6, <4>1 DEF SessInv, ServerOK, QueuesOK
    <3> QED
      BY <1>1, <3>1, <3>2
  <2>3. ServerOK'
    BY <1>1, <2>1, <2>2 DEF SessInv, ServerOK
  <2>4. ClientsOK'
    BY <1>1, <1>8 DEF SessInv, ClientsOK, NoDrop
  <2>5. IdsOK'
    <3>1. s_member_id_' = s_member_id_
      BY <1>1
    <3> QED
      BY <1>8, <3>1 DEF SessInv, IdsOK
  <2> QED
    BY <2>3, <2>4, <2>5
<1>10. WaitersOK'
  <2> SUFFICES ASSUME NEW j \in DOMAIN members_, members_'[j].waiting # NoSocket
               PROVE  \E d \in Clients :
                        /\ members_'[j].waiting = Gets(d, j)
                        /\ Held(client'[d], j) \/ <<j, "held">> \in client'[d].dead
    BY <1>6 DEF WaitersOK
  <2>1. \/ j = i /\ members_'[j].waiting = Gets(c, i) /\ <<i, "held">> \in f.dead
        \/ /\ members_'[j].waiting = members_[j].waiting
           /\ <<j, "held">> \in e.dead /\ members_[j].waiting = Gets(c, j) => <<j, "held">> \in f.dead
    <3>1. CASE Polled(Gets(c, i), i) /\ <<i, "held">> \in f.dead
                 /\ \A k : <<k, "held">> \in e.dead => <<k, "held">> \in f.dead
      BY <3>1 DEF Polled, Known
    <3>2. CASE CloseSocket(Gets(c, i))
                 /\ \A k : <<k, "held">> \in e.dead => k = i \/ <<k, "held">> \in f.dead
      <4>1. members_[j].waiting # Gets(c, i) /\ members_'[j].waiting = members_[j].waiting
        BY <3>2, CloseIs, ServingNow
      <4> QED
        BY <3>2, <4>1
    <3> QED
      BY <1>1, <3>1, <3>2
  <2>2. CASE j = i /\ members_'[j].waiting = Gets(c, i) /\ <<i, "held">> \in f.dead
    BY <1>1, <2>2
  <2>3. CASE /\ members_'[j].waiting = members_[j].waiting
             /\ <<j, "held">> \in e.dead /\ members_[j].waiting = Gets(c, j)
                  => <<j, "held">> \in f.dead
    <3>1. PICK d \in Clients : /\ members_[j].waiting = Gets(d, j)
                               /\ Held(client[d], j) \/ <<j, "held">> \in client[d].dead
      BY <2>3, Waiter
    <3>2. Held(client[d], j) => Held(client'[d], j)
      BY <1>8 DEF Held
    <3>3. <<j, "held">> \in client[d].dead => <<j, "held">> \in client'[d].dead
      BY <1>1, <2>3, <3>1 DEF e
    <3> QED
      BY <2>3, <3>1, <3>2, <3>3
  <2> QED
    BY <2>1, <2>2, <2>3
<1>11. GetsOK'
  <2> SUFFICES ASSUME NoDrop', NEW d \in Clients, ~client'[d].left,
                      Held(client'[d], client'[d].id)
               PROVE  LET j == client'[d].id IN
                      j \in DOMAIN members_' /\ members_'[j].waiting = Gets(d, j)
    BY DEF GetsOK, Known
  <2> DEFINE j == client[d].id
  <2>1. client'[d].id = j /\ ~client[d].left /\ Held(client[d], j) /\ NoDrop
    BY <1>1, <1>8 DEF Held, NoDrop
  <2>2. j \in DOMAIN members_ /\ members_[j].waiting = Gets(d, j)
    BY <2>1 DEF SessInv, GetsOK, Known
  <2>3. j # i
    <3>1. CASE d = c
      BY <1>4, <2>1, <3>1 DEF Held, e
    <3>2. CASE d # c
      <4>1. Alone(client[d]) /\ client[d].wait # "none"
        BY <2>1 DEF SessInv, ClientsOK, Held
      <4> QED
        BY <1>5, <3>2, <4>1, HoldsIs
    <3> QED
      BY <3>1, <3>2
  <2>4. members_[j].waiting # Gets(c, i)
    BY <2>2, <2>3, Differ
  <2> HIDE DEF j
  <2> QED
    BY <1>6, <1>7, <2>1, <2>2, <2>3, <2>4
<1>12. MailsOK'
  <2> SUFFICES ASSUME NoDrop', NEW d \in Clients, Hears(client'[d]),
                      Self(client'[d]) \in DOMAIN members_'
               PROVE  LET h == client'[d]
                          j == Self(h)
                      IN  /\ MailOK(j, Knows(h), MailOf(h, members_', j), DOMAIN members_')
                          /\ h.peer # 0 => h.peer \in h.peers
    BY DEF MailsOK, Known
  <2> DEFINE g == client[d]
             h == client'[d]
  <2>1. /\ h.st = g.st /\ h.id = g.id /\ h.left = g.left /\ h.peers = g.peers
        /\ h.peer = g.peer /\ h.note = g.note /\ h.reply = g.reply
    BY <1>8
  <2>2. Hears(h) /\ Self(h) \in DOMAIN members_ /\ NoDrop
    BY <1>1, <1>6 DEF NoDrop
  <2> HIDE DEF g, h
  <2>3. Hears(g) /\ Self(h) = Self(g) /\ Knows(h) = Knows(g)
    BY <2>1, <2>2 DEF Hears, Self, Knows
  <2>4. /\ MailOK(Self(g), Knows(g), MailOf(g, members_, Self(g)), DOMAIN members_)
        /\ g.peer # 0 => g.peer \in g.peers
    BY <2>2, <2>3 DEF SessInv, MailsOK, Known, g
  <2>5. Self(g) # i
    <3>1. Self(g) \in Holds(g) /\ \A x : <<Self(g), x>> \notin g.dead
      BY <2>2, <2>3, HearsIs DEF g
    <3>2. CASE d = c
      BY <1>1, <3>1, <3>2 DEF e, g
    <3>3. CASE d # c
      BY <1>5, <3>1, <3>3 DEF g
    <3> QED
      BY <3>2, <3>3
  <2>6. MailOf(h, members_', Self(h)) = MailOf(g, members_, Self(g))
    BY <1>6, <2>1, <2>2, <2>3, <2>5 DEF MailOf
  <2> QED
    BY <1>6, <2>1, <2>3, <2>4, <2>6 DEF h
<1> QED
  BY <1>9, <1>10, <1>11, <1>12 DEF SessInv

-----------------------------------------------------------------------------
(***************************************************************************)
(* The clients' own steps.                                                 *)
(***************************************************************************)

\* The mail of a client that takes a step of its own.
LEMMA OwnMail ==
  ASSUME SessInv, NoDrop, NEW c \in Clients, NEW f, Fine(client[c], f), Turns(client[c], f),
         Hears(f), NEW i, i = Self(f), i \in DOMAIN members_
  PROVE  /\ MailOK(i, Knows(f), MailOf(f, members_, i), DOMAIN members_)
         /\ f.peer # 0 => f.peer \in f.peers
<1> DEFINE e == client[c]
           ms == DOMAIN members_
<1>1. Alone(e) /\ e \in ClientType /\ Alone(f)
  BY DEF SessInv, ClientsOK, Alone, Fine
<1>2. Hears(e) /\ Self(e) = i =>
        /\ MailOK(i, Knows(e), MailOf(e, members_, i), ms)
        /\ e.peer # 0 => e.peer \in e.peers
  BY DEF SessInv, MailsOK, Known
<1>3. f.id = 0 => /\ f.reply # <<>> /\ e.id = 0 /\ f.reply = e.reply
                  /\ f.note = <<>> /\ e.note = <<>> /\ f.peer = 0
  <2> SUFFICES ASSUME f.id = 0
               PROVE  /\ f.reply # <<>> /\ e.id = 0 /\ f.reply = e.reply
                      /\ f.note = <<>> /\ e.note = <<>> /\ f.peer = 0
    OBVIOUS
  <2>1. f.reply # <<>>
    BY <1>1 DEF Hears, Alone, Unsigned
  <2>2. e.id = 0 /\ f.reply = e.reply
    BY <2>1 DEF Fine, Moves
  <2> QED
    BY <1>1, <2>1, <2>2 DEF Alone, Unsigned, Waits
<1>4. f.id # 0 => f.st = "on" /\ ~f.left /\ i = f.id /\ Knows(f) = f.peers
  BY DEF Hears, Self, Knows
<1> HIDE DEF e, ms
<1>5. CASE f.id = 0
  <2>1. Hears(e) /\ Self(e) = i /\ Knows(e) = Knows(f)
    BY <1>3, <1>5 DEF Hears, Self, Knows
  <2>2. MailOf(f, members_, i) = MailOf(e, members_, i)
    BY <1>3, <1>5 DEF MailOf
  <2> QED
    BY <1>2, <1>3, <1>5, <2>1, <2>2 DEF ms
<1>6. CASE f.id # 0 /\ Good(e, f)
  <2>1. /\ e.st = "on" /\ ~e.left
        /\ f.id = e.id /\ f.peers = e.peers /\ f.note = e.note
        /\ f.peer \in {0, e.peer} \cup e.peers
    BY <1>4, <1>6 DEF Good, Steady
  <2>2. Hears(e) /\ Self(e) = i /\ Knows(e) = Knows(f)
    BY <1>4, <1>6, <2>1 DEF Hears, Self, Knows
  <2>3. MailOf(f, members_, i) = MailOf(e, members_, i)
    BY <2>1 DEF MailOf
  <2> QED
    BY <1>2, <2>1, <2>2, <2>3 DEF ms
<1>7. CASE f.id # 0 /\ e.note # <<>> /\ e.st = "on" /\ Reads(e, f)
  <2> DEFINE r == e.note[1]
             q == members_[i].queue
  <2>1. /\ f.left = e.left /\ f.id = e.id /\ f.note = <<>> /\ f.peers = Then(e, r)
        /\ \/ f.peer = e.peer /\ ~Left(e.id, r, f.peer)
           \/ f.peer = r.from /\ r.from # e.id /\ r.body.kind # "hangup_confirm"
    BY <1>7 DEF Reads
  <2>2. Hears(e) /\ Self(e) = i /\ Knows(e) = e.peers /\ e.id = i
    BY <1>4, <1>7, <2>1 DEF Hears, Self, Knows
  <2>3. /\ r \in Responses /\ e.note = <<r>> /\ Notice(e.id, r) /\ e.peers \in SUBSET Ids
        /\ e.peer \in {0} \cup Ids
    <3>1. e.note \in AtMostOne(Responses)
      BY <1>1 DEF ClientType
    <3>2. r \in Responses /\ e.note = <<r>>
      BY <1>7, <3>1, One
    <3>3. Notice(e.id, r)
      BY <1>1, <1>7 DEF Alone, Waits
    <3>4. e.peers \in SUBSET Ids /\ e.peer \in {0} \cup Ids
      BY <1>1 DEF ClientType
    <3> QED
      BY <3>2, <3>3, <3>4
  <2>4. q \in Seq(Responses)
    BY DEF SessInv, ServerOK, ChannelTypeOK, MemberType
  <2> HIDE DEF r, q
  <2>5. /\ MailOK(i, e.peers, <<r>> \o q, ms)
        /\ e.peer # 0 => e.peer \in e.peers
    BY <1>2, <2>2, <2>3 DEF MailOf, q
  <2>6. PICK peers \in SUBSET Ids : peers = e.peers
    BY <2>3
  <2>7. Then(e, r) = Told(i, peers, r)
    BY <2>2, <2>3, <2>6, ThenTold
  <2>8. /\ MailOK(i, Told(i, peers, r), q, ms)
        /\ r.from # i /\ r.body.kind # "hangup_confirm" => r.from \in peers
    <3>1. PICK m2 : m2 = ms
      OBVIOUS
    <3>2. PICK q2 \in Seq(Responses) : q2 = q
      BY <2>4
    <3>3. PICK r2 \in Responses : r2 = r
      BY <2>3
    <3>4. MailOK(i, peers, <<r2>> \o q2, m2)
      BY <2>5, <2>6, <3>1, <3>2, <3>3
    <3>5. /\ MailOK(i, Told(i, peers, r2), q2, m2)
          /\ r2.from # i /\ r2.body.kind # "hangup_confirm" => r2.from \in peers
      BY <3>4, MailShrinks
    <3> QED
      BY <3>1, <3>2, <3>3, <3>5
  <2>9. MailOf(f, members_, i) = q
    <3>1. MailOf(f, members_, i) = <<>> \o q
      BY <2>1 DEF MailOf, q
    <3>2. <<>> \o q = q
      BY <2>4
    <3> QED
      BY <3>1, <3>2
  <2>10. f.peer # 0 => f.peer \in f.peers
    <3>1. CASE f.peer = e.peer /\ ~Left(e.id, r, f.peer)
      BY <2>1, <2>5, <3>1 DEF Then, Left, ReadsOf
    <3>2. CASE f.peer = r.from /\ r.from # e.id /\ r.body.kind # "hangup_confirm"
      BY <2>1, <2>2, <2>6, <2>8, <3>2 DEF Then
    <3> QED
      BY <2>1, <3>1, <3>2
  <2> QED
    BY <1>4, <1>7, <2>1, <2>7, <2>8, <2>9, <2>10 DEF ms
<1>8. CASE f.id # 0 /\ e.id = 0 /\ e.reply # <<>> /\ e.note = <<>> /\ SignsIn(e, f)
  <2>1. /\ f.id = e.reply[1].from /\ f.note = <<>> /\ f.peer = 0
        /\ f.peers = e.reply[1].body.ids \ {e.reply[1].from}
    BY <1>8 DEF SignsIn
  <2>2. Hears(e) /\ Self(e) = i /\ Knows(e) = Knows(f)
    BY <1>4, <1>8, <2>1 DEF Hears, Self, Knows
  <2>3. MailOf(f, members_, i) = MailOf(e, members_, i)
    BY <1>8, <2>1 DEF MailOf
  <2> QED
    BY <1>2, <2>1, <2>2, <2>3 DEF ms
<1> QED
  BY <1>4, <1>5, <1>6, <1>7, <1>8 DEF Turns, e

LEMMA OwnStepInv ==
  ASSUME SessInv, NEW c \in Clients, OwnStep(c)
  PROVE  SessInv'
<1> DEFINE e == client[c]
<1>1. Apt(e)
  BY DEF SessInv, ClientsOK, IdsOK, Apt
<1>2. /\ UNCHANGED channel /\ used' \in [Uses -> Nat] /\ (NoDrop' => NoDrop)
      /\ \E f : Becomes(c, f) /\ Fine(e, f) /\ (NoDrop' => Turns(e, f))
  BY <1>1, OwnStepIs DEF SessInv, ServerOK
<1>3. PICK f : Becomes(c, f) /\ Fine(e, f) /\ (NoDrop' => Turns(e, f))
  BY <1>2
<1>4. /\ DOMAIN client' = Clients /\ client'[c] = f
      /\ \A d \in Clients \ {c} : client'[d] = client[d]
  BY <1>3, ServingNow DEF Becomes
<1>5. members_' = members_ /\ s_member_id_' = s_member_id_
  BY <1>2 DEF channel
<1> HIDE DEF e
<1>6. /\ Alone(f) /\ Holds(f) \subseteq Holds(e) /\ Fresh(f)
      /\ \A i : (Held(e, i) \/ <<i, "held">> \in e.dead) => Held(f, i) \/ <<i, "held">> \in f.dead
      /\ ~f.left /\ f.wait = "held" /\ f.note = <<>> =>
           f.id = e.id /\ ~e.left /\ e.wait = "held" /\ e.note = <<>>
  BY <1>3 DEF Fine, Moves
<1>7. ServerOK'
  BY <1>2, <1>4, <1>5
     DEF SessInv, ServerOK, ChannelTypeOK, Orderly, Shaped, Empty, Apart, PartnersOK, QueuesOK
<1>8. ClientsOK'
  <2>1. NoDrop' => Uncut(f)
    <3> SUFFICES ASSUME NoDrop' PROVE Uncut(f)
      OBVIOUS
    <3>1. Uncut(e) /\ Turns(e, f)
      BY <1>2, <1>3 DEF SessInv, ClientsOK, e
    <3> QED
      BY <3>1 DEF Turns, Good, Keeps
  <2> QED
    BY <1>2, <1>4, <1>6, <2>1 DEF SessInv, ClientsOK
<1>9. IdsOK'
  <2>1. \A d \in Clients : Holds(client'[d]) \subseteq Holds(client[d]) /\ Fresh(client'[d])
    BY <1>4, <1>6 DEF SessInv, IdsOK, e
  <2> QED
    BY <1>5, <2>1 DEF SessInv, IdsOK
<1>10. WaitersOK'
  <2> SUFFICES ASSUME NEW j \in DOMAIN members_, members_[j].waiting # NoSocket
               PROVE  \E d \in Clients :
                        /\ members_[j].waiting = Gets(d, j)
                        /\ Held(client'[d], j) \/ <<j, "held">> \in client'[d].dead
    BY <1>5 DEF WaitersOK
  <2>1. PICK d \in Clients : /\ members_[j].waiting = Gets(d, j)
                             /\ Held(client[d], j) \/ <<j, "held">> \in client[d].dead
    BY Waiter
  <2>2. Held(client'[d], j) \/ <<j, "held">> \in client'[d].dead
    BY <1>4, <1>6, <2>1 DEF e
  <2> QED
    BY <2>1, <2>2
<1>11. GetsOK'
  <2> SUFFICES ASSUME NoDrop', NEW d \in Clients, ~client'[d].left,
                      Held(client'[d], client'[d].id)
               PROVE  LET j == client'[d].id IN
                      j \in DOMAIN members_ /\ members_[j].waiting = Gets(d, j)
    BY <1>5 DEF GetsOK, Known
  <2>1. client'[d].id = client[d].id /\ ~client[d].left /\ Held(client[d], client[d].id)
    BY <1>4, <1>6 DEF Held, e
  <2> QED
    BY <1>2, <2>1 DEF SessInv, GetsOK, Known
<1>12. MailsOK'
  <2> SUFFICES ASSUME NoDrop', NEW d \in Clients, Hears(client'[d]),
                      Self(client'[d]) \in DOMAIN members_
               PROVE  LET h == client'[d]
                          j == Self(h)
                      IN  /\ MailOK(j, Knows(h), MailOf(h, members_, j), DOMAIN members_)
                          /\ h.peer # 0 => h.peer \in h.peers
    BY <1>5 DEF MailsOK, Known
  <2>1. CASE d = c
    <3>1. Hears(f) /\ Self(f) \in DOMAIN members_ /\ Turns(e, f) /\ Fine(e, f) /\ NoDrop
      BY <1>2, <1>3, <1>4, <2>1
    <3>2. /\ MailOK(Self(f), Knows(f), MailOf(f, members_, Self(f)), DOMAIN members_)
          /\ f.peer # 0 => f.peer \in f.peers
      BY <3>1, OwnMail DEF e
    <3> QED
      BY <1>4, <2>1, <3>2
  <2>2. CASE d # c
    BY <1>2, <1>4, <2>2 DEF SessInv, MailsOK, Known
  <2> QED
    BY <2>1, <2>2
<1> QED
  BY <1>7, <1>8, <1>9, <1>10, <1>11, <1>12 DEF SessInv

-----------------------------------------------------------------------------
(***************************************************************************)
(* The invariant of the session, and what follows from it.                 *)
(***************************************************************************)
LEMMA SessInvInit ==
  ASSUME SessionInit
  PROVE  SessInv
<1>1. /\ members_ = <<>> /\ s_member_id_ = 0 /\ used = [u \in Uses |-> 0]
      /\ client = [c \in Clients |-> NewClient]
  BY DEF SessionInit, Init
<1>2. DOMAIN members_ = {}
  BY <1>1
<1>3. Orderly(members_)
  BY InitOrderly DEF SessionInit
<1>4. ServerOK
  BY <1>1, <1>2, <1>3, ChannelAssumption DEF ServerOK, ChannelTypeOK, PartnersOK, QueuesOK
<1>5. /\ NewClient.st = "off" /\ NewClient.id = 0 /\ NewClient.peers = {}
      /\ NewClient.ctl = <<>> /\ NewClient.reply = <<>> /\ NewClient.wait = "none"
      /\ NewClient.note = <<>> /\ NewClient.stray = {} /\ NewClient.dead = {}
      /\ NewClient.peer = 0 /\ ~NewClient.pc /\ NewClient.jobs = <<>> /\ ~NewClient.gather
      /\ NewClient.pending = <<>> /\ ~NewClient.again /\ NewClient.left
  BY DEF NewClient
<1>6. NewClient \in ClientType
  <2>1. \A S : <<>> \in AtMostOne(S) /\ <<>> \in Seq(S)
    BY DEF AtMostOne
  <2> QED
    BY <2>1 DEF NewClient, ClientType
<1>7. Asked(NewClient) = {} /\ Given(NewClient) = {} /\ Holds(NewClient) = {}
  <2>1. Asked(NewClient) = {} /\ Given(NewClient) = {}
    BY <1>5 DEF Asked, Given
  <2> QED
    BY <1>5, <2>1 DEF Holds
<1>8. Alone(NewClient) /\ Uncut(NewClient) /\ Fresh(NewClient)
  <2>1. Asks(NewClient) /\ Fresh(NewClient)
    BY <1>7 DEF Asks, Fresh
  <2>2. Unsigned(NewClient) /\ Controls(NewClient) /\ States(NewClient) /\ Waits(NewClient)
    BY <1>5 DEF Unsigned, Controls, States, Waits
  <2>3. Uncut(NewClient)
    BY <1>5 DEF Uncut
  <2> QED
    BY <1>6, <2>1, <2>2, <2>3 DEF Alone
<1>9. \A c \in Clients : client[c] = NewClient
  BY <1>1
<1> QED
  BY <1>2, <1>4, <1>5, <1>7, <1>8, <1>9
     DEF SessInv, ClientsOK, IdsOK, WaitersOK, GetsOK, MailsOK, Known, Held

LEMMA SessInvNext == SessInv /\ [SessionNext]_session => SessInv' /\ [Next]_channel
<1> SUFFICES ASSUME SessInv, [SessionNext]_session PROVE SessInv' /\ [Next]_channel
  OBVIOUS
<1>1. [Next]_channel
  BY SessionNextIsNext DEF SessInv, ServerOK
<1>2. ChannelTypeOK'
  BY <1>1, NextTyped DEF SessInv, ServerOK
<1>3. Orderly(members_')
  BY OrderlyNext DEF SessInv, ServerOK
<1>4. ASSUME NEW c \in Clients, ServeControl(c) \/ ServeClosed(c)
      PROVE  SessInv'
  BY <1>2, <1>3, <1>4, ServeControlServes, ServeClosedServes, ServedInv
<1>5. ASSUME NEW c \in Clients, ServeWait(c)
      PROVE  SessInv'
  BY <1>2, <1>3, <1>5, ServeWaitInv
<1>6. ASSUME NEW c \in Clients, ServeDeadWait(c)
      PROVE  SessInv'
  BY <1>2, <1>3, <1>6, ServeDeadWaitInv
<1>7. ASSUME NEW id \in Ids, Expire(id)
      PROVE  SessInv'
  BY <1>2, <1>3, <1>7, ExpireServes, ServedInv
<1>8. ASSUME NEW c \in Clients, OwnStep(c)
      PROVE  SessInv'
  BY <1>8, OwnStepInv
<1>9. CASE UNCHANGED session
  <2>1. /\ members_' = members_ /\ s_member_id_' = s_member_id_ /\ client' = client
        /\ used' = used
    BY <1>9 DEF session, channel
  <2>2. ServerOK' /\ ClientsOK' /\ IdsOK'
    BY <1>2, <1>3, <2>1
       DEF SessInv, ServerOK, ClientsOK, IdsOK, NoDrop, PartnersOK, QueuesOK
  <2>3. WaitersOK' /\ GetsOK'
    BY <2>1 DEF SessInv, WaitersOK, GetsOK, Known, NoDrop
  <2>4. MailsOK'
    BY <2>1 DEF SessInv, MailsOK, Known, NoDrop
  <2> QED
    BY <1>1, <2>2, <2>3, <2>4 DEF SessInv
<1>10. SessInv'
  BY <1>4, <1>5, <1>6, <1>7, <1>8, <1>9
     DEF SessionNext, SystemStep, ServerStep, OwnStep
<1> QED
  BY <1>1, <1>10

LEMMA SessInvAlways == SessionSpec => []SessInv
<1>1. SessionInit => SessInv
  BY SessInvInit
<1>2. SessInv /\ [SessionNext]_session => SessInv'
  BY SessInvNext
<1> QED
  BY <1>1, <1>2, PTL DEF SessionSpec

\* A server whose clients are those of HttpSession does what PeerChannel says.
THEOREM SessionIsChannel == SessionSpec => Spec
<1>1. SessionInit => Init
  BY DEF SessionInit
<1>2. SessInv /\ [SessionNext]_session => [Next]_channel
  BY SessInvNext
<1> QED
  BY <1>1, <1>2, SessInvAlways, PTL DEF SessionSpec, Spec

LEMMA KnowsPeers == SessInv => PeersKnown
<1> SUFFICES ASSUME SessInv, NoDrop, NEW c \in Clients,
                    client[c].st = "on", Known(client[c].id), ~client[c].left
             PROVE  LET e    == client[c]
                        mail == Mailbox(e)
                    IN  PeersThen(e.id, e.peers, mail, Len(mail)) \ {e.id}
                          = DOMAIN members_ \ {e.id}
  BY DEF PeersKnown, NoDrop
<1> DEFINE e == client[c]
<1>1. e.id # 0
  BY DEF SessInv, ClientsOK, Alone, Unsigned
<1>2. Hears(e) /\ Self(e) = e.id /\ Knows(e) = e.peers
  BY <1>1 DEF Hears, Self, Knows
<1>3. MailOK(e.id, e.peers, MailOf(e, members_, e.id), DOMAIN members_)
  BY <1>2 DEF SessInv, MailsOK
<1> QED
  BY <1>3 DEF MailOK, MailOf, Mailbox

\* A client that is not signed out has a hanging get, which the server holds
\* once everything has been handled.
LEMMA SettledOn ==
  ASSUME SessInv, NoDrop, Settled, NEW c \in Clients, client[c].st = "on", ~client[c].left
  PROVE  LET i == client[c].id IN Known(i) /\ members_[i].waiting # NoSocket
<1> DEFINE e == client[c]
<1>1. e \in ClientType /\ Uncut(e)
  BY DEF SessInv, ClientsOK, Alone
<1>2. e.wait \in {"none", "asked", "held"} /\ e.wait # "none" /\ e.wait # "asked" /\ e.note = <<>>
  BY <1>1 DEF Uncut, Settled, ClientType
<1>3. Held(e, e.id)
  BY <1>2 DEF Held
<1>4. Known(e.id) /\ members_[e.id].waiting = Gets(c, e.id)
  BY <1>3 DEF SessInv, GetsOK
<1> QED
  BY <1>4, Differ

LEMMA StrandsNone == SessInv => NoneStranded
<1> SUFFICES ASSUME SessInv, Settled, NoDrop, NEW c \in Clients, ~client[c].left
             PROVE  LET e == client[c] IN
                    \/ e.st = "on" /\ Known(e.id)
                    \/ e.st = "signing_in" /\ e.ctl # <<>> /\ s_member_id_ = MaxId
  BY DEF NoneStranded, NoDrop
<1> DEFINE e == client[c]
<1>1. e \in ClientType /\ States(e) /\ Uncut(e)
  BY DEF SessInv, ClientsOK, Alone
<1>2. e.st \in {"off", "signing_in", "on", "out", "out_waiting"}
  BY <1>1 DEF ClientType
<1>3. e.st \notin {"out", "out_waiting"}
  BY <1>1 DEF States
<1>4. e.st # "off"
  BY <1>1 DEF States, Settled
<1>5. CASE e.st = "signing_in"
  <2>1. e.ctl # <<>>
    BY <1>1, <1>5 DEF Uncut
  <2>2. s_member_id_ = MaxId
    BY <2>1 DEF Settled, Stuck
  <2> QED
    BY <1>5, <2>1, <2>2
<1>6. CASE e.st = "on"
  BY <1>6, SettledOn
<1> QED
  BY <1>2, <1>3, <1>4, <1>5, <1>6

LEMMA LeavesNothing == SessInv => NothingLeftBehind
<1> SUFFICES ASSUME SessInv, Quiet PROVE
               /\ \A i \in DOMAIN members_ : \E c \in Clients : client[c].id = i
               /\ NoDrop =>
                    \A c \in Clients : client[c].peer # 0 /\ ~client[c].left =>
                                         \E d \in Clients : client[d].id = client[c].peer
  BY DEF NothingLeftBehind, NoDrop
<1>1. ASSUME NEW i \in DOMAIN members_
      PROVE  \E c \in Clients : client[c].id = i
  <2>1. CASE members_[i].waiting = NoSocket
    BY <1>1, <2>1 DEF Quiet, Expiring, TimedOut
  <2>2. CASE members_[i].waiting # NoSocket
    <3>1. PICK c \in Clients : Held(client[c], i) \/ <<i, "held">> \in client[c].dead
      BY <1>1, <2>2, Waiter
    <3>2. client[c].dead = {}
      BY DEF Quiet, Settled
    <3> QED
      BY <3>1, <3>2 DEF Held
  <2> QED
    BY <2>1, <2>2
<1>2. ASSUME NoDrop, NEW c \in Clients, client[c].peer # 0, ~client[c].left
      PROVE  \E d \in Clients : client[d].id = client[c].peer
  <2> DEFINE e == client[c]
             i == e.id
             q == members_[i].queue
  <2>1. e \in ClientType /\ Unsigned(e) /\ States(e)
    BY <1>2 DEF SessInv, ClientsOK, Alone
  <2>2. i # 0 /\ e.peer \in {0} \cup Ids
    BY <1>2, <2>1 DEF Unsigned, ClientType
  <2>3. e.st = "on"
    BY <1>2, <2>1, <2>2 DEF Unsigned, States, ClientType
  <2>4. Known(i) /\ members_[i].waiting # NoSocket
    BY <1>2, <2>3, SettledOn DEF Quiet
  <2>5. q = <<>> /\ e.note = <<>>
    BY <1>2, <2>4 DEF SessInv, ServerOK, Orderly, Empty, Known, Quiet, Settled
  <2>6. Hears(e) /\ Self(e) = i /\ Knows(e) = e.peers
    BY <1>2, <2>2, <2>3 DEF Hears, Self, Knows
  <2>7. /\ MailOK(i, e.peers, MailOf(e, members_, i), DOMAIN members_)
        /\ e.peer \in e.peers
    BY <1>2, <2>4, <2>6 DEF SessInv, MailsOK
  <2>8. MailOf(e, members_, i) = <<>>
    BY <2>5 DEF MailOf
  <2>9. PeersThen(i, e.peers, <<>>, 0) \ {i} = DOMAIN members_ \ {i}
    <3>1. Len(<<>>) = 0
      OBVIOUS
    <3> HIDE DEF e, i, q
    <3> QED
      BY <2>7, <2>8, <3>1 DEF MailOK
  <2>10. e.peer \in PeersThen(i, e.peers, <<>>, 0)
    BY <1>2, <2>2, <2>7 DEF PeersThen
  <2> QED
    BY <1>1, <1>2, <2>9, <2>10
<1> QED
  BY <1>1, <1>2

\* A client that is signed in knows every other member, and no one else, once it
\* has read what is on its way to it: what the server queues for a member while
\* its hanging get is away, and the reply to the sign-in, miss no one.
THEOREM SessionKnows == SessionSpec => []PeersKnown
BY SessInvAlways, KnowsPeers, PTL

\* When everything has been handled every client is signed in, or has left: the
\* reconnection after a call (OnPeerDisconnected) always comes to its end.
THEOREM SessionStrandsNone == SessionSpec => []NoneStranded
BY SessInvAlways, StrandsNone, PTL

\* When all has come to rest every member is some client's (CheckForTimeout has
\* removed the others), and no client is in a call with one that is gone.
THEOREM SessionLeavesNothing == SessionSpec => []NothingLeftBehind
BY SessInvAlways, LeavesNothing, PTL


-----------------------------------------------------------------------------
(***************************************************************************)
(* Calls: why the first message of one to reach a client is its offer.     *)
(* Without hang-ups a client is in one call at most for as long as it has  *)
(* its id, so all its messages go to one peer, the offer first.            *)
(***************************************************************************)
NoCut == used["drop"] = 0 /\ used["hangup"] = 0

Ever == 1 .. s_member_id_

\* The ids under which e reads what is queued for a member, now or when it has
\* read the answer to its sign-in.
Mine(e) == ({e.id} \cup Given(e)) \ {0}

\* The response r to i is a message of another member.
Word(i, r) == r.from # i /\ r.status = 200

Worded(e, i) == e.note # <<>> /\ Word(i, e.note[1])

\* e is in a call, is put into one by what it reads next, or is in none again
\* under this id.
Busy(e, i) == e.pc \/ e.left \/ Worded(e, i)

\* The first message of another member in the queue q of i is an offer.
Opens(i, q) ==
  \A k \in 1 .. Len(q) :
    Word(i, q[k]) /\ q[k].body.kind # "offer" => \E j \in 1 .. k - 1 : Word(i, q[j])

Calling(i, q) == \E k \in 1 .. Len(q) : Word(i, q[k])

\* The ids whose client has been sent an offer, or called, if it has not left.
Touched ==
  {p \in Ever : Known(p) =>
     \A c \in Clients : p \in Mine(client[c]) =>
       Busy(client[c], p) \/ Calling(p, members_[p].queue)}

\* The ids whose client is in a call, if it still has the id.
Spoke ==
  {p \in Ever : \A c \in Clients :
     p \notin Given(client[c]) /\ (client[c].id = p => client[c].pc)}

(***************************************************************************)
(* What holds of a client and of a member when T have been touched, S have *)
(* spoken, K are members and E have been one.                              *)
(***************************************************************************)
\* A response that i is sent.
Heard(i, r, S, E) ==
  /\ Word(i, r) => r.from \in S /\ r.body.kind # "hangup_confirm"
  /\ r.from = i /\ r.body.kind # "left" => First(r.body.ids) \in E

\* A request that the server still has to see.
Rightly(r, T, S, K, E) ==
  /\ r.op # "hangup"
  /\ r.op = "message" => /\ r.id \in S
                         /\ r.id \in K => r.to \in E /\ (r.body = "offer" \/ r.to \in T)

Seen(e, S, K, E) ==
  /\ e.id \in K /\ ~e.pc => e.peers \subseteq E
  /\ e.id \in K => e.peer \in {0} \cup E
  /\ \A i \in Given(e) : e.reply[1].body.ids \subseteq E
  /\ e.note # <<>> => Heard(e.id, e.note[1], S, E)

\* The offer of e has been handled, is handled next, or never will be.
Open(e, T, K) ==
  \/ e.peer \in {0} \cup T
  \/ e.id \notin K
  \/ e.st = "out"
  \/ e.ctl # <<>> /\ e.reply = <<>> /\ e.ctl[1].op = "message" /\ e.ctl[1].body = "offer"

Calls(e, T, K) ==
  /\ e.gather \/ e.jobs # <<>> => e.pc
  /\ ~e.gather => /\ e.pending = <<>> /\ e.st # "out_waiting"
                  /\ e.st = "on" => e.ctl = <<>>
  /\ e.gather \/ (e.jobs # <<>> /\ e.jobs[1] = "answer") => Open(e, T, K)

Control(e, K) ==
  e.ctl # <<>> =>
    /\ e.ctl[1].op \in {"sign_in", "sign_out", "message"}
    /\ e.ctl[1].op = "message" => e.ctl[1].to = e.peer /\ e.st \in {"on", "out_waiting"}
    /\ e.st = "out" => e.ctl[1].op = "sign_out"
    /\ e.reply # <<>> /\ e.ctl[1].op = "sign_out" => e.id \notin K

Gone(e, K) ==
  /\ e.left => e.st # "signing_in"
  /\ e.left /\ ~e.pc /\ e.st = "on" => e.id \notin K
  /\ e.note # <<>> /\ ~e.pc /\ Word(e.id, e.note[1]) => e.note[1].body.kind = "offer"

Sound(e, T, S, K, E) ==
  /\ \A r \in Asked(e) : Rightly(r, T, S, K, E)
  /\ Seen(e, S, K, E) /\ Control(e, K) /\ Gone(e, K)

Caller(e, T, S, K, E) == Sound(e, T, S, K, E) /\ Calls(e, T, K)

Box(i, m, T, S, E) ==
  /\ m.partner # 0 => i \in T
  /\ \A k \in 1 .. Len(m.queue) : Heard(i, m.queue[k], S, E)

Boxes == \A i \in DOMAIN members_ : Box(i, members_[i], Touched, Spoke, Ever)

Opening ==
  \A c \in Clients : \A i \in Mine(client[c]) \cap DOMAIN members_ :
    Busy(client[c], i) \/ Opens(i, members_[i].queue)

CallInv ==
  NoCut => /\ Boxes /\ Opening
           /\ \A c \in Clients : Caller(client[c], Touched, Spoke, DOMAIN members_, Ever)

-----------------------------------------------------------------------------
(***************************************************************************)
(* What a client sends.                                                    *)
(***************************************************************************)
Kept(e, f) ==
  /\ f.id = e.id /\ f.peers = e.peers /\ f.peer = e.peer /\ f.pc = e.pc /\ f.jobs = e.jobs
  /\ f.gather = e.gather /\ f.stray = e.stray /\ f.reply = e.reply /\ f.again = e.again

Rests(e, f) == f.st = e.st /\ f.ctl = e.ctl /\ f.left = e.left /\ f.note = e.note

\* The client signs out, at once or when it has been answered.
Leaves(e, f) ==
  /\ f.left /\ f.note = <<>>
  /\ \/ e.ctl # <<>> /\ f.st = "out_waiting" /\ f.ctl = e.ctl
     \/ /\ e.ctl = <<>> /\ f.st = "out" /\ f.ctl # <<>>
        /\ f.ctl[1] = Req("sign_out", e.id, 0, "")

Puts(e, f, b) ==
  /\ e.st = "on" /\ e.ctl = <<>> /\ f.st = "on" /\ f.left = e.left /\ f.note = e.note
  /\ f.ctl # <<>> /\ f.ctl[1] = Req("message", e.id, e.peer, b)

Sent(e, f, b) ==
  /\ Kept(e, f)
  /\ \/ (e.peer = 0 \/ e.st = "out") /\ Rests(e, f)
     \/ e.st = "out_waiting" /\ Leaves(e, f)
     \/ e.peer # 0 /\ Puts(e, f, b)

LEMMA SignOutIs ==
  ASSUME NEW e, Apt(e), e.id # 0
  PROVE  LET f == ClientSignOut(e) IN
         /\ f \in ClientType /\ Kept(e, f) /\ f.pending = e.pending
         /\ e.st = "out" => Rests(e, f)
         /\ e.st # "out" => Leaves(e, f)
<1>1. e \in ClientType /\ e.st # "off"
  BY DEF Apt, Alone, Unsigned
<1>2. ClientSignOut(e) \in ClientType
  BY SignOutFine DEF Fine, Alone
<1>3. CASE e.st = "out"
  BY <1>1, <1>2, <1>3 DEF ClientSignOut, Kept, Rests
<1>4. CASE e.st # "out"
  <2> DEFINE w == CloseWait(e)
             f == ClientSignOut(e)
  <2>1. /\ w.note = <<>>
        /\ w.st = e.st /\ w.id = e.id /\ w.peers = e.peers /\ w.ctl = e.ctl /\ w.reply = e.reply
        /\ w.stray = e.stray /\ w.peer = e.peer /\ w.pc = e.pc /\ w.jobs = e.jobs
        /\ w.gather = e.gather /\ w.pending = e.pending /\ w.again = e.again
    BY <1>1, CloseWaitFields
  <2>2. /\ f.left = TRUE
        /\ w.ctl # <<>> => f.st = "out_waiting" /\ f.ctl = w.ctl
        /\ w.ctl = <<>> => f.st = "out" /\ f.ctl = <<Req("sign_out", w.id, 0, "")>>
        /\ f.id = w.id /\ f.peers = w.peers /\ f.reply = w.reply /\ f.wait = w.wait
        /\ f.note = w.note /\ f.stray = w.stray /\ f.dead = w.dead /\ f.peer = w.peer
        /\ f.pc = w.pc /\ f.jobs = w.jobs /\ f.gather = w.gather /\ f.pending = w.pending
        /\ f.again = w.again
    BY <1>1, <1>4, SignOutFields
  <2> HIDE DEF w, f
  <2>3. Kept(e, f) /\ f.pending = e.pending
    BY <2>1, <2>2 DEF Kept
  <2>4. Leaves(e, f)
    <3>1. PICK q : q = Req("sign_out", e.id, 0, "")
      OBVIOUS
    <3>2. <<q>> # <<>> /\ <<q>>[1] = q
      OBVIOUS
    <3>3. w.ctl = <<>> => f.ctl = <<q>>
      BY <2>1, <2>2, <3>1
    <3> QED
      BY <2>1, <2>2, <3>1, <3>2, <3>3 DEF Leaves
  <2> QED
    BY <1>2, <1>4, <2>3, <2>4 DEF f
<1> QED
  BY <1>3, <1>4

LEMMA SendOrQuitIs ==
  ASSUME NEW e, NEW b \in Bodies, Apt(e), e.id # 0, e.st = "on" => e.ctl = <<>>
  PROVE  LET f == SendOrQuit(e, b) IN Sent(e, f, b) /\ f.pending = e.pending
<1>1. e \in ClientType /\ Alone(e) /\ e.st \in {"on", "out", "out_waiting"}
  BY DEF Apt, Alone, Unsigned, ClientType
<1>2. CASE e.peer = 0
  BY <1>2 DEF SendOrQuit, Sent, Kept, Rests
<1>3. CASE e.peer # 0 /\ e.st # "on"
  BY <1>1, <1>3, SignOutIs DEF SendOrQuit, DisconnectFromServer, Sent
<1>4. CASE e.peer # 0 /\ e.st = "on"
  <2> DEFINE d == CloseControl(e)
             q == Req("message", e.id, e.peer, b)
             f == [d EXCEPT !.ctl = <<q>>]
  <2>1. e.ctl = <<>> /\ e.reply = <<>>
    BY <1>1, <1>4 DEF Alone, Controls
  <2>2. {e.ctl[i] : i \in DOMAIN e.ctl} = {}
    BY <2>1
  <2>3. /\ d \in ClientType /\ d.ctl = <<>> /\ d.reply = <<>> /\ d.stray = e.stray
        /\ d.st = e.st /\ d.id = e.id /\ d.peers = e.peers /\ d.wait = e.wait /\ d.note = e.note
        /\ d.dead = e.dead /\ d.peer = e.peer /\ d.pc = e.pc /\ d.jobs = e.jobs
        /\ d.gather = e.gather /\ d.pending = e.pending /\ d.again = e.again /\ d.left = e.left
    BY <1>1, <2>1, <2>2, CloseControlFields, CloseControlType
  <2>4. SendOrQuit(e, b) = f
    BY <1>4 DEF SendOrQuit
  <2> HIDE DEF d, q
  <2>5. <<q>> # <<>> /\ <<q>>[1] = q
    OBVIOUS
  <2>6. /\ f.ctl = <<q>> /\ f.st = d.st /\ f.id = d.id /\ f.peers = d.peers
        /\ f.reply = d.reply /\ f.note = d.note /\ f.stray = d.stray
        /\ f.left = d.left /\ f.again = d.again /\ f.pc = d.pc
        /\ f.peer = d.peer /\ f.jobs = d.jobs /\ f.gather = d.gather /\ f.pending = d.pending
    BY <2>3 DEF ClientType
  <2> HIDE DEF f
  <2>7. Kept(e, f) /\ f.pending = e.pending
    BY <2>1, <2>3, <2>6 DEF Kept
  <2>8. Puts(e, f, b)
    BY <1>4, <2>1, <2>3, <2>5, <2>6 DEF Puts, q
  <2> QED
    BY <1>4, <2>4, <2>7, <2>8 DEF Sent
<1> QED
  BY <1>2, <1>3, <1>4

LEMMA SendFrontIs ==
  ASSUME NEW e, Apt(e)
  PROVE  LET f == SendFront(e) IN
         \/ f = e /\ (e.pending = <<>> \/ (e.st = "on" /\ e.ctl # <<>>))
         \/ /\ e.id # 0 /\ e.pending # <<>> /\ ~(e.st = "on" /\ e.ctl # <<>>)
            /\ \E b \in Bodies : b = Head(e.pending) /\ Sent(e, f, b)
<1>1. e \in ClientType /\ Alone(e)
  BY DEF Apt, Alone
<1>2. CASE e.pending = <<>> \/ IsSendingMessage(e)
  BY <1>2 DEF SendFront, IsSendingMessage
<1>3. CASE ~(e.pending = <<>> \/ IsSendingMessage(e))
  <2> DEFINE d == [e EXCEPT !.pending = Tail(@)]
             b == Head(e.pending)
             f == SendFront(e)
  <2>1. e.id # 0 /\ b \in Bodies /\ Tail(e.pending) \in Seq(Bodies) /\ (e.st = "on" => e.ctl = <<>>)
    BY <1>1, <1>3 DEF Alone, Unsigned, ClientType, IsSendingMessage
  <2>2. /\ d \in ClientType /\ d.st = e.st /\ d.id = e.id /\ d.peers = e.peers /\ d.ctl = e.ctl
        /\ d.reply = e.reply /\ d.wait = e.wait /\ d.note = e.note /\ d.stray = e.stray
        /\ d.dead = e.dead /\ d.left = e.left /\ d.again = e.again /\ d.peer = e.peer
        /\ d.pc = e.pc /\ d.jobs = e.jobs /\ d.gather = e.gather
    BY <1>1, <2>1 DEF ClientType
  <2>3. f = SendOrQuit(d, b)
    BY <1>3 DEF SendFront
  <2> HIDE DEF d, b, f
  <2>4. Apt(d)
    BY <2>1, <2>2, CallFine, FineApt
  <2>5. Sent(d, f, b)
    BY <2>1, <2>2, <2>3, <2>4, SendOrQuitIs
  <2>6. Kept(e, f)
    BY <2>2, <2>5 DEF Sent, Kept
  <2>7. Sent(e, f, b)
    BY <2>2, <2>5, <2>6 DEF Sent, Rests, Leaves, Puts
  <2> QED
    BY <1>3, <2>1, <2>7 DEF IsSendingMessage, b, f
<1> QED
  BY <1>2, <1>3

-----------------------------------------------------------------------------
(***************************************************************************)
(* The steps of a client: T, S, K and E are as above.                      *)
(***************************************************************************)
\* Who e is does not change but for the end of its id, and no call of it ends
\* before that.
Stays(e, f) ==
  /\ Given(f) \subseteq Given(e) /\ Mine(f) \subseteq Mine(e)
  /\ \A i \in Mine(f) : Busy(e, i) => Busy(f, i)
  /\ f.id # 0 /\ f.id = e.id /\ e.pc => f.pc

LEMMA SentCaller ==
  ASSUME NEW T, NEW S, NEW K, NEW E, S \subseteq T,
         NEW e, Apt(e), e.pc, e.gather, e.id \in S,
         Sound(e, T, S, K, E),
         NEW b, Open(e, T, K) \/ (b = "offer" /\ e.st # "out_waiting"),
         NEW f \in ClientType, Sent(e, f, b)
  PROVE  Caller(f, T, S, K, E) /\ Stays(e, f)
<1> USE DEF Sound
<1>1. e \in ClientType /\ Alone(e) /\ Kept(e, f) /\ e.id # 0
  BY DEF Apt, Alone, Unsigned, Sent
<1>2. /\ f.id = e.id /\ f.peers = e.peers /\ f.peer = e.peer /\ f.pc /\ f.jobs = e.jobs
      /\ f.gather /\ f.stray = e.stray /\ f.reply = e.reply
  BY <1>1 DEF Kept
<1>3. e.ctl = <<>> => e.reply = <<>>
  BY <1>1 DEF Alone, Controls
<1>4. \A q : q = Req("message", e.id, e.peer, b) =>
              q.op = "message" /\ q.id = e.id /\ q.to = e.peer /\ q.body = b
  BY ReqFields
<1>5. Req("sign_out", e.id, 0, "").op = "sign_out"
  BY DEF Req
<1>6. Given(f) = {} /\ (f.note = e.note \/ f.note = <<>>) /\ (e.left => f.left)
  BY <1>1, <1>2 DEF Given, Sent, Rests, Leaves, Puts
<1>7. Seen(f, S, K, E)
  BY <1>2, <1>6 DEF Seen
<1>8. Open(f, T, K)
  <2>1. CASE (e.peer = 0 \/ e.st = "out") /\ Rests(e, f)
    BY <1>2, <2>1 DEF Open, Rests
  <2>2. CASE e.st = "out_waiting" /\ Leaves(e, f)
    BY <1>2, <2>2 DEF Open, Leaves
  <2>3. CASE e.peer # 0 /\ Puts(e, f, b)
    <3>1. f.ctl # <<>> /\ f.reply = <<>> /\ f.ctl[1].op = "message" /\ f.ctl[1].body = b
      BY <1>2, <1>3, <1>4, <2>3 DEF Puts
    <3>2. b # "offer" => e.peer \in {0} \cup T \/ e.id \notin K
      BY <2>3 DEF Open, Puts
    <3> QED
      BY <1>2, <3>1, <3>2 DEF Open
  <2> QED
    BY <2>1, <2>2, <2>3 DEF Sent
<1>9. Calls(f, T, K)
  BY <1>2, <1>8 DEF Calls
<1>10. ASSUME NEW r \in Asked(f)
       PROVE  Rightly(r, T, S, K, E)
  <2>1. r \in Asked(e) \/ (f.ctl # <<>> /\ r = f.ctl[1])
    BY <1>2, AskedIs DEF Asked
  <2>2. CASE f.ctl # <<>> /\ r = f.ctl[1] /\ ~(e.ctl # <<>> /\ f.ctl = e.ctl)
    <3>1. CASE Leaves(e, f)
      BY <1>5, <2>2, <3>1 DEF Leaves, Rightly
    <3>2. CASE e.peer # 0 /\ Puts(e, f, b)
      <4>1. r.op = "message" /\ r.id = e.id /\ r.to = e.peer /\ r.body = b /\ e.st = "on"
        BY <1>4, <2>2, <3>2 DEF Puts
      <4>2. r.id \in K => r.to \in E /\ (b = "offer" \/ r.to \in T)
        BY <2>2, <3>2, <4>1 DEF Seen, Open, Puts, Sent
      <4> QED
        BY <4>1, <4>2 DEF Rightly
    <3> QED
      BY <2>2, <3>1, <3>2 DEF Sent, Rests
  <2>3. CASE r \in Asked(e)
    BY <2>3
  <2>4. CASE e.ctl # <<>> /\ f.ctl = e.ctl /\ r = f.ctl[1]
    <3>1. r \in Asked(e)
      BY <1>1, <2>4, AskedIs
    <3> QED
      BY <3>1
  <2> QED
    BY <2>1, <2>2, <2>3, <2>4
<1>11. Control(f, K)
  <2>1. CASE (e.peer = 0 \/ e.st = "out") /\ Rests(e, f)
    BY <1>2, <2>1 DEF Control, Rests
  <2>2. CASE e.st = "out_waiting" /\ Leaves(e, f)
    BY <1>2, <1>3, <1>5, <2>2 DEF Control, Leaves
  <2>3. CASE e.peer # 0 /\ Puts(e, f, b)
    BY <1>2, <1>3, <1>4, <2>3 DEF Control, Puts
  <2> QED
    BY <2>1, <2>2, <2>3 DEF Sent
<1>12. Gone(f, K)
  BY <1>1, <1>2, <1>6 DEF Gone, Sent, Rests, Leaves, Puts
<1>13. Stays(e, f)
  BY <1>2, <1>6 DEF Stays, Mine, Busy
<1> QED
  BY <1>7, <1>9, <1>10, <1>11, <1>12, <1>13 DEF Caller, Sound

\* Nothing that has been sent or received changes; the call may.
LEMMA SoundSame ==
  ASSUME NEW T, NEW S, NEW K, NEW E, NEW e, Sound(e, T, S, K, E), NEW f,
         f.st = e.st, f.id = e.id, f.peers = e.peers, f.ctl = e.ctl, f.reply = e.reply,
         f.note = e.note, f.stray = e.stray, f.left = e.left, e.pc => f.pc,
         f.id \in K => f.peer \in {0} \cup E,
         f.peer = e.peer \/ e.ctl = <<>> \/ e.ctl[1].op # "message"
  PROVE  Sound(f, T, S, K, E) /\ Stays(e, f)
<1>1. Asked(f) = Asked(e) /\ Given(f) = Given(e) /\ Mine(f) = Mine(e)
  BY DEF Asked, Given, Mine
<1>2. Seen(f, S, K, E) /\ Control(f, K) /\ Gone(f, K)
  BY <1>1 DEF Sound, Seen, Control, Gone
<1>3. Stays(e, f)
  BY <1>1 DEF Stays, Busy, Worded
<1> QED
  BY <1>1, <1>2, <1>3 DEF Sound

LEMMA StaysThen ==
  ASSUME NEW e, NEW f, NEW g, Stays(e, f), Stays(f, g), f.id = e.id
  PROVE  Stays(e, g)
BY DEF Stays

\* A client in a call sends a message of it, or keeps it for later.
LEMMA SendMessageCaller ==
  ASSUME NEW T, NEW S, NEW K, NEW E, S \subseteq T,
         NEW e, Apt(e), e.pc, e.gather, e.id \in S, Sound(e, T, S, K, E),
         NEW b \in Bodies,
         \/ Open(e, T, K)
         \/ b = "offer" /\ e.pending = <<>> /\ e.st # "out_waiting" /\ (e.st = "on" => e.ctl = <<>>)
  PROVE  Caller(SendMessage(e, b), T, S, K, E) /\ Stays(e, SendMessage(e, b))
<1> DEFINE d == [e EXCEPT !.pending = Append(@, b)]
           f == SendMessage(e, b)
<1>1. e \in ClientType /\ e.id # 0 /\ f \in ClientType
  BY SendMessageGood DEF Apt, Alone, Unsigned, Good, Fine
<1>2. Append(e.pending, b) \in Seq(Bodies) /\ Append(e.pending, b) # <<>>
      /\ (e.pending = <<>> => Head(Append(e.pending, b)) = b)
  <2>1. e.pending \in Seq(Bodies)
    BY <1>1 DEF ClientType
  <2>2. Head(Append(<<>>, b)) = b
    OBVIOUS
  <2> QED
    BY <2>1, <2>2
<1>3. /\ d \in ClientType /\ d.st = e.st /\ d.id = e.id /\ d.peers = e.peers /\ d.ctl = e.ctl
      /\ d.reply = e.reply /\ d.wait = e.wait /\ d.note = e.note /\ d.stray = e.stray
      /\ d.dead = e.dead /\ d.left = e.left /\ d.again = e.again /\ d.peer = e.peer
      /\ d.pc = e.pc /\ d.jobs = e.jobs /\ d.gather = e.gather
      /\ d.pending = Append(e.pending, b)
  BY <1>1, <1>2 DEF ClientType
<1>4. f = SendFront(d)
  BY DEF SendMessage
<1> HIDE DEF d, f
<1>5. Apt(d)
  BY <1>1, <1>3, CallFine, FineApt
<1>6. Sound(d, T, S, K, E) /\ Stays(e, d)
  <2>1. d.id \in K => d.peer \in {0} \cup E
    BY <1>3 DEF Sound, Seen
  <2> QED
    BY <1>3, <2>1, SoundSame
<1>7. Open(d, T, K) <=> Open(e, T, K)
  BY <1>3 DEF Open
<1>8. CASE f = d /\ d.st = "on" /\ d.ctl # <<>>
  <2>1. Open(d, T, K)
    BY <1>3, <1>7, <1>8
  <2>2. Calls(d, T, K)
    BY <1>3, <2>1 DEF Calls
  <2> QED
    BY <1>6, <1>8, <2>2 DEF Caller, f
<1>9. ASSUME NEW q \in Bodies, q = Head(d.pending), Sent(d, f, q)
      PROVE  Caller(f, T, S, K, E) /\ Stays(e, f)
  <2>1. Open(d, T, K) \/ (q = "offer" /\ d.st # "out_waiting")
    BY <1>2, <1>3, <1>7, <1>9
  <2>2. Caller(f, T, S, K, E) /\ Stays(d, f)
    BY <1>1, <1>3, <1>5, <1>6, <1>9, <2>1, SentCaller
  <2> QED
    BY <1>3, <1>6, <2>2, StaysThen
<1> QED
  BY <1>2, <1>3, <1>4, <1>5, <1>8, <1>9, SendFrontIs DEF f

\* OnSuccess or OnFailure.
LEMMA DescribedCaller ==
  ASSUME NEW T, NEW S, NEW K, NEW E, S \subseteq T,
         NEW e, Apt(e), e.pc => e.id \in S, Caller(e, T, S, K, E), e.jobs # <<>>,
         NEW g,
         LET f == [e EXCEPT !.jobs = Tail(@)] IN
           \/ g = SendMessage([f EXCEPT !.gather = TRUE], Head(e.jobs))
           \/ Head(e.jobs) = "answer" /\ g = f
  PROVE  Caller(g, T, S, K, E) /\ Stays(e, g)
<1> DEFINE f == [e EXCEPT !.jobs = Tail(@)]
           h == [f EXCEPT !.gather = TRUE]
           b == Head(e.jobs)
<1>1. /\ e \in ClientType /\ e.id # 0 /\ Tail(e.jobs) \in Seq({"offer", "answer"})
      /\ b \in {"offer", "answer"} /\ b \in Bodies /\ b = e.jobs[1]
  BY SessionAssumption DEF Apt, Alone, Unsigned, ClientType
<1>2. /\ f \in ClientType /\ f.st = e.st /\ f.id = e.id /\ f.peers = e.peers /\ f.ctl = e.ctl
      /\ f.reply = e.reply /\ f.wait = e.wait /\ f.note = e.note /\ f.stray = e.stray
      /\ f.dead = e.dead /\ f.left = e.left /\ f.again = e.again /\ f.peer = e.peer
      /\ f.pc = e.pc /\ f.gather = e.gather /\ f.pending = e.pending
  BY <1>1 DEF ClientType
<1>3. g = SendMessage(h, b) \/ (b = "answer" /\ g = f)
  OBVIOUS
<1> HIDE DEF f, b
<1>4. /\ h \in ClientType /\ h.st = e.st /\ h.id = e.id /\ h.peers = e.peers /\ h.ctl = e.ctl
      /\ h.reply = e.reply /\ h.wait = e.wait /\ h.note = e.note /\ h.stray = e.stray
      /\ h.dead = e.dead /\ h.left = e.left /\ h.again = e.again /\ h.peer = e.peer
      /\ h.pc = e.pc /\ h.gather = TRUE /\ h.pending = e.pending
  BY <1>2 DEF ClientType
<1> HIDE DEF h
<1>5. e.pc /\ Sound(e, T, S, K, E) /\ Calls(e, T, K) /\ (e.id \in K => e.peer \in {0} \cup E)
  BY DEF Caller, Calls, Sound, Seen
<1>6. b = "answer" \/ e.gather => Open(e, T, K)
  BY <1>1, <1>5 DEF Calls
<1>7. CASE b = "answer" /\ g = f
  <2>1. Sound(f, T, S, K, E) /\ Stays(e, f)
    BY <1>2, <1>5, SoundSame
  <2>2. Open(f, T, K)
    BY <1>2, <1>6, <1>7 DEF Open
  <2>3. Calls(f, T, K)
    BY <1>2, <1>5, <2>2 DEF Calls
  <2> QED
    BY <1>7, <2>1, <2>3 DEF Caller
<1>8. CASE g = SendMessage(h, b)
  <2>1. Sound(h, T, S, K, E) /\ Stays(e, h)
    BY <1>4, <1>5, SoundSame
  <2>2. Apt(h)
    BY <1>1, <1>4, CallFine, FineApt
  <2>3. Open(h, T, K) <=> Open(e, T, K)
    BY <1>4 DEF Open
  <2>4. ~e.gather => e.pending = <<>> /\ e.st # "out_waiting" /\ (e.st = "on" => e.ctl = <<>>)
    BY <1>5 DEF Calls
  <2>5. Caller(g, T, S, K, E) /\ Stays(h, g)
    BY <1>1, <1>4, <1>5, <1>6, <1>8, <2>1, <2>2, <2>3, <2>4, SendMessageCaller
  <2> QED
    BY <1>4, <2>1, <2>5, StaysThen
<1> QED
  BY <1>3, <1>7, <1>8

\* A client that has closed everything.
LEMMA EndCaller ==
  ASSUME NEW T, NEW S, NEW K, NEW E, NEW g \in ClientType,
         g.st = "off", g.id = 0, g.pc = FALSE, g.peer = 0, g.pending = <<>>, g.peers = {},
         g.jobs = <<>>, g.gather = FALSE, g.ctl = <<>>, g.reply = <<>>, g.note = <<>>,
         \A r \in g.stray : Rightly(r, T, S, K, E), NEW e
  PROVE  Caller(g, T, S, K, E) /\ Stays(e, g)
<1>1. Asked(g) = g.stray /\ Given(g) = {} /\ Mine(g) = {}
  BY AskedIs DEF Given, Mine
<1>2. Sound(g, T, S, K, E)
  BY <1>1 DEF Sound, Seen, Control, Gone
<1> QED
  BY <1>1, <1>2 DEF Caller, Calls, Stays

\* ... by ClientClose.
LEMMA ClosedCaller ==
  ASSUME NEW T, NEW S, NEW K, NEW E, NEW h, Apt(h), NEW e,
         \A r \in Asked(h) : Rightly(r, T, S, K, E)
  PROVE  \A y : y = NoCall(ClientClose(h)) =>
           /\ Caller([y EXCEPT !.left = TRUE], T, S, K, E) /\ Stays(e, [y EXCEPT !.left = TRUE])
           /\ Caller([y EXCEPT !.again = TRUE], T, S, K, E) /\ Stays(e, [y EXCEPT !.again = TRUE])
           /\ ~[y EXCEPT !.left = TRUE].pc /\ ~[y EXCEPT !.again = TRUE].pc
<1> DEFINE d == CloseControl(h)
           x == CloseWait(d)
           y == NoCall([x EXCEPT !.st = "off", !.id = 0, !.peers = {}])
           f == [y EXCEPT !.left = TRUE]
           g == [y EXCEPT !.again = TRUE]
<1>1. h \in ClientType /\ d \in ClientType /\ x \in ClientType
  BY CloseControlType, ClosedType DEF Apt, Alone
<1>2. /\ d.ctl = <<>> /\ d.reply = <<>>
      /\ d.stray = IF h.reply = <<>> THEN h.stray \cup {h.ctl[i] : i \in DOMAIN h.ctl} ELSE h.stray
  BY <1>1, CloseControlFields
<1>3. x.ctl = <<>> /\ x.reply = <<>> /\ x.note = <<>> /\ x.stray \subseteq Asked(h)
  <2>1. x.ctl = d.ctl /\ x.reply = d.reply /\ x.note = <<>> /\ x.stray = d.stray
    BY <1>1, CloseWaitFields
  <2> HIDE DEF x, d
  <2> QED
    BY <1>2, <2>1 DEF Asked
<1>4. NoCall(ClientClose(h)) = y
  BY DEF ClientClose
<1> HIDE DEF x
<1>5. /\ y \in ClientType /\ y.st = "off" /\ y.id = 0 /\ y.peers = {}
      /\ y.pc = FALSE /\ y.peer = 0
      /\ y.pending = <<>> /\ y.jobs = <<>> /\ y.gather = FALSE /\ y.ctl = x.ctl
      /\ y.reply = x.reply /\ y.note = x.note /\ y.stray = x.stray
  BY <1>1, EndFields
<1> HIDE DEF y
<1>6. /\ f \in ClientType /\ f.st = "off" /\ f.id = 0 /\ f.peers = {} /\ f.pc = FALSE
      /\ f.peer = 0 /\ f.pending = <<>> /\ f.jobs = <<>> /\ f.gather = FALSE /\ f.ctl = <<>>
      /\ f.reply = <<>> /\ f.note = <<>> /\ f.stray \subseteq Asked(h)
  BY <1>3, <1>5 DEF ClientType
<1>7. /\ g \in ClientType /\ g.st = "off" /\ g.id = 0 /\ g.peers = {} /\ g.pc = FALSE
      /\ g.peer = 0 /\ g.pending = <<>> /\ g.jobs = <<>> /\ g.gather = FALSE /\ g.ctl = <<>>
      /\ g.reply = <<>> /\ g.note = <<>> /\ g.stray \subseteq Asked(h)
  BY <1>3, <1>5 DEF ClientType
<1> HIDE DEF f, g
<1>8. Caller(f, T, S, K, E) /\ Stays(e, f) /\ Caller(g, T, S, K, E) /\ Stays(e, g)
  BY <1>6, <1>7, EndCaller
<1> QED
  BY <1>4, <1>6, <1>7, <1>8 DEF f, g

\* PeerConnectionClient::SignOut.
LEMMA SignOutCaller ==
  ASSUME NEW T, NEW S, NEW K, NEW E, NEW e, Apt(e), e.id # 0, Caller(e, T, S, K, E)
  PROVE  LET f == ClientSignOut(e) IN Caller(f, T, S, K, E) /\ Stays(e, f)
<1> DEFINE f == ClientSignOut(e)
<1>1. /\ f \in ClientType /\ Kept(e, f) /\ f.pending = e.pending
      /\ e.st = "out" => Rests(e, f)
      /\ e.st # "out" => Leaves(e, f)
  BY SignOutIs
<1> HIDE DEF f
<1>2. /\ f.id = e.id /\ f.peers = e.peers /\ f.peer = e.peer /\ f.pc = e.pc /\ f.jobs = e.jobs
      /\ f.gather = e.gather /\ f.stray = e.stray /\ f.reply = e.reply
  BY <1>1 DEF Kept
<1>3. /\ e \in ClientType /\ Alone(e) /\ e.st \in {"on", "out", "out_waiting"}
      /\ Sound(e, T, S, K, E) /\ Calls(e, T, K) /\ (e.id \in K => e.peer \in {0} \cup E)
  BY DEF Apt, Alone, Unsigned, ClientType, Caller, Sound, Seen
<1>4. CASE e.st = "out"
  <2>1. Rests(e, f)
    BY <1>1, <1>4
  <2>2. Sound(f, T, S, K, E) /\ Stays(e, f)
    BY <1>2, <1>3, <2>1, SoundSame DEF Rests
  <2>3. Calls(f, T, K)
    BY <1>1, <1>2, <1>3, <2>1 DEF Calls, Open, Rests
  <2> QED
    BY <2>2, <2>3 DEF Caller, f
<1>5. CASE e.st # "out"
  <2>1. Leaves(e, f)
    BY <1>1, <1>5
  <2>2. Req("sign_out", e.id, 0, "").op = "sign_out"
    BY DEF Req
  <2>3. e.ctl = <<>> => e.reply = <<>>
    BY <1>3 DEF Alone, Controls
  <2>4. \A r \in Asked(f) : r \in Asked(e) \/ r.op = "sign_out"
    <3>1. CASE e.ctl # <<>> /\ f.ctl = e.ctl
      BY <1>2, <3>1 DEF Asked
    <3>2. CASE f.ctl # <<>> /\ f.ctl[1] = Req("sign_out", e.id, 0, "")
      BY <1>1, <1>2, <2>2, <3>2, AskedIs DEF Asked
    <3> QED
      BY <2>1, <3>1, <3>2 DEF Leaves
  <2>5. \A r \in Asked(f) : Rightly(r, T, S, K, E)
    BY <1>3, <2>4 DEF Sound, Rightly
  <2>6. Given(f) = {} /\ Mine(f) = Mine(e) /\ f.note = <<>> /\ f.left
    BY <1>2, <2>1 DEF Given, Mine, Leaves
  <2>7. Seen(f, S, K, E) /\ Gone(f, K)
    BY <1>2, <1>3, <2>1, <2>6 DEF Sound, Seen, Gone, Leaves
  <2>8. Control(f, K)
    BY <1>2, <1>3, <2>1, <2>2, <2>3 DEF Sound, Control, Leaves
  <2>9. Calls(f, T, K)
    BY <1>1, <1>2, <1>3, <1>5, <2>1 DEF Calls, Open, Leaves
  <2>10. Stays(e, f)
    BY <1>2, <2>6 DEF Stays, Busy
  <2> QED
    BY <2>5, <2>7, <2>8, <2>9, <2>10 DEF Caller, Sound, f
<1> QED
  BY <1>4, <1>5

\* OnMessageSent: the request has been answered, or its connection is gone.
LEMMA OnMessageSentCaller ==
  ASSUME NEW T, NEW S, NEW K, NEW E, S \subseteq T,
         NEW e, Apt(e), e.pc => e.id \in S, Caller(e, T, S, K, E),
         e.ctl = <<>>, e.reply = <<>>
  PROVE  LET f == OnMessageSent(e) IN
         /\ Apt(f) /\ Caller(f, T, S, K, E) /\ Stays(e, f) /\ f.id = e.id /\ f.pc = e.pc
         /\ f.reply = <<>>
         /\ f.st = "out" => \/ e.st = "out" /\ f.ctl = <<>>
                            \/ f.pc /\ f.gather /\ (f.peer \in {0} \cup T \/ f.id \notin K)
<1> DEFINE g == SendFront(e)
           f == [g EXCEPT !.peer = 0]
           n == OnMessageSent(e)
<1>1. n = IF g.pc THEN g ELSE f
  BY DEF OnMessageSent
<1>2. Good(e, g) /\ g.id = e.id /\ Apt(g) /\ Apt(n)
  BY SendFrontGood, OnMessageSentGood, FineApt DEF Good
<1>3. g \in ClientType /\ e \in ClientType
  BY <1>2 DEF Apt, Alone
<1>4. /\ f.st = g.st /\ f.id = g.id /\ f.peers = g.peers /\ f.ctl = g.ctl
      /\ f.reply = g.reply /\ f.note = g.note /\ f.stray = g.stray
      /\ f.left = g.left /\ f.peer = 0
      /\ f.pc = g.pc /\ f.jobs = g.jobs /\ f.gather = g.gather /\ f.pending = g.pending
  BY <1>3 DEF ClientType
<1>5. Sound(e, T, S, K, E) /\ Calls(e, T, K) /\ Stays(e, e)
  BY DEF Caller, Stays
<1>6. /\ Caller(g, T, S, K, E) /\ Stays(e, g) /\ g.pc = e.pc /\ g.reply = <<>>
      /\ (g.st = "out" => \/ e.st = "out" /\ g.ctl = <<>>
                          \/ g.pc /\ g.gather /\ (g.peer \in {0} \cup T \/ g.id \notin K))
      /\ (~g.pc => g.ctl = <<>>)
  <2> DEFINE G == /\ Caller(g, T, S, K, E) /\ Stays(e, g) /\ g.pc = e.pc /\ g.reply = <<>>
                  /\ (g.st = "out" =>
                         \/ e.st = "out" /\ g.ctl = <<>>
                         \/ g.pc /\ g.gather /\ (g.peer \in {0} \cup T \/ g.id \notin K))
                  /\ (~g.pc => g.ctl = <<>>)
  <2>1. CASE g = e
    BY <1>5, <2>1
  <2>2. ASSUME NEW b, Sent(e, g, b), e.pending # <<>>
        PROVE  G
    <3>1. e.gather /\ e.pc /\ Open(e, T, K)
      BY <1>5, <2>2 DEF Calls
    <3>2. Caller(g, T, S, K, E) /\ Stays(e, g)
      BY <1>3, <1>5, <2>2, <3>1, SentCaller
    <3>3. g.pc = e.pc /\ g.gather = e.gather /\ g.peer = e.peer /\ g.reply = <<>>
      BY <2>2 DEF Sent, Kept
    <3>4. g.st = "out" => (e.st = "out" /\ g.ctl = <<>>) \/ e.st = "out_waiting"
      BY <2>2 DEF Sent, Rests, Leaves, Puts
    <3> QED
      BY <1>2, <3>1, <3>2, <3>3, <3>4 DEF Open
  <2> QED
    BY <2>1, <2>2, SendFrontIs
<1> HIDE DEF f, g, n
<1>7. CASE g.pc
  BY <1>1, <1>2, <1>6, <1>7 DEF n
<1>8. CASE ~g.pc
  <2>1. Sound(f, T, S, K, E) /\ Stays(g, f)
    BY <1>4, <1>6, <1>8, SoundSame DEF Caller
  <2>2. Calls(f, T, K)
    BY <1>4, <1>6, <1>8 DEF Caller, Calls
  <2>3. Stays(e, f)
    BY <1>2, <1>6, <2>1, StaysThen
  <2> QED
    BY <1>1, <1>2, <1>4, <1>6, <1>8, <2>1, <2>2, <2>3 DEF Caller, n
<1> QED
  BY <1>7, <1>8

\* The client goes from out to on again; it is gone from the server, or has
\* something else to send.
LEMMA OnAgainCaller ==
  ASSUME NEW T, NEW S, NEW K, NEW E, NEW f, Apt(f), Caller(f, T, S, K, E), f.st = "out",
         f.reply = <<>>,
         \/ f.id \notin K /\ f.ctl = <<>>
         \/ f.pc /\ f.gather /\ (f.peer \in {0} \cup T \/ f.id \notin K),
         NEW P \in SUBSET Ids,
         NEW h, h = OpenWait([f EXCEPT !.peers = P, !.st = "on"])
  PROVE  Caller(h, T, S, K, E) /\ Stays(f, h)
<1>1. f \in ClientType /\ f.id # 0
  BY DEF Apt, Alone, Unsigned
<1>2. /\ h.peers = P /\ h.st = "on"
      /\ h.ctl = f.ctl /\ h.reply = f.reply /\ h.id = f.id
      /\ h.note = f.note /\ h.stray = f.stray
      /\ h.left = f.left /\ h.peer = f.peer
      /\ h.pc = f.pc /\ h.jobs = f.jobs /\ h.gather = f.gather /\ h.pending = f.pending
  BY <1>1 DEF OpenWait, ClientType
<1>3. Asked(h) = Asked(f) /\ Given(h) = Given(f) /\ Mine(h) = Mine(f)
  BY <1>2 DEF Asked, Given, Mine
<1>4. Seen(h, S, K, E)
  BY <1>2, <1>3 DEF Caller, Sound, Seen
<1>5. Control(h, K)
  BY <1>2 DEF Caller, Sound, Control
<1>6. Gone(h, K)
  BY <1>2 DEF Caller, Sound, Gone
<1>7. Calls(h, T, K)
  BY <1>2 DEF Caller, Calls, Open
<1>8. Stays(f, h)
  BY <1>2, <1>3 DEF Stays, Busy, Worded
<1> QED
  BY <1>3, <1>4, <1>5, <1>6, <1>7, <1>8 DEF Caller, Sound

\* OnRead, for a client that is signed in.
LEMMA OnReadCaller ==
  ASSUME NEW T, NEW S, NEW K, NEW E, S \subseteq T,
         NEW e, Apt(e), e.pc => e.id \in S, Caller(e, T, S, K, E), e.reply # <<>>, e.id # 0
  PROVE  LET n == OnRead(e) IN
         Caller(n, T, S, K, E) /\ Stays(e, n) /\ (n.pc => e.pc)
<1> DEFINE r == e.reply[1]
           d == [e EXCEPT !.ctl = <<>>, !.reply = <<>>]
           f == OnMessageSent(d)
           P == r.body.ids \ {f.id}
           h == OpenWait([f EXCEPT !.peers = P, !.st = "on"])
           n == OnRead(e)
<1>1. /\ e \in ClientType /\ Alone(e) /\ e.ctl # <<>> /\ r \in Responses
      /\ e.st \in {"on", "out", "out_waiting"} /\ (e.ctl # <<>> => e.ctl[1].op # "sign_in")
  <2>1. e \in ClientType /\ Alone(e)
    BY DEF Apt, Alone
  <2> QED
    BY <2>1, One DEF Alone, Unsigned, Controls, ClientType
<1>2. /\ d \in ClientType /\ d.ctl = <<>> /\ d.reply = <<>>
      /\ d.st = e.st /\ d.id = e.id /\ d.peers = e.peers
      /\ d.note = e.note /\ d.stray = e.stray /\ d.left = e.left /\ d.peer = e.peer
      /\ d.pc = e.pc /\ d.jobs = e.jobs /\ d.gather = e.gather /\ d.pending = e.pending
  BY <1>1, TakenFields
<1>3. Apt(d)
  BY TakenFine, FineApt
<1>4. n = IF r.status # 200 THEN Refused(f)
          ELSE IF f.id = 0
               THEN OpenWait([f EXCEPT !.id = r.from, !.peers = r.body.ids \ {r.from},
                                       !.st = "on"])
          ELSE IF f.st = "out" THEN h
          ELSE IF f.st = "out_waiting" THEN ClientSignOut(f)
          ELSE f
  BY DEF OnRead
<1>5. P \in SUBSET Ids
  BY <1>1, ResponseShape
<1> HIDE DEF d, r
<1>6. /\ \A x \in Asked(e) : Rightly(x, T, S, K, E)
      /\ Seen(e, S, K, E) /\ Control(e, K) /\ Gone(e, K) /\ Calls(e, T, K)
  BY DEF Caller, Sound
<1>7. Asked(d) \subseteq Asked(e) /\ Given(d) = {} /\ Given(e) = {} /\ Mine(d) = Mine(e)
  BY <1>1, <1>2, AskedIs DEF Given, Mine
<1>8. Seen(d, S, K, E) /\ Control(d, K) /\ Gone(d, K)
  BY <1>2, <1>6, <1>7 DEF Seen, Control, Gone
<1>9. Calls(d, T, K)
  BY <1>1, <1>2, <1>6 DEF Calls, Open
<1>10. Caller(d, T, S, K, E) /\ Stays(e, d)
  BY <1>2, <1>6, <1>7, <1>8, <1>9 DEF Caller, Sound, Stays, Busy, Worded
<1>11. /\ Apt(f) /\ Caller(f, T, S, K, E) /\ Stays(d, f) /\ f.id = e.id /\ f.pc = e.pc
       /\ f.reply = <<>>
       /\ f.st = "out" => \/ e.st = "out" /\ f.ctl = <<>>
                          \/ f.pc /\ f.gather /\ (f.peer \in {0} \cup T \/ f.id \notin K)
  <2>1. d.pc => d.id \in S
    BY <1>2
  <2>2. /\ Apt(f) /\ Caller(f, T, S, K, E) /\ Stays(d, f) /\ f.id = d.id /\ f.pc = d.pc
        /\ f.reply = <<>>
        /\ f.st = "out" => \/ d.st = "out" /\ f.ctl = <<>>
                           \/ f.pc /\ f.gather /\ (f.peer \in {0} \cup T \/ f.id \notin K)
    BY <1>2, <1>3, <1>10, <2>1, OnMessageSentCaller
  <2> HIDE DEF f
  <2> QED
    BY <1>2, <2>2
<1> HIDE DEF f
<1>12. Stays(e, f)
  BY <1>2, <1>10, <1>11, StaysThen
<1>13. CASE r.status # 200
  <2>1. n = [NoCall(ClientClose(f)) EXCEPT !.left = TRUE]
    BY <1>4, <1>13 DEF Refused
  <2>2. \A x \in Asked(f) : Rightly(x, T, S, K, E)
    BY <1>11 DEF Caller, Sound
  <2>3. PICK y : y = NoCall(ClientClose(f))
    OBVIOUS
  <2>4. n = [y EXCEPT !.left = TRUE]
    BY <2>1, <2>3
  <2> HIDE DEF n
  <2>5. Caller(n, T, S, K, E) /\ Stays(e, n) /\ ~n.pc
    BY <1>11, <2>2, <2>3, <2>4, ClosedCaller
  <2> QED
    BY <2>5 DEF n
<1>14. CASE r.status = 200 /\ f.st = "out"
  <2>1. e.st = "out" => e.id \notin K
    BY <1>1, <1>6 DEF Control
  <2>2. Caller(h, T, S, K, E) /\ Stays(f, h)
    <3> HIDE DEF P
    <3>1. \/ f.id \notin K /\ f.ctl = <<>>
          \/ f.pc /\ f.gather /\ (f.peer \in {0} \cup T \/ f.id \notin K)
      BY <1>11, <1>14, <2>1
    <3>2. h = OpenWait([f EXCEPT !.peers = P, !.st = "on"])
      OBVIOUS
    <3>3. f.st = "out"
      BY <1>14
    <3> HIDE DEF h
    <3> QED
      BY <1>5, <1>11, <3>1, <3>2, <3>3, OnAgainCaller
  <2>3. h.pc = f.pc
    BY <1>11 DEF OpenWait, Apt, Alone, ClientType
  <2>4. n = h
    BY <1>4, <1>11, <1>14
  <2> HIDE DEF h, P
  <2> QED
    BY <1>11, <1>12, <2>2, <2>3, <2>4, StaysThen
<1>15. CASE r.status = 200 /\ f.st = "out_waiting"
  <2>1. n = ClientSignOut(f)
    BY <1>4, <1>11, <1>15
  <2>2. Caller(n, T, S, K, E) /\ Stays(f, n)
    BY <1>11, <2>1, SignOutCaller
  <2>3. n.pc = f.pc
    BY <1>11, <1>15, <2>1, SignOutIs DEF Kept
  <2> QED
    BY <1>11, <1>12, <2>2, <2>3, StaysThen
<1>16. CASE r.status = 200 /\ f.st \notin {"out", "out_waiting"}
  BY <1>4, <1>11, <1>12, <1>16
<1> QED
  BY <1>13, <1>14, <1>15, <1>16

\* ... and for one that signs in.
LEMMA OnReadSignedIn ==
  ASSUME NEW T, NEW S, NEW K, NEW E,
         NEW e, Apt(e), Caller(e, T, S, K, E), e.reply # <<>>, e.id = 0
  PROVE  LET n == OnRead(e) IN Caller(n, T, S, K, E) /\ Stays(e, n) /\ ~n.pc
<1> DEFINE r == e.reply[1]
           n == OnRead(e)
<1>1. /\ Fine(e, n) /\ SignsIn(e, n) /\ e.note = <<>>
      /\ n.ctl = <<>> /\ n.reply = <<>> /\ n.stray = e.stray /\ ~n.pc /\ n.jobs = <<>>
      /\ ~n.gather /\ n.pending = <<>>
  BY OnReadSignsIn
<1>2. /\ e \in ClientType /\ e.st = "signing_in" /\ ~e.pc /\ Given(e) = {r.from} /\ r.from # 0
      /\ n \in ClientType
  BY <1>1 DEF Apt, Alone, Unsigned, Controls, Given, Fine
<1>3. /\ n.st = "on" /\ n.left = e.left /\ n.id = r.from /\ n.note = <<>> /\ n.peer = 0
      /\ n.peers = r.body.ids \ {r.from}
  BY <1>1 DEF SignsIn
<1> HIDE DEF n, r
<1>4. Asked(n) \subseteq Asked(e) /\ Given(n) = {} /\ Mine(n) \subseteq Mine(e)
  <2>1. Asked(n) = n.stray /\ e.stray \subseteq Asked(e)
    BY <1>1, <1>2, AskedIs DEF Asked
  <2>2. Given(n) = {}
    BY <1>1 DEF Given
  <2>3. Mine(n) \subseteq Mine(e)
    BY <1>2, <1>3, <2>2 DEF Mine
  <2> QED
    BY <1>1, <2>1, <2>2, <2>3
<1>5. ~e.left
  BY <1>2 DEF Caller, Sound, Gone
<1>6. r.body.ids \subseteq E
  BY <1>2 DEF Caller, Sound, Seen, r
<1>7. Seen(n, S, K, E) /\ Control(n, K) /\ Gone(n, K) /\ Calls(n, T, K)
  BY <1>1, <1>3, <1>4, <1>5, <1>6 DEF Seen, Control, Gone, Calls
<1>8. Stays(e, n)
  BY <1>1, <1>2, <1>3, <1>4, <1>5 DEF Stays, Busy, Worded
<1> QED
  BY <1>1, <1>4, <1>7, <1>8 DEF Caller, Sound, n

\* The members that a client knows of do not say more of it.
LEMMA PeersApt ==
  ASSUME NEW e, NEW f \in ClientType, Apt(e), e.id # 0,
         f.st = e.st, f.id = e.id, f.ctl = e.ctl, f.reply = e.reply,
         f.wait = e.wait, f.note = e.note, f.stray = e.stray, f.dead = e.dead, f.left = e.left,
         f.again = e.again, f.peer = e.peer, f.pc = e.pc, f.jobs = e.jobs,
         f.gather = e.gather, f.pending = e.pending
  PROVE  Apt(f)
<1>1. Asked(f) = Asked(e) /\ Given(f) = Given(e)
  BY DEF Asked, Given
<1>2. Unsigned(f) /\ Controls(f) /\ States(f) /\ Waits(f)
  BY DEF Apt, Alone, Unsigned, Controls, States, Waits
<1>3. Asks(f) /\ Fresh(f)
  BY <1>1 DEF Apt, Alone, Asks, Fresh
<1> QED
  BY <1>2, <1>3 DEF Apt, Alone

LEMMA PeersCaller ==
  ASSUME NEW T, NEW S, NEW K, NEW E, NEW e, Caller(e, T, S, K, E), NEW f,
         f.peers \subseteq e.peers \cup E,
         f.st = e.st, f.id = e.id, f.ctl = e.ctl, f.reply = e.reply,
         f.note = e.note, f.stray = e.stray, f.left = e.left, f.peer = e.peer, f.pc = e.pc,
         f.jobs = e.jobs, f.gather = e.gather, f.pending = e.pending
  PROVE  Caller(f, T, S, K, E) /\ Stays(e, f)
<1>1. Asked(f) = Asked(e) /\ Given(f) = Given(e) /\ Mine(f) = Mine(e)
  BY DEF Asked, Given, Mine
<1>2. Seen(f, S, K, E) /\ Control(f, K) /\ Gone(f, K)
  BY <1>1 DEF Caller, Sound, Seen, Control, Gone
<1>3. Calls(f, T, K)
  BY DEF Caller, Calls, Open
<1>4. Stays(e, f)
  BY <1>1 DEF Stays, Busy, Worded
<1> QED
  BY <1>1, <1>2, <1>3, <1>4 DEF Caller, Sound

\* OnPeerDisconnected; the call is over, or was with another.
LEMMA DisconnectedCaller ==
  ASSUME NEW T, NEW S, NEW K, NEW E, NEW f, Apt(f), Caller(f, T, S, K, E), NEW p,
         NEW e, Stays(e, f)
  PROVE  LET n == OnPeerDisconnected(f, p) IN
         Caller(n, T, S, K, E) /\ Stays(e, n) /\ (n.pc => f.pc)
<1> DEFINE h == SendHangUpConfirm(f)
           n == OnPeerDisconnected(f, p)
<1>1. CASE p # f.peer
  <2>1. n = f
    BY <1>1 DEF OnPeerDisconnected
  <2> HIDE DEF n
  <2> QED
    BY <2>1 DEF n
<1>2. CASE p = f.peer
  <2>1. Apt(h) /\ \A r \in Asked(h) : r \in Asked(f) \/ r.op = "hangup_confirm"
    BY ConfirmFine
  <2>2. \A r \in Asked(h) : Rightly(r, T, S, K, E)
    BY <2>1 DEF Caller, Sound, Rightly
  <2>3. PICK y : y = NoCall(ClientClose(h))
    OBVIOUS
  <2>4. n = [y EXCEPT !.again = TRUE]
    BY <1>2, <2>3 DEF OnPeerDisconnected
  <2> HIDE DEF n, h
  <2>5. Caller(n, T, S, K, E) /\ Stays(e, n) /\ ~n.pc
    BY <2>1, <2>2, <2>3, <2>4, ClosedCaller
  <2> QED
    BY <2>5 DEF n
<1> QED
  BY <1>1, <1>2

\* OnHangingGetRead.
LEMMA ReadWaitCaller ==
  ASSUME NEW T, NEW S, NEW K, NEW E, S \subseteq T, S \subseteq E,
         NEW e, Apt(e), Caller(e, T, S, K, E), e.note # <<>>
  PROVE  LET n == OnHangingGetRead(e) IN
         /\ Caller(n, T, S, K, E) /\ Stays(e, n)
         /\ n.pc /\ ~e.pc => e.note[1].body.kind = "offer"
<1> DEFINE r == e.note[1]
           f == OpenWait([e EXCEPT !.note = <<>>, !.wait = "none"])
           n == OnHangingGetRead(e)
           Goal == /\ Caller(n, T, S, K, E) /\ Stays(e, n)
                   /\ n.pc /\ ~e.pc => r.body.kind = "offer"
<1>1. e.id # 0 /\ e.st = "on" /\ r \in Responses /\ Notice(e.id, r) /\ e.wait = "held"
  BY WaitsAgain
<1>2. n = IF r.status # 200 THEN Refused(f)
          ELSE IF r.from = f.id THEN OnNotice(f, r.body)
          ELSE IF r.body.kind = "hangup_confirm" THEN OnPeerDisconnected(f, r.from)
          ELSE OnMessageFromPeer(f, r.from, r.body.kind)
  BY <1>1 DEF OnHangingGetRead
<1>3. /\ f \in ClientType /\ f.note = <<>> /\ f.wait = "asked"
      /\ f.st = e.st /\ f.id = e.id /\ f.peers = e.peers /\ f.ctl = e.ctl
      /\ f.reply = e.reply /\ f.stray = e.stray
      /\ f.dead = e.dead /\ f.left = e.left /\ f.again = e.again /\ f.peer = e.peer
      /\ f.pc = e.pc /\ f.jobs = e.jobs /\ f.gather = e.gather /\ f.pending = e.pending
      /\ Apt(f)
  BY WaitsAgain
<1> HIDE DEF f, n, r
<1> SUFFICES Goal
  BY DEF n, r
<1>4. /\ \A x \in Asked(e) : Rightly(x, T, S, K, E)
      /\ Seen(e, S, K, E) /\ Control(e, K) /\ Gone(e, K) /\ Calls(e, T, K)
  BY DEF Caller, Sound
<1>5. Asked(f) = Asked(e) /\ Given(f) = {} /\ Given(e) = {} /\ Mine(f) = Mine(e) /\ Mine(e) = {e.id}
  BY <1>1, <1>3 DEF Asked, Given, Mine
<1>6. Seen(f, S, K, E) /\ Control(f, K) /\ Gone(f, K)
  BY <1>3, <1>4, <1>5 DEF Seen, Control, Gone
<1>7. Caller(f, T, S, K, E)
  BY <1>3, <1>4, <1>5, <1>6 DEF Caller, Sound, Calls, Open
<1>8. Heard(e.id, r, S, E) /\ (~e.pc /\ Word(e.id, r) => r.body.kind = "offer")
  BY <1>4 DEF Seen, Gone, r
<1>9. (r.status # 200 \/ r.from = e.id) => Stays(e, f)
  BY <1>3, <1>5 DEF Stays, Busy, Worded, Word, r
<1>10. CASE r.status # 200
  <2>1. PICK y : y = NoCall(ClientClose(f))
    OBVIOUS
  <2>2. n = [y EXCEPT !.left = TRUE]
    BY <1>2, <1>10, <2>1 DEF Refused
  <2>3. Caller(n, T, S, K, E) /\ Stays(e, n) /\ ~n.pc
    BY <1>3, <1>4, <1>5, <2>1, <2>2, ClosedCaller
  <2> QED
    BY <2>3
<1>11. CASE r.status = 200 /\ r.from = e.id
  <2> DEFINE q == First(r.body.ids)
             A == f.peers \cup {q}
             D == f.peers \ {q}
             g == [f EXCEPT !.peers = D]
             h == [f EXCEPT !.peers = A]
  <2>1. q \in Ids
    BY <1>1, <1>11, LeastId, ResponseShape DEF Notice
  <2>2. n = OnNotice(f, r.body)
    BY <1>2, <1>3, <1>11
  <2>3. Stays(e, f)
    BY <1>9, <1>11
  <2>4. A \in SUBSET Ids /\ D \in SUBSET Ids
    BY <1>3, <2>1 DEF ClientType
  <2>5. CASE r.body.kind = "left"
    <3>1. n = OnPeerDisconnected(g, q)
      BY <2>2, <2>5 DEF OnNotice
    <3> HIDE DEF q
    <3>2. /\ g \in ClientType /\ g.peers = D
          /\ g.st = f.st /\ g.id = f.id /\ g.ctl = f.ctl /\ g.reply = f.reply
          /\ g.wait = f.wait /\ g.note = f.note /\ g.stray = f.stray
          /\ g.dead = f.dead /\ g.left = f.left /\ g.again = f.again /\ g.peer = f.peer
          /\ g.pc = f.pc /\ g.jobs = f.jobs /\ g.gather = f.gather /\ g.pending = f.pending
      BY <1>3, <2>4 DEF ClientType
    <3> HIDE DEF g
    <3>3. Apt(g)
      BY <1>1, <1>3, <3>2, PeersApt
    <3>4. Caller(g, T, S, K, E) /\ Stays(f, g)
      BY <1>5, <1>7, <3>2, PeersCaller
    <3>5. Stays(e, g)
      BY <1>3, <2>3, <3>4, StaysThen
    <3> QED
      BY <1>3, <3>1, <3>2, <3>3, <3>4, <3>5, DisconnectedCaller
  <2>6. CASE r.body.kind # "left"
    <3>1. n = h
      BY <2>2, <2>6 DEF OnNotice
    <3>2. q \in E
      BY <1>8, <1>11, <2>6 DEF Heard
    <3> HIDE DEF q
    <3>3. /\ h \in ClientType /\ h.peers = A
          /\ h.st = f.st /\ h.id = f.id /\ h.ctl = f.ctl /\ h.reply = f.reply
          /\ h.wait = f.wait /\ h.note = f.note /\ h.stray = f.stray
          /\ h.dead = f.dead /\ h.left = f.left /\ h.again = f.again /\ h.peer = f.peer
          /\ h.pc = f.pc /\ h.jobs = f.jobs /\ h.gather = f.gather /\ h.pending = f.pending
      BY <1>3, <2>4 DEF ClientType
    <3> HIDE DEF h
    <3>4. h.peers \subseteq f.peers \cup E
      BY <3>2, <3>3
    <3>5. Caller(h, T, S, K, E) /\ Stays(f, h)
      BY <1>7, <3>3, <3>4, PeersCaller
    <3>6. Stays(e, h)
      BY <1>3, <2>3, <3>5, StaysThen
    <3> QED
      BY <1>3, <3>1, <3>3, <3>5, <3>6
  <2> QED
    BY <2>5, <2>6
<1>12. CASE r.status = 200 /\ r.from # e.id
  <2>1. Word(e.id, r)
    BY <1>12 DEF Word
  <2>2. r.from \in S /\ n = OnMessageFromPeer(f, r.from, r.body.kind)
    BY <1>2, <1>3, <1>8, <1>12, <2>1 DEF Heard
  <2>3. CASE f.pc /\ r.from # f.peer
    <3>1. n = f
      BY <2>2, <2>3 DEF OnMessageFromPeer
    <3>2. Stays(e, f)
      BY <1>3, <1>5, <2>3 DEF Stays, Busy
    <3> QED
      BY <1>3, <1>7, <2>3, <3>1, <3>2
  <2>4. CASE ~(f.pc /\ r.from # f.peer)
    <3> DEFINE J == IF r.body.kind = "offer" THEN Append(f.jobs, "answer") ELSE f.jobs
    <3>1. n = [f EXCEPT !.pc = TRUE, !.peer = r.from, !.jobs = J]
      BY <2>2, <2>4 DEF OnMessageFromPeer
    <3> HIDE DEF J
    <3>2. /\ n.note = <<>> /\ n.peer = r.from /\ n.pc = TRUE
          /\ n.st = f.st /\ n.id = f.id /\ n.peers = f.peers /\ n.ctl = f.ctl
          /\ n.reply = f.reply /\ n.stray = f.stray /\ n.left = f.left
          /\ n.gather = f.gather /\ n.pending = f.pending
      BY <1>3, <3>1 DEF ClientType
    <3>3. n.peer = f.peer \/ f.ctl = <<>>
      BY <1>1, <1>3, <1>4, <2>4, <3>2 DEF Calls
    <3>4. Sound(n, T, S, K, E)
      BY <1>7, <2>2, <3>2, <3>3, <1>3, SoundSame DEF Caller
    <3>5. Stays(e, n)
      BY <1>3, <1>5, <3>2 DEF Stays, Busy, Mine, Given
    <3>6. Calls(n, T, K)
      BY <1>3, <1>4, <2>2, <3>2 DEF Calls, Open
    <3>7. ~e.pc => r.body.kind = "offer"
      BY <1>8, <2>1
    <3> QED
      BY <3>4, <3>5, <3>6, <3>7 DEF Caller
  <2> QED
    BY <2>3, <2>4
<1> QED
  BY <1>10, <1>11, <1>12

\* ConnectToServer.
LEMMA ConnectCaller ==
  ASSUME NEW T, NEW S, NEW K, NEW E, NEW e, Apt(e), e.st = "off", NEW a \in BOOLEAN,
         Caller(e, T, S, K, E)
  PROVE  LET n == ConnectToServer([e EXCEPT !.again = a]) IN
         Caller(n, T, S, K, E) /\ Stays(e, n) /\ ~n.pc
<1> DEFINE q == Req("sign_in", 0, 0, "")
           d == [e EXCEPT !.again = a]
           n == ConnectToServer(d)
<1>1. /\ e \in ClientType /\ Alone(e) /\ e.id = 0 /\ e.ctl = <<>> /\ e.reply = <<>>
      /\ e.wait = "none" /\ e.note = <<>> /\ e.peers = {} /\ ~e.pc /\ e.peer = 0
      /\ e.jobs = <<>> /\ ~e.gather /\ e.pending = <<>>
  BY DEF Apt, Alone, Unsigned, Controls, Waits
<1>2. q.op = "sign_in" /\ <<q>> # <<>> /\ <<q>>[1] = q /\ q \in Requests
      /\ <<q>> \in AtMostOne(Requests)
  BY OneIs DEF Req, Requests, Ops
<1>3. /\ d \in ClientType /\ d.st = e.st /\ d.id = 0 /\ d.peers = e.peers
      /\ d.reply = e.reply /\ d.note = e.note /\ d.stray = e.stray
      /\ d.peer = e.peer
      /\ d.pc = e.pc /\ d.jobs = e.jobs /\ d.gather = e.gather /\ d.pending = e.pending
  BY <1>1 DEF ClientType
<1>4. [d EXCEPT !.st = "signing_in", !.left = FALSE].id = 0
  BY <1>3 DEF ClientType
<1> HIDE DEF d
<1>5. n = [[d EXCEPT !.st = "signing_in", !.left = FALSE] EXCEPT !.ctl = <<q>>]
  BY <1>3, <1>4 DEF ConnectToServer, Ask
<1> HIDE DEF q
<1>6. /\ n \in ClientType /\ n.st = "signing_in" /\ n.left = FALSE /\ n.ctl = <<q>>
      /\ n.id = 0 /\ n.peers = e.peers
      /\ n.reply = e.reply /\ n.note = e.note /\ n.stray = e.stray
      /\ n.peer = e.peer
      /\ n.pc = e.pc /\ n.jobs = e.jobs /\ n.gather = e.gather /\ n.pending = e.pending
  BY <1>2, <1>3, <1>5, ZenonT(60) DEF ClientType
<1> HIDE DEF n
<1>7. Given(n) = {} /\ Given(e) = {} /\ Mine(n) = {}
  BY <1>1, <1>6 DEF Given, Mine
<1>8. \A r \in Asked(n) : r \in Asked(e) \/ r = q
  BY <1>2, <1>6, AskedIs DEF Asked
<1>9. \A r \in Asked(n) : Rightly(r, T, S, K, E)
  BY <1>2, <1>8 DEF Caller, Sound, Rightly
<1>10. Seen(n, S, K, E) /\ Control(n, K) /\ Gone(n, K) /\ Calls(n, T, K)
  BY <1>1, <1>2, <1>6, <1>7 DEF Seen, Control, Gone, Calls
<1>11. Stays(e, n)
  BY <1>6, <1>7 DEF Stays
<1> QED
  BY <1>1, <1>6, <1>9, <1>10, <1>11 DEF Caller, Sound, n, d

\* A request that is lost, or a reconnection that comes too late.
LEMMA LessCaller ==
  ASSUME NEW T, NEW S, NEW K, NEW E, NEW e, Caller(e, T, S, K, E), NEW f,
         f.stray \subseteq e.stray,
         f.st = e.st, f.id = e.id, f.peers = e.peers, f.ctl = e.ctl, f.reply = e.reply,
         f.note = e.note, f.left = e.left, f.peer = e.peer, f.pc = e.pc,
         f.jobs = e.jobs, f.gather = e.gather, f.pending = e.pending
  PROVE  Caller(f, T, S, K, E) /\ Stays(e, f)
<1>1. Asked(f) \subseteq Asked(e) /\ Given(f) = Given(e) /\ Mine(f) = Mine(e)
  BY DEF Asked, Given, Mine
<1>2. Seen(f, S, K, E) /\ Control(f, K) /\ Gone(f, K)
  BY <1>1 DEF Caller, Sound, Seen, Control, Gone
<1>3. Calls(f, T, K)
  BY DEF Caller, Calls, Open
<1>4. Stays(e, f)
  BY <1>1 DEF Stays, Busy, Worded
<1> QED
  BY <1>1, <1>2, <1>3, <1>4 DEF Caller, Sound

\* ConnectToPeer, for a member that there has been.
LEMMA ConnectToPeerCaller ==
  ASSUME NEW T, NEW S, NEW K, NEW E, NEW e, Apt(e), Caller(e, T, S, K, E), ~e.pc,
         NEW p \in e.peers
  PROVE  LET n == [e EXCEPT !.pc = TRUE, !.peer = p, !.jobs = Append(@, "offer")] IN
         Caller(n, T, S, K, E) /\ Stays(e, n)
<1> DEFINE n == [e EXCEPT !.pc = TRUE, !.peer = p, !.jobs = Append(@, "offer")]
<1>1. e \in ClientType /\ e.st \in {"on", "out", "out_waiting"} /\ (e.ctl # <<>> => e.ctl[1].op # "sign_in")
  BY DEF Apt, Alone, Unsigned, Controls, ClientType
<1>2. ~e.gather /\ e.jobs = <<>> /\ e.st # "out_waiting" /\ e.pending = <<>>
      /\ (e.st = "on" => e.ctl = <<>>)
  BY DEF Caller, Calls
<1>3. Append(<<>>, "offer") = <<"offer">> /\ <<"offer">>[1] = "offer"
  OBVIOUS
<1>4. /\ n.st = e.st /\ n.id = e.id /\ n.peers = e.peers /\ n.ctl = e.ctl
      /\ n.reply = e.reply /\ n.note = e.note /\ n.stray = e.stray
      /\ n.left = e.left /\ n.peer = p /\ n.pc = TRUE /\ n.jobs = <<"offer">>
      /\ n.gather = e.gather /\ n.pending = e.pending
  BY <1>1, <1>2, <1>3 DEF ClientType
<1> HIDE DEF n
<1>5. e.id \in K => p \in E
  BY DEF Caller, Sound, Seen
<1>6. e.ctl = <<>> \/ e.ctl[1].op # "message"
  BY <1>1, <1>2 DEF Caller, Sound, Control
<1>7. Sound(n, T, S, K, E) /\ Stays(e, n)
  BY <1>4, <1>5, <1>6, SoundSame DEF Caller
<1>8. Calls(n, T, K)
  BY <1>2, <1>3, <1>4 DEF Calls
<1> QED
  BY <1>4, <1>7, <1>8 DEF Caller, n

\* A hang-up or a cut is counted.
LEMMA CutCounts ==
  ASSUME used \in [Uses -> Nat], NEW u \in Uses, Use(u)
  PROVE  NoCut' => u \notin {"drop", "hangup"} /\ NoCut
BY DEF Use, Uses, NoCut

\* A message that puts the client into a call is an offer.
Offered(e, f) ==
  f.pc /\ ~e.pc /\ e.note # <<>> /\ f.note = <<>> => e.note[1].body.kind = "offer"

LEMMA OwnStepCaller ==
  ASSUME NEW T, NEW S, NEW K, NEW E, S \subseteq T, S \subseteq E,
         NEW c \in Clients, Apt(client[c]), used \in [Uses -> Nat], OwnStep(c),
         client[c].pc => client[c].id \in S, Caller(client[c], T, S, K, E)
  PROVE  \E f : /\ Becomes(c, f) /\ Offered(client[c], f)
                /\ NoCut' => Caller(f, T, S, K, E) /\ Stays(client[c], f)
<1> DEFINE e == client[c]
           Goal == \E f : /\ Becomes(c, f) /\ Offered(e, f)
                          /\ NoCut' => Caller(f, T, S, K, E) /\ Stays(e, f)
<1>1. ASSUME NEW f, Becomes(c, f), Caller(f, T, S, K, E) /\ Stays(e, f), Offered(e, f)
      PROVE  Goal
  BY <1>1
<1>2. ASSUME NEW f, Becomes(c, f), f.pc => e.pc, NEW u \in {"drop", "hangup"}, Use(u)
      PROVE  Goal
  BY <1>2, CutCounts DEF Uses, Offered
<1>3. ASSUME ReadControl(c)
      PROVE  Goal
  <2>1. Becomes(c, OnRead(e)) /\ e.reply # <<>>
    BY <1>3 DEF ReadControl
  <2>2. Caller(OnRead(e), T, S, K, E) /\ Stays(e, OnRead(e)) /\ Offered(e, OnRead(e))
    BY <2>1, OnReadCaller, OnReadSignedIn DEF Offered
  <2> QED
    BY <1>1, <2>1, <2>2
<1>4. ASSUME ReadWait(c)
      PROVE  Goal
  <2>1. Becomes(c, OnHangingGetRead(e)) /\ e.note # <<>>
    BY <1>4 DEF ReadWait
  <2>2. /\ Caller(OnHangingGetRead(e), T, S, K, E) /\ Stays(e, OnHangingGetRead(e))
        /\ Offered(e, OnHangingGetRead(e))
    BY <2>1, ReadWaitCaller DEF Offered
  <2> QED
    BY <1>1, <2>1, <2>2
<1>5. ASSUME Described(c)
      PROVE  Goal
  <2> DEFINE f == [e EXCEPT !.jobs = Tail(@)]
             h == SendMessage([f EXCEPT !.gather = TRUE], Head(e.jobs))
  <2>1. e.jobs # <<>> /\ (Becomes(c, h) \/ (Head(e.jobs) = "answer" /\ Becomes(c, f)))
    BY <1>5 DEF Described
  <2>2. ASSUME NEW g, Becomes(c, g), g = h \/ (Head(e.jobs) = "answer" /\ g = f)
        PROVE  Goal
    <3>1. Caller(g, T, S, K, E) /\ Stays(e, g)
      BY <2>1, <2>2, DescribedCaller
    <3>2. e.pc
      BY <2>1 DEF Caller, Calls
    <3> QED
      BY <1>1, <2>2, <3>1, <3>2 DEF Offered
  <2> HIDE DEF f, h
  <2> QED
    BY <2>1, <2>2
<1>6. ASSUME Reconnect(c)
      PROVE  Goal
  <2> DEFINE d == [e EXCEPT !.again = FALSE]
  <2>1. Becomes(c, ConnectToServer(d))
    BY <1>6 DEF Reconnect
  <2>2. e \in ClientType
    BY DEF Apt, Alone
  <2>3. CASE e.st = "off"
    BY <1>1, <2>1, <2>3, ConnectCaller DEF Offered
  <2>4. CASE e.st # "off"
    <3>1. /\ d.stray = e.stray /\ d.st = e.st /\ d.id = e.id /\ d.peers = e.peers /\ d.ctl = e.ctl
          /\ d.reply = e.reply /\ d.note = e.note /\ d.left = e.left /\ d.peer = e.peer
          /\ d.pc = e.pc /\ d.jobs = e.jobs /\ d.gather = e.gather /\ d.pending = e.pending
      BY <2>2 DEF ClientType
    <3>2. ConnectToServer(d) = d
      BY <2>4, <3>1 DEF ConnectToServer
    <3>3. Becomes(c, d)
      BY <2>1, <3>2
    <3> HIDE DEF d
    <3>4. Caller(d, T, S, K, E) /\ Stays(e, d)
      BY <3>1, LessCaller
    <3> QED
      BY <1>1, <3>1, <3>3, <3>4 DEF Offered
  <2> QED
    BY <2>3, <2>4
<1>7. ASSUME Connect(c)
      PROVE  Goal
  <2>1. Becomes(c, ConnectToServer(e)) /\ e.st = "off"
    BY <1>7 DEF Connect
  <2>2. e \in ClientType /\ e.again \in BOOLEAN
    BY DEF Apt, Alone, ClientType
  <2>3. e = [e EXCEPT !.again = e.again]
    BY <2>2 DEF ClientType
  <2>4. Caller(ConnectToServer(e), T, S, K, E) /\ Stays(e, ConnectToServer(e)) /\ ~ConnectToServer(e).pc
    BY <2>1, <2>2, <2>3, ConnectCaller
  <2> QED
    BY <1>1, <2>1, <2>4 DEF Offered
<1>8. ASSUME Disconnect(c)
      PROVE  Goal
  <2>1. Becomes(c, ClientSignOut(e)) /\ e.id # 0
    BY <1>8 DEF Disconnect, DisconnectFromServer
  <2>2. Caller(ClientSignOut(e), T, S, K, E) /\ Stays(e, ClientSignOut(e))
    BY <2>1, SignOutCaller
  <2>3. ClientSignOut(e).pc = e.pc
    BY <2>1, SignOutIs DEF Kept
  <2> QED
    BY <1>1, <2>1, <2>2, <2>3 DEF Offered
<1>9. ASSUME ConnectToPeer(c)
      PROVE  Goal
  <2>1. PICK p \in e.peers :
          Becomes(c, [e EXCEPT !.pc = TRUE, !.peer = p, !.jobs = Append(@, "offer")])
    BY <1>9 DEF ConnectToPeer
  <2> DEFINE f == [e EXCEPT !.pc = TRUE, !.peer = p, !.jobs = Append(@, "offer")]
  <2>2. Becomes(c, f)
    BY <2>1
  <2>3. ~e.pc
    BY <1>9 DEF ConnectToPeer
  <2>4. f.note = e.note
    BY DEF Apt, Alone, ClientType
  <2>5. Caller(f, T, S, K, E) /\ Stays(e, f)
    BY <2>3, ConnectToPeerCaller
  <2> HIDE DEF f
  <2> QED
    BY <1>1, <2>2, <2>4, <2>5 DEF Offered
<1>10. ASSUME UserHangUp(c)
       PROVE  Goal
  <2>1. e.pc /\ Use("hangup") /\ \E f : Becomes(c, f)
    BY <1>10 DEF UserHangUp
  <2> QED
    BY <1>2, <2>1
<1>11. ASSUME OnIceCandidate(c)
       PROVE  Goal
  <2>1. Becomes(c, SendMessage(e, "candidate")) /\ e.gather
    BY <1>11 DEF OnIceCandidate
  <2>2. e.pc /\ Open(e, T, K) /\ "candidate" \in Bodies
    BY <2>1, SessionAssumption DEF Caller, Calls
  <2>3. Caller(SendMessage(e, "candidate"), T, S, K, E) /\ Stays(e, SendMessage(e, "candidate"))
    BY <2>1, <2>2, SendMessageCaller DEF Caller
  <2> QED
    BY <1>1, <2>1, <2>2, <2>3 DEF Offered
<1>12. ASSUME DropClosed(c)
       PROVE  Goal
  <2>1. PICK r \in e.stray : Becomes(c, [e EXCEPT !.stray = @ \ {r}])
    BY <1>12 DEF DropClosed
  <2> DEFINE d == [e EXCEPT !.stray = @ \ {r}]
  <2>2. /\ d.stray \subseteq e.stray /\ d.st = e.st /\ d.id = e.id /\ d.peers = e.peers /\ d.ctl = e.ctl
        /\ d.reply = e.reply /\ d.note = e.note /\ d.left = e.left /\ d.peer = e.peer
        /\ d.pc = e.pc /\ d.jobs = e.jobs /\ d.gather = e.gather /\ d.pending = e.pending
    BY DEF Apt, Alone, ClientType
  <2>3. Becomes(c, d)
    BY <2>1
  <2> HIDE DEF d
  <2>4. Caller(d, T, S, K, E) /\ Stays(e, d)
    BY <2>2, LessCaller
  <2> QED
    BY <1>1, <2>2, <2>3, <2>4 DEF Offered
<1>13. ASSUME LoseWait(c)
       PROVE  Goal
  <2>1. PICK f : f = IF e.st = "on" THEN OpenWait(CloseWait(e)) ELSE CloseWait(e)
    OBVIOUS
  <2>2. Use("drop") /\ Becomes(c, f)
    BY <1>13, <2>1 DEF LoseWait
  <2>3. CloseWait(e).pc = e.pc /\ OpenWait(CloseWait(e)).pc = e.pc
    BY DEF CloseWait, OpenWait, Apt, Alone, ClientType
  <2> QED
    BY <1>2, <2>1, <2>2, <2>3
<1>14. ASSUME LoseControl(c)
       PROVE  Goal
  <2> DEFINE d == CloseControl(e)
             g == SendFront(d)
  <2>1. Use("drop") /\ Becomes(c, OnMessageSent(d))
    BY <1>14 DEF LoseControl
  <2>2. Apt(d) /\ d.pc = e.pc
    BY CloseControlFine, CloseControlFields, FineApt DEF Apt, Alone
  <2>3. OnMessageSent(d) = IF g.pc THEN g ELSE [g EXCEPT !.peer = 0]
    BY DEF OnMessageSent
  <2> HIDE DEF d
  <2>4. g.pc = d.pc /\ g \in ClientType
    BY <2>2, SendFrontIs, SendFrontGood DEF Sent, Kept, Good, Fine, Alone
  <2> HIDE DEF g
  <2>5. OnMessageSent(d).pc = e.pc
    BY <2>2, <2>3, <2>4 DEF ClientType
  <2> QED
    BY <1>2, <2>1, <2>5
<1> QED
  BY <1>3, <1>4, <1>5, <1>6, <1>7, <1>8, <1>9, <1>10, <1>11, <1>12, <1>13, <1>14
     DEF OwnStep, ClientStep, UserStep

-----------------------------------------------------------------------------
(***************************************************************************)
(* From one client to all.                                                 *)
(***************************************************************************)
LEMMA SpokeTouched == Spoke \subseteq Touched /\ Spoke \subseteq Ever /\ Touched \subseteq Ever
<1>1. ASSUME NEW p \in Spoke
      PROVE  p \in Touched
  <2>1. \A c \in Clients : p \in Mine(client[c]) => client[c].pc
    BY DEF Spoke, Mine
  <2> QED
    BY <2>1 DEF Spoke, Touched, Busy
<1> QED
  BY <1>1 DEF Spoke, Touched

\* Who is in a call has spoken.
LEMMA Speaks ==
  ASSUME SessInv, NEW c \in Clients, client[c].pc
  PROVE  client[c].id \in Spoke
<1> DEFINE i == client[c].id
<1>1. Alone(client[c]) /\ i # 0 /\ i \in Holds(client[c])
  BY HoldsIs DEF SessInv, ClientsOK, Alone, Unsigned
<1>2. i \in Ever
  BY <1>1 DEF SessInv, IdsOK, Ever
<1>3. ASSUME NEW d \in Clients
      PROVE  i \notin Given(client[d]) /\ (client[d].id = i => client[d].pc)
  <2>1. Alone(client[d])
    BY DEF SessInv, ClientsOK
  <2>2. i \in Given(client[d]) \/ client[d].id = i => i \in Holds(client[d])
    BY <1>1, <2>1, HoldsIs
  <2>3. i \in Given(client[d]) \/ client[d].id = i => c = d
    BY <1>1, <2>2, Owners
  <2>4. Given(client[c]) = {}
    BY <1>1 DEF Given
  <2> QED
    BY <2>3, <2>4
<1> QED
  BY <1>2, <1>3 DEF Spoke

\* More have been touched, have spoken and have been members; those that were
\* no members do not become one.
LEMMA CallerMore ==
  ASSUME NEW T, NEW S, NEW K, NEW E, NEW e, Caller(e, T, S, K, E),
         NEW U, NEW R, NEW L, NEW F, T \subseteq U, S \subseteq R, E \subseteq F,
         e.id \in L => e.id \in K,
         \A r \in Asked(e) : r.id \in L => r.id \in K
  PROVE  Caller(e, U, R, L, F)
<1>1. ASSUME NEW r \in Asked(e)
      PROVE  Rightly(r, U, R, L, F)
  <2>1. Rightly(r, T, S, K, E)
    BY DEF Caller, Sound
  <2> QED
    BY <2>1 DEF Rightly
<1>2. Seen(e, R, L, F)
  BY DEF Caller, Sound, Seen, Heard
<1>3. Control(e, L) /\ Gone(e, L)
  BY DEF Caller, Sound, Control, Gone
<1>4. Calls(e, U, L)
  BY DEF Caller, Calls, Open
<1> QED
  BY <1>1, <1>2, <1>3, <1>4 DEF Caller, Sound

LEMMA BoxMore ==
  ASSUME NEW i, NEW m, NEW T, NEW S, NEW E, Box(i, m, T, S, E),
         NEW U, NEW R, NEW F, T \subseteq U, S \subseteq R, E \subseteq F
  PROVE  Box(i, m, U, R, F)
BY DEF Box, Heard

LEMMA OwnStepOpens ==
  ASSUME SessInv, CallInv, NoCut, NoCut', NEW c \in Clients, NEW f, Becomes(c, f),
         UNCHANGED channel, Caller(f, Touched, Spoke, DOMAIN members_, Ever),
         Stays(client[c], f)
  PROVE  CallInv'
<1>1. PICK e, T, S, K, E :
        /\ e = client[c] /\ T = Touched /\ S = Spoke /\ K = DOMAIN members_ /\ E = Ever
  OBVIOUS
<1>2. PICK U, R : U = Touched' /\ R = Spoke'
  OBVIOUS
<1>3. /\ K = DOMAIN members_' /\ E = Ever' /\ members_' = members_
      /\ Caller(f, T, S, K, E) /\ Stays(e, f)
      /\ \A d \in Clients : client'[d] = IF d = c THEN f ELSE client[d]
  BY <1>1 DEF channel, Ever, Becomes, SessInv, ServerOK
<1>4. T \subseteq U
  <2>1. ASSUME NEW p \in T
        PROVE  p \in Touched'
    <3>1. p \in Ever' /\ (Known(p)' => Known(p))
      BY <1>1, <1>3, <2>1 DEF Touched, Known
    <3>2. ASSUME Known(p)', NEW d \in Clients, p \in Mine(client'[d])
          PROVE  Busy(client'[d], p) \/ Calling(p, members_'[p].queue)
      <4>1. CASE d = c
        <5>1. client'[d] = f /\ p \in Mine(e)
          BY <1>3, <3>2, <4>1 DEF Stays
        <5>2. Busy(e, p) \/ Calling(p, members_[p].queue)
          BY <1>1, <3>1, <3>2, <5>1, <2>1 DEF Touched
        <5> QED
          BY <1>3, <3>2, <5>1, <5>2 DEF Stays
      <4>2. CASE d # c
        BY <1>1, <1>3, <3>1, <3>2, <4>2, <2>1 DEF Touched
      <4> QED
        BY <4>1, <4>2
    <3> QED
      BY <3>1, <3>2 DEF Touched
  <2> QED
    BY <1>2, <2>1
<1>5. S \subseteq R
  <2>1. ASSUME NEW p \in S
        PROVE  p \in Spoke'
    <3>1. p \in Ever' /\ p # 0
      <4>1. p \in Ever
        BY <1>1, <2>1, SpokeTouched
      <4>2. p # 0
        BY <4>1 DEF Ever
      <4> QED
        BY <1>1, <1>3, <4>1, <4>2
    <3>2. \A d \in Clients : p \notin Given(client[d]) /\ (client[d].id = p => client[d].pc)
      BY <1>1, <2>1 DEF Spoke
    <3>3. p \notin Given(f) /\ (f.id = p => f.pc)
      BY <1>1, <1>3, <3>1, <3>2 DEF Stays, Mine
    <3> QED
      BY <1>3, <3>1, <3>2, <3>3 DEF Spoke
  <2> QED
    BY <1>2, <2>1
<1>6. ASSUME NEW d \in Clients
      PROVE  Caller(client'[d], U, R, K, E)
  <2>1. PICK g : g = client'[d]
    OBVIOUS
  <2>2. Caller(g, T, S, K, E)
    BY <1>1, <1>3, <2>1 DEF CallInv
  <2>3. Caller(g, U, R, K, E)
    BY <1>4, <1>5, <2>2, CallerMore
  <2> QED
    BY <2>1, <2>3
<1>7. ASSUME NEW i \in K
      PROVE  Box(i, members_[i], U, R, E)
  <2>1. Box(i, members_[i], T, S, E)
    BY <1>1 DEF CallInv, Boxes
  <2> QED
    BY <1>4, <1>5, <2>1, BoxMore
<1>8. Opening'
  <2>1. ASSUME NEW d \in Clients, NEW i \in Mine(client'[d]) \cap K
        PROVE  Busy(client'[d], i) \/ Opens(i, members_[i].queue)
    <3>1. CASE d = c
      BY <1>1, <1>3, <2>1, <3>1 DEF CallInv, Opening, Stays
    <3>2. CASE d # c
      BY <1>1, <1>3, <2>1, <3>2 DEF CallInv, Opening
    <3> QED
      BY <3>1, <3>2
  <2> QED
    BY <1>3, <2>1 DEF Opening
<1>9. Boxes'
  BY <1>2, <1>3, <1>7 DEF Boxes
<1> QED
  BY <1>2, <1>3, <1>6, <1>8, <1>9 DEF CallInv

-----------------------------------------------------------------------------
(***************************************************************************)
(* What the server's steps do to the calls.                                *)
(***************************************************************************)
Handles(D, out, s, reply, r) ==
  Serves(D, out, s, reply) /\ Relays(r, D, out) /\ Requested(s, r) /\ D \subseteq Ever'

LEMMA EverGrows ==
  ASSUME SessInv, NEW D, NEW out, NEW s, NEW reply, Serves(D, out, s, reply)
  PROVE  /\ Ever \subseteq Ever' /\ s_member_id_ + 1 \notin Ever /\ DOMAIN members_ \subseteq Ever
         /\ 0 \notin Ever /\ 0 \notin Ever'
         /\ \A i \in D : i \in DOMAIN members_ \/ i = s_member_id_ + 1
         /\ \A c \in Clients : Mine(client[c]) \subseteq Ever /\ Mine(client[c]) \subseteq Holds(client[c])
<1>1. s_member_id_ \in Nat /\ s_member_id_' \in {s_member_id_, s_member_id_ + 1}
  BY ChannelAssumption DEF SessInv, ServerOK, ChannelTypeOK, Serves
<1>2. /\ Ever \subseteq Ever' /\ s_member_id_ + 1 \notin Ever /\ DOMAIN members_ \subseteq Ever
      /\ 0 \notin Ever /\ 0 \notin Ever'
  BY <1>1 DEF SessInv, ServerOK, ChannelTypeOK, Ever
<1>3. ASSUME NEW c \in Clients
      PROVE  Mine(client[c]) \subseteq Ever /\ Mine(client[c]) \subseteq Holds(client[c])
  BY DEF Mine, Holds, SessInv, IdsOK, Ever
<1>4. \A i \in D : i \in DOMAIN members_ \/ i = s_member_id_ + 1
  BY DEF Serves
<1> QED
  BY <1>2, <1>3, <1>4

\* The ids under which a client reads, after a step of the server.
LEMMA MineServed ==
  ASSUME NEW D, NEW out, NEW s, NEW reply, Serves(D, out, s, reply), NEW c \in Clients
  PROVE  /\ \A i \in Given(client'[c]) :
              \/ i \in Given(client[c]) /\ client'[c].reply = client[c].reply
              \/ i = s_member_id_ + 1 /\ client'[c].reply[1].body.ids = D
         /\ Mine(client'[c]) \subseteq Mine(client[c]) \cup {s_member_id_ + 1}
<1>1. PICK e, f : e = client[c] /\ f = client'[c]
  OBVIOUS
<1>2. PICK new : new = s_member_id_ + 1
  OBVIOUS
<1>3. f.id = e.id /\ (f.reply = e.reply \/ Replied(e, f, D, reply))
  BY <1>1 DEF Serves, Same
<1>4. ASSUME Replied(e, f, D, reply), e.id = 0
      PROVE  f.reply[1].from = new /\ f.reply[1].body.ids = D
  BY <1>2, <1>4 DEF Replied, Response, Body
<1>5. \A i \in Given(f) :
         \/ i \in Given(e) /\ f.reply = e.reply
         \/ i = new /\ f.reply[1].body.ids = D
  BY <1>3, <1>4 DEF Given
<1>6. Mine(f) \subseteq Mine(e) \cup {new}
  BY <1>3, <1>5 DEF Mine
<1> QED
  BY <1>1, <1>2, <1>5, <1>6

LEMMA BusyServed ==
  ASSUME NEW D, NEW out, NEW s, NEW reply, Serves(D, out, s, reply), NEW c \in Clients,
         NEW i, Busy(client[c], i)
  PROVE  Busy(client'[c], i)
<1>1. PICK e, f : e = client[c] /\ f = client'[c]
  OBVIOUS
<1>2. f.pc = e.pc /\ f.left = e.left /\ (e.note # <<>> => f.note = e.note)
  BY <1>1 DEF Serves, Same, Posts, Held
<1>3. Busy(f, i)
  BY <1>1, <1>2 DEF Busy, Worded
<1> QED
  BY <1>1, <1>3

\* The queue of a member after a step of the server.
LEMMA QueueServed ==
  ASSUME SessInv, NEW D, NEW out, NEW s, NEW reply, Serves(D, out, s, reply),
         NEW i \in D \cap DOMAIN members_
  PROVE  \/ members_'[i].queue = members_[i].queue
         \/ /\ i \in DOMAIN out /\ members_[i].waiting = NoSocket
            /\ members_'[i].queue = Append(members_[i].queue, out[i])
BY DEF Serves, Outcome

LEMMA MembersIs ==
  ASSUME SessInv, NEW i \in DOMAIN members_
  PROVE  /\ members_[i].queue \in Seq(Responses)
         /\ members_[i].waiting # NoSocket => members_[i].queue = <<>>
BY DEF SessInv, ServerOK, ChannelTypeOK, MemberType, Orderly, Empty

LEMMA CallingMore ==
  ASSUME NEW i, NEW q \in Seq(Responses), NEW x
  PROVE  /\ Calling(i, q) => Calling(i, Append(q, x))
         /\ Word(i, x) => Calling(i, Append(q, x))
<1>1. Len(Append(q, x)) = Len(q) + 1 /\ Append(q, x)[Len(q) + 1] = x /\ Len(q) \in Nat
  OBVIOUS
<1>2. \A k \in 1 .. Len(q) : Append(q, x)[k] = q[k] /\ k \in 1 .. Len(q) + 1
  OBVIOUS
<1> QED
  BY <1>1, <1>2 DEF Calling

LEMMA TouchedServed ==
  ASSUME SessInv, NEW D, NEW out, NEW s, NEW reply, Serves(D, out, s, reply)
  PROVE  Touched \subseteq Touched'
<1> SUFFICES ASSUME NEW p \in Touched PROVE p \in Touched'
  OBVIOUS
<1>1. p \in Ever /\ p \in Ever' /\ p # s_member_id_ + 1
  BY EverGrows DEF Touched
<1>2. ASSUME Known(p)', NEW c \in Clients, p \in Mine(client'[c])
      PROVE  Busy(client'[c], p) \/ Calling(p, members_'[p].queue)
  <2>1. p \in D \cap DOMAIN members_
    BY <1>1, <1>2, EverGrows DEF Serves, Outcome, Known
  <2>2. p \in Mine(client[c])
    BY <1>1, <1>2, MineServed
  <2>3. CASE Busy(client[c], p)
    BY <2>3, BusyServed
  <2>4. CASE Calling(p, members_[p].queue)
    <3>1. PICK q : q = members_[p].queue
      OBVIOUS
    <3>2. q \in Seq(Responses) /\ Calling(p, q)
      BY <2>1, <2>4, <3>1, MembersIs
    <3>3. members_'[p].queue = q \/ members_'[p].queue = Append(q, out[p])
      BY <2>1, <3>1, QueueServed
    <3> QED
      BY <3>2, <3>3, CallingMore
  <2> QED
    BY <2>1, <2>2, <2>3, <2>4 DEF Touched, Known
<1> QED
  BY <1>1, <1>2 DEF Touched

LEMMA SpokeServed ==
  ASSUME SessInv, NEW D, NEW out, NEW s, NEW reply, Serves(D, out, s, reply)
  PROVE  Spoke \subseteq Spoke'
<1> SUFFICES ASSUME NEW p \in Spoke PROVE p \in Spoke'
  OBVIOUS
<1>1. p \in Ever /\ p \in Ever' /\ p # s_member_id_ + 1
  BY EverGrows DEF Spoke
<1>2. ASSUME NEW c \in Clients
      PROVE  p \notin Given(client'[c]) /\ (client'[c].id = p => client'[c].pc)
  <2>1. p \notin Given(client[c]) /\ (client[c].id = p => client[c].pc)
    BY DEF Spoke
  <2>2. client'[c].id = client[c].id /\ client'[c].pc = client[c].pc
    BY DEF Serves, Same
  <2> QED
    BY <1>1, <2>1, <2>2, MineServed
<1> QED
  BY <1>1, <1>2 DEF Spoke

-----------------------------------------------------------------------------
\* A message that the step posts or drops is one that a client may send.
LEMMA RequestRight ==
  ASSUME SessInv, CallInv, NoCut, NEW s, NEW r, Requested(s, r)
  PROVE  /\ r.op # "hangup"
         /\ r.op = "message" =>
              /\ r.id \in Spoke /\ r.body \in Bodies
              /\ Known(r.id) => r.to \in Ever /\ (r.body = "offer" \/ r.to \in Touched)
<1>1. CASE r.op = "timeout"
  BY <1>1
<1>2. CASE \E c \in Clients : r \in Asked(client[c])
  <2>1. PICK c \in Clients : r \in Asked(client[c])
    BY <1>2
  <2>2. Rightly(r, Touched, Spoke, DOMAIN members_, Ever)
    BY <2>1 DEF CallInv, Caller, Sound
  <2>3. r \in Requests /\ (r.op = "message" => r.body # "")
    BY <2>1, RequestsAre DEF SessInv, ClientsOK
  <2>4. r.op = "message" => r.body \in Bodies
    BY <2>3 DEF Requests
  <2> QED
    BY <2>2, <2>4 DEF Rightly, Known
<1> QED
  BY <1>1, <1>2 DEF Requested

LEMMA WordServed ==
  ASSUME SessInv, CallInv, NoCut, NEW D, NEW out, NEW s, NEW reply, NEW r,
         Handles(D, out, s, reply, r), NEW i \in DOMAIN out, Word(i, out[i])
  PROVE  /\ r.op = "message" /\ i = r.to /\ r.to # r.id /\ Known(r.id)
         /\ out[i].from = r.id /\ out[i].body.kind = r.body
         /\ r.id \in Spoke /\ r.body \in Bodies /\ r.to \in Ever
         /\ r.body = "offer" \/ i \in Touched
<1>1. r.op = "message"
  BY RequestRight DEF Handles, Relays, Word
<1>2. Relayed(r, i, out[i])
  BY <1>1 DEF Handles, Relays
<1> QED
  BY <1>1, <1>2, RequestRight DEF Handles, Relayed

LEMMA HeardServed ==
  ASSUME SessInv, CallInv, NoCut, NEW D, NEW out, NEW s, NEW reply, NEW r,
         Handles(D, out, s, reply, r), NEW i \in D \cap DOMAIN members_ \cap DOMAIN out
  PROVE  Heard(i, out[i], Spoke', Ever')
<1>1. ASSUME Word(i, out[i])
      PROVE  out[i].from \in Spoke' /\ out[i].body.kind # "hangup_confirm"
  BY <1>1, WordServed, SpokeServed, ChannelAssumption DEF Handles
<1>2. ASSUME out[i].from = i, out[i].body.kind # "left"
      PROVE  First(out[i].body.ids) \in Ever'
  BY <1>2 DEF Handles, Serves, Fits
<1> QED
  BY <1>1, <1>2 DEF Heard

\* Whom the step sends a message, or refuses one, has been touched by then.
LEMMA ToServed ==
  ASSUME SessInv, CallInv, NoCut, NEW D, NEW out, NEW s, NEW reply, NEW r,
         Handles(D, out, s, reply, r), r.op = "message", Known(r.id)
  PROVE  r.to \in Touched'
<1> DEFINE p == r.to
<1>1. /\ r.id \in Spoke /\ p \in Ever
      /\ Serves(D, out, s, reply) /\ Relays(r, D, out)
  BY RequestRight DEF Handles
<1>2. CASE ~Known(p) \/ p = r.id
  BY <1>1, <1>2, TouchedServed, SpokeTouched DEF Touched
<1>3. CASE Known(p) /\ InCall(members_[p])
  BY <1>1, <1>3, TouchedServed DEF CallInv, Boxes, Box, Known, InCall
<1>4. CASE Known(p) /\ p \in DOMAIN out
  <2>1. Word(p, out[p])
    BY <1>1, <1>4 DEF Relays, Relayed, Word
  <2>2. ASSUME Known(p)', NEW d \in Clients, p \in Mine(client'[d])
        PROVE  Busy(client'[d], p) \/ Calling(p, members_'[p].queue)
    <3>1. p \in D \cap DOMAIN members_ /\ p # s_member_id_ + 1
      <4>1. DOMAIN members_' = D
        BY <1>1 DEF Serves, Outcome
      <4>2. p # s_member_id_ + 1
        BY <1>1, EverGrows
      <4> QED
        BY <1>4, <2>2, <4>1, <4>2 DEF Known
    <3>2. p \in Mine(client[d]) /\ p \in Holds(client[d])
      BY <1>1, <2>2, <3>1, MineServed, EverGrows
    <3>3. CASE members_[p].waiting = NoSocket
      <4>1. members_'[p].queue = Append(members_[p].queue, out[p])
        BY <1>1, <1>4, <3>1, <3>3 DEF Serves, Outcome
      <4> QED
        BY <2>1, <3>1, <4>1, MembersIs, CallingMore
    <3>4. CASE members_[p].waiting # NoSocket
      <4>1. PICK c \in Clients :
              /\ members_[p].waiting = Gets(c, p) /\ p \in Holds(client[c])
              /\ Held(client[c], p) \/ <<p, "held">> \in client[c].dead
        BY <3>1, <3>4, Waiter
      <4>2. c = d
        BY <3>2, <4>1, Owners
      <4>3. CASE Held(client[d], p)
        <5>1. client[d].id = p /\ Posts(d, D, out)
          BY <1>4, <3>1, <4>1, <4>2, <4>3 DEF Posts, Held
        <5>2. client'[d].note = <<out[p]>>
          BY <1>1, <5>1 DEF Serves
        <5> QED
          BY <2>1, <5>2 DEF Busy, Worded
      <4>4. CASE <<p, "held">> \in client[d].dead
        <5>1. Fresh(client[d]) /\ Uncut(client[d])
          BY DEF SessInv, IdsOK, ClientsOK, NoDrop, NoCut
        <5>2. client[d].id = p
          BY <3>2, <4>4, <5>1 DEF Mine, Fresh
        <5>3. client[d].left
          BY <4>4, <5>1, <5>2 DEF Uncut
        <5> QED
          BY <1>1, <5>3, BusyServed DEF Busy
      <4> QED
        BY <4>1, <4>2, <4>3, <4>4
    <3> QED
      BY <3>3, <3>4
  <2>3. p \in Ever'
    BY <1>1, EverGrows
  <2> QED
    BY <2>2, <2>3 DEF Touched
<1> QED
  BY <1>1, <1>2, <1>3, <1>4 DEF Relays

LEMMA AppendAt ==
  ASSUME NEW q \in Seq(Responses), NEW x
  PROVE  /\ Len(q) \in Nat /\ Len(Append(q, x)) = Len(q) + 1 /\ Append(q, x)[Len(q) + 1] = x
         /\ \A k \in 1 .. Len(q) : Append(q, x)[k] = q[k]
         /\ \A k \in 1 .. Len(Append(q, x)) : k \in 1 .. Len(q) \/ k = Len(q) + 1
OBVIOUS

LEMMA BoxesServed ==
  ASSUME SessInv, CallInv, NoCut, NEW D, NEW out, NEW s, NEW reply, NEW r,
         Handles(D, out, s, reply, r)
  PROVE  Boxes'
<1>1. Serves(D, out, s, reply) /\ Relays(r, D, out) /\ DOMAIN members_' = D
  BY DEF Handles, Serves, Outcome
<1>2. ASSUME NEW i \in D, members_'[i].partner # 0
      PROVE  i \in Touched'
  <2>1. CASE i \in DOMAIN members_ /\ InCall(members_[i])
    BY <1>1, <2>1, TouchedServed DEF CallInv, Boxes, Box, InCall
  <2>2. CASE r.op = "message" /\ i \in {r.id, r.to} /\ r.to \in DOMAIN out
    <3>1. Known(r.id) /\ r.id \in Spoke
      BY <1>1, <2>2, RequestRight DEF Handles, Relays, Relayed
    <3> QED
      BY <1>1, <2>2, <3>1, ToServed, SpokeTouched, TouchedServed
  <2> QED
    BY <1>1, <1>2, <2>1, <2>2 DEF Relays, InCall
<1>3. ASSUME NEW i \in D, NEW k \in 1 .. Len(members_'[i].queue)
      PROVE  Heard(i, members_'[i].queue[k], Spoke', Ever')
  <2>1. PICK n : n = members_'[i].queue
    OBVIOUS
  <2>2. CASE i \notin DOMAIN members_
    <3>1. n = <<>>
      BY <1>1, <2>1, <2>2 DEF Serves, Outcome
    <3> QED
      BY <1>3, <2>1, <3>1
  <2>3. CASE i \in DOMAIN members_
    <3>1. PICK q : q = members_[i].queue
      OBVIOUS
    <3>2. PICK S, E : S = Spoke' /\ E = Ever'
      OBVIOUS
    <3>3. \A j \in 1 .. Len(q) : Heard(i, q[j], S, E)
      BY <1>1, <2>3, <3>1, <3>2, SpokeServed, EverGrows DEF CallInv, Boxes, Box, Heard
    <3>4. q \in Seq(Responses)
      BY <2>3, <3>1, MembersIs
    <3>5. CASE n = q
      BY <1>3, <2>1, <3>2, <3>3, <3>5
    <3>6. CASE i \in DOMAIN out /\ n = Append(q, out[i])
      <4>1. Heard(i, out[i], S, E)
        BY <2>3, <3>2, <3>6, HeardServed
      <4>2. PICK x : x = out[i]
        OBVIOUS
      <4>3. n[k] = x \/ \E j \in 1 .. Len(q) : n[k] = q[j]
        BY <1>3, <2>1, <3>4, <3>6, <4>2, AppendAt
      <4> QED
        BY <2>1, <3>2, <3>3, <4>1, <4>2, <4>3
    <3> QED
      BY <1>1, <2>1, <2>3, <3>1, <3>5, <3>6, QueueServed
  <2> QED
    BY <2>2, <2>3
<1> QED
  BY <1>1, <1>2, <1>3 DEF Boxes, Box

\* The first message queued for a member is its caller's offer.
LEMMA OpensMore ==
  ASSUME NEW i, NEW q \in Seq(Responses), Opens(i, q), NEW x,
         Word(i, x) /\ x.body.kind # "offer" => Calling(i, q)
  PROVE  Opens(i, Append(q, x))
<1>1. PICK n : n = Append(q, x)
  OBVIOUS
<1>2. /\ Len(q) \in Nat /\ n[Len(q) + 1] = x
      /\ \A k \in 1 .. Len(q) : n[k] = q[k]
      /\ \A k \in 1 .. Len(n) : k \in 1 .. Len(q) \/ k = Len(q) + 1
  BY <1>1, AppendAt
<1>3. ASSUME NEW k \in 1 .. Len(n), Word(i, n[k]), n[k].body.kind # "offer"
      PROVE  \E j \in 1 .. k - 1 : Word(i, n[j])
  <2>1. CASE k \in 1 .. Len(q)
    <3>1. PICK j \in 1 .. k - 1 : Word(i, q[j])
      BY <1>2, <1>3, <2>1 DEF Opens
    <3>2. j \in 1 .. Len(q)
      BY <1>2, <2>1, <3>1
    <3> QED
      BY <1>2, <3>1, <3>2
  <2>2. CASE k = Len(q) + 1
    <3>1. PICK j \in 1 .. Len(q) : Word(i, q[j])
      BY <1>2, <1>3, <2>2 DEF Calling
    <3>2. j \in 1 .. k - 1
      BY <1>2, <2>2, <3>1
    <3> QED
      BY <1>2, <3>1, <3>2
  <2> QED
    BY <1>2, <2>1, <2>2
<1> QED
  BY <1>1, <1>3 DEF Opens

LEMMA OpeningServed ==
  ASSUME SessInv, CallInv, NoCut, NEW D, NEW out, NEW s, NEW reply, NEW r,
         Handles(D, out, s, reply, r)
  PROVE  Opening'
<1>1. Serves(D, out, s, reply) /\ DOMAIN members_' = D
  BY DEF Handles, Serves, Outcome
<1>2. ASSUME NEW c \in Clients, NEW i \in Mine(client'[c]) \cap D
      PROVE  Busy(client'[c], i) \/ Opens(i, members_'[i].queue)
  <2>1. CASE i \notin DOMAIN members_
    <3>1. members_'[i].queue = <<>>
      BY <1>1, <2>1 DEF Serves, Outcome
    <3> QED
      BY <3>1 DEF Opens
  <2>2. CASE i \in DOMAIN members_
    <3>1. i \in Mine(client[c])
      BY <1>1, <2>2, EverGrows, MineServed
    <3>2. CASE Busy(client[c], i)
      BY <1>1, <3>2, BusyServed
    <3>3. CASE ~Busy(client[c], i)
      <4>1. PICK q : q = members_[i].queue
        OBVIOUS
      <4>2. q \in Seq(Responses) /\ Opens(i, q)
        BY <2>2, <3>1, <3>3, <4>1, MembersIs DEF CallInv, Opening
      <4>3. ASSUME i \in DOMAIN out, Word(i, out[i]), out[i].body.kind # "offer"
            PROVE  Calling(i, q)
        <5>1. i \in Touched
          BY <4>3, WordServed
        <5> QED
          BY <2>2, <3>1, <3>3, <4>1, <5>1 DEF Touched, Known
      <4>4. members_'[i].queue = q \/ (i \in DOMAIN out /\ members_'[i].queue = Append(q, out[i]))
        BY <1>1, <2>2, <4>1, QueueServed
      <4> QED
        BY <4>2, <4>3, <4>4, OpensMore
    <3> QED
      BY <3>2, <3>3
  <2> QED
    BY <2>1, <2>2
<1> QED
  BY <1>1, <1>2 DEF Opening

LEMMA CallerServed ==
  ASSUME SessInv, CallInv, NoCut, NEW D, NEW out, NEW s, NEW reply, NEW r,
         Handles(D, out, s, reply, r), NEW c \in Clients
  PROVE  Caller(client'[c], Touched', Spoke', D, Ever')
<1>1. PICK e, f, T, S, E :
        e = client[c] /\ f = client'[c] /\ T = Touched' /\ S = Spoke' /\ E = Ever'
  OBVIOUS
<1>2. /\ Serves(D, out, s, reply) /\ Relays(r, D, out) /\ Requested(s, r) /\ D \subseteq E
      /\ DOMAIN members_' = D /\ 0 \notin D
  <2>1. Serves(D, out, s, reply) /\ D \subseteq Ever'
    BY DEF Handles
  <2>2. 0 \notin Ever'
    BY <2>1, EverGrows
  <2> QED
    BY <1>1, <2>1, <2>2 DEF Handles, Serves, Outcome
<1>3. Alone(e) /\ Caller(e, Touched, Spoke, DOMAIN members_, Ever)
  BY <1>1 DEF SessInv, ClientsOK, CallInv
<1>4. Caller(e, T, S, D, E)
  <2>1. \A i : i \in Ever /\ i \in D => i \in DOMAIN members_
    BY <1>2, EverGrows
  <2>2. \A i \in Holds(e) : i \in Ever
    BY <1>1 DEF SessInv, IdsOK, Ever
  <2>3. e.id \in D => e.id \in DOMAIN members_
    BY <1>2, <1>3, <2>1, <2>2, HoldsIs
  <2>4. \A q \in Asked(e) : q.id \in D => q.id \in DOMAIN members_
    BY <1>2, <1>3, <2>1, <2>2, HoldsIs
  <2> QED
    BY <1>1, <1>2, <1>3, <2>3, <2>4, TouchedServed, SpokeServed, EverGrows, CallerMore
<1>5. /\ Same(e, f)
      /\ f.note = IF Posts(c, D, out) THEN <<out[e.id]>> ELSE e.note
      /\ IF s = <<c, "control">> THEN Replied(e, f, D, reply) ELSE f.reply = e.reply
  BY <1>1, <1>2 DEF Serves
<1>6. \A q \in Asked(f) : Rightly(q, T, S, D, E)
  BY <1>4, <1>5 DEF Caller, Sound, Asked, Same
<1>7. ASSUME Posts(c, D, out)
      PROVE  /\ e.id \in D \cap DOMAIN members_ \cap DOMAIN out
             /\ members_[e.id].waiting # NoSocket /\ e.wait = "held" /\ e.note = <<>>
  BY <1>1, <1>7, Differ DEF Posts, Held
<1>8. Seen(f, S, D, E)
  <2>1. \A i \in Given(f) : f.reply[1].body.ids \subseteq E
    BY <1>1, <1>2, <1>4, MineServed DEF Caller, Sound, Seen
  <2>2. Posts(c, D, out) => Heard(e.id, out[e.id], S, E)
    BY <1>1, <1>7, HeardServed
  <2>3. f.note # <<>> => Heard(f.id, f.note[1], S, E)
    <3>1. CASE Posts(c, D, out)
      BY <1>5, <2>2, <3>1 DEF Same
    <3>2. CASE ~Posts(c, D, out)
      BY <1>4, <1>5, <3>2 DEF Same, Caller, Sound, Seen
    <3> QED
      BY <3>1, <3>2
  <2> QED
    BY <1>4, <1>5, <2>1, <2>3 DEF Caller, Sound, Seen, Same
<1>9. ASSUME s = <<c, "control">>
      PROVE  e.ctl # <<>> /\ e.ctl[1] = r /\ r.id = e.id
  <2>1. e.ctl # <<>>
    BY <1>5, <1>9 DEF Replied
  <2>2. e.ctl[1] = r
    BY <1>1, <1>2, <1>9 DEF Requested
  <2> QED
    BY <1>3, <2>1, <2>2 DEF Alone, Controls
<1>10. Calls(f, T, D)
  <2>1. ASSUME Open(e, T, D)
        PROVE  Open(f, T, D)
    <3>1. CASE s # <<c, "control">>
      BY <1>5, <2>1, <3>1 DEF Same, Open
    <3>2. CASE s = <<c, "control">> /\ r.op = "message" /\ e.id \in DOMAIN members_
      <4>1. r.to \in T
        BY <1>1, <1>9, <3>2, ToServed DEF Known
      <4>2. r.to = e.peer
        BY <1>4, <1>9, <3>2 DEF Caller, Sound, Control
      <4> QED
        BY <1>5, <4>1, <4>2 DEF Same, Open
    <3>3. CASE s = <<c, "control">> /\ r.op = "message" /\ e.id \notin DOMAIN members_
      <4>1. e.id \notin D
        <5>1. \A i : i \in Ever /\ i \in D => i \in DOMAIN members_
          BY <1>2, EverGrows
        <5>2. e.id = 0 \/ e.id \in Ever
          BY <1>1, <1>3, HoldsIs DEF SessInv, IdsOK, Ever
        <5> QED
          BY <1>2, <3>3, <5>1, <5>2
      <4> QED
        BY <1>5, <4>1 DEF Same, Open
    <3>4. CASE s = <<c, "control">> /\ r.op # "message"
      BY <1>5, <1>9, <2>1, <3>4 DEF Same, Open
    <3> QED
      BY <3>1, <3>2, <3>3, <3>4
  <2> QED
    BY <1>4, <1>5, <2>1 DEF Caller, Calls, Same
<1>11. Control(f, D)
  <2>1. CASE s # <<c, "control">>
    BY <1>4, <1>5, <2>1 DEF Caller, Sound, Control, Same
  <2>2. CASE s = <<c, "control">>
    <3>1. r.op = "sign_out" => e.id \notin D
      BY <1>2, <1>9, <2>2 DEF Relays
    <3> QED
      BY <1>4, <1>5, <1>9, <2>2, <3>1 DEF Caller, Sound, Control, Same
  <2> QED
    BY <2>1, <2>2
<1>12. Gone(f, D)
  <2>1. ASSUME f.note # <<>>, ~f.pc, Word(f.id, f.note[1])
        PROVE  f.note[1].body.kind = "offer"
    <3>1. CASE ~Posts(c, D, out)
      BY <1>4, <1>5, <2>1, <3>1 DEF Caller, Sound, Gone, Same
    <3>2. CASE Posts(c, D, out)
      <4>1. f.note[1] = out[e.id] /\ f.id = e.id /\ ~e.pc
        BY <1>5, <2>1, <3>2 DEF Same
      <4>2. Word(e.id, out[e.id])
        BY <2>1, <4>1
      <4>3. PICK i : i = e.id
        OBVIOUS
      <4>4. out[i].body.kind = r.body /\ (r.body = "offer" \/ i \in Touched)
        BY <1>7, <3>2, <4>2, <4>3, WordServed
      <4>5. ASSUME i \in Touched
            PROVE  FALSE
        <5>1. i \in Mine(client[c])
          BY <1>1, <4>3, <4>5, EverGrows, <1>2 DEF Mine, Touched
        <5>2. Busy(e, i) \/ Calling(i, members_[i].queue)
          BY <1>1, <1>7, <3>2, <4>3, <4>5, <5>1 DEF Touched, Known
        <5>3. ~Calling(i, members_[i].queue)
          <6>1. members_[i].queue = <<>>
            BY <1>7, <3>2, <4>3, MembersIs
          <6> QED
            BY <6>1 DEF Calling
        <5>4. e.left
          BY <1>7, <3>2, <4>1, <5>2, <5>3 DEF Busy, Worded
        <5>5. e.st = "on"
          BY <1>3, <1>7, <3>2, <5>4 DEF Alone, Unsigned, States, ClientType
        <5> QED
          BY <1>3, <1>7, <3>2, <4>1, <5>4, <5>5 DEF Caller, Sound, Gone
      <4> QED
        BY <4>1, <4>3, <4>4, <4>5
    <3> QED
      BY <3>1, <3>2
  <2> QED
    BY <1>4, <1>5, <2>1 DEF Caller, Sound, Gone, Same
<1>13. Caller(f, T, S, D, E)
  BY <1>6, <1>8, <1>10, <1>11, <1>12 DEF Caller, Sound
<1> QED
  BY <1>1, <1>13

\* A handler, or a timeout, keeps what the calls do.
LEMMA ServedOpens ==
  ASSUME SessInv, CallInv, NEW D, NEW out, NEW s, NEW reply, NEW r,
         Serves(D, out, s, reply), Relays(r, D, out), Requested(s, r), ChannelTypeOK'
  PROVE  CallInv' /\ \A c \in Clients : Offered(client[c], client'[c])
<1>1. DOMAIN members_' = D /\ used' = used
  BY DEF Serves, Outcome
<1>2. Handles(D, out, s, reply, r)
  BY <1>1 DEF Handles, ChannelTypeOK, Ever
<1>3. NoCut' => NoCut
  BY <1>1 DEF NoCut
<1>4. CallInv'
  BY <1>1, <1>2, <1>3, BoxesServed, OpeningServed, CallerServed DEF CallInv
<1>5. \A c \in Clients : client'[c].pc = client[c].pc
  BY DEF Serves, Same
<1> QED
  BY <1>4, <1>5 DEF Offered

-----------------------------------------------------------------------------
(***************************************************************************)
(* The hanging get takes what is queued.                                   *)
(***************************************************************************)
SameCall(e, f) ==
  /\ f.st = e.st /\ f.id = e.id /\ f.peers = e.peers /\ f.ctl = e.ctl /\ f.reply = e.reply
  /\ f.stray = e.stray /\ f.peer = e.peer /\ f.pc = e.pc /\ f.jobs = e.jobs
  /\ f.gather = e.gather /\ f.pending = e.pending /\ f.left = e.left

\* The client gets what heads the queue q of its member i.
Reader(e, f, i, q) ==
  e.note = <<>> /\ e.id = i /\ e.wait # "none" /\ q # <<>> /\ f.note = <<Head(q)>>

LEMMA TailAt ==
  ASSUME NEW q \in Seq(Responses), q # <<>>
  PROVE  /\ Head(q) = q[1] /\ Len(q) \in Nat /\ Len(Tail(q)) = Len(q) - 1 /\ 1 \in 1 .. Len(q)
         /\ \A k \in 1 .. Len(Tail(q)) : Tail(q)[k] = q[k + 1] /\ k + 1 \in 1 .. Len(q)
         /\ \A k \in 1 .. Len(q) : k = 1 \/ (k - 1 \in 1 .. Len(Tail(q)) /\ Tail(q)[k - 1] = q[k])
OBVIOUS

LEMMA CallingTail ==
  ASSUME NEW i, NEW q \in Seq(Responses), q # <<>>, Calling(i, q)
  PROVE  Word(i, Head(q)) \/ Calling(i, Tail(q))
<1>1. PICK k \in 1 .. Len(q) : Word(i, q[k])
  BY DEF Calling
<1>2. CASE k = 1
  BY <1>1, <1>2, TailAt
<1>3. CASE k # 1
  BY <1>1, <1>3, TailAt DEF Calling
<1> QED
  BY <1>2, <1>3

LEMMA OpensTail ==
  ASSUME NEW i, NEW q \in Seq(Responses), q # <<>>, Opens(i, q)
  PROVE  /\ Word(i, Head(q)) => Head(q).body.kind = "offer"
         /\ ~Word(i, Head(q)) => Opens(i, Tail(q))
<1>1. Word(i, Head(q)) => Head(q).body.kind = "offer"
  BY TailAt DEF Opens
<1>2. ASSUME ~Word(i, Head(q)), NEW k \in 1 .. Len(Tail(q)), Word(i, Tail(q)[k]),
             Tail(q)[k].body.kind # "offer"
      PROVE  \E j \in 1 .. k - 1 : Word(i, Tail(q)[j])
  <2>1. Tail(q)[k] = q[k + 1] /\ k + 1 \in 1 .. Len(q) /\ k \in Nat
    BY TailAt
  <2>2. PICK j \in 1 .. k : Word(i, q[j])
    BY <1>2, <2>1 DEF Opens
  <2>3. j # 1 /\ j \in 1 .. Len(q)
    BY <1>2, <2>1, <2>2, TailAt
  <2>4. Tail(q)[j - 1] = q[j] /\ j - 1 \in 1 .. k - 1
    BY <2>1, <2>2, <2>3, TailAt
  <2> QED
    BY <2>2, <2>4
<1> QED
  BY <1>1, <1>2 DEF Opens

\* A step that takes at most the head of one queue, for the client that reads
\* it or for one that has left.
LEMMA TakenOpens ==
  ASSUME SessInv, CallInv, NoCut, NEW c \in Clients, NEW i, NEW f, client'[c] = f,
         \A d \in Clients \ {c} : client'[d] = client[d], SameCall(client[c], f),
         s_member_id_' = s_member_id_, DOMAIN members_' = DOMAIN members_,
         \A j \in DOMAIN members_ :
           LET q == members_[j].queue IN
           /\ members_'[j].partner = members_[j].partner
           /\ \/ members_'[j].queue = q
              \/ /\ j = i /\ q # <<>> /\ members_'[j].queue = Tail(q)
                 /\ \/ Reader(client[c], f, i, q)
                    \/ \A d \in Clients : i \in Mine(client[d]) => client[d].left,
         \/ f.note = client[c].note
         \/ client[c].note = <<>> /\ client[c].id # 0 /\ f.note = <<Failed>>
         \/ Known(i) /\ Reader(client[c], f, i, members_[i].queue)
  PROVE  CallInv'
<1>1. PICK e, K, E : e = client[c] /\ K = DOMAIN members_ /\ E = Ever
  OBVIOUS
<1>2. /\ K = DOMAIN members_' /\ E = Ever' /\ SameCall(e, f)
      /\ Caller(e, Touched, Spoke, K, E) /\ Alone(e)
  BY <1>1 DEF Ever, CallInv, SessInv, ClientsOK
<1>3. /\ Given(f) = Given(e) /\ Mine(f) = Mine(e) /\ f.id = e.id /\ f.pc = e.pc /\ f.left = e.left
      /\ Asked(f) = Asked(e)
  BY <1>2 DEF SameCall, Given, Mine, Asked
<1>4. \A d \in Clients : /\ Given(client'[d]) = Given(client[d]) /\ Mine(client'[d]) = Mine(client[d])
                         /\ client'[d].id = client[d].id /\ client'[d].pc = client[d].pc
                         /\ client'[d].left = client[d].left
  BY <1>1, <1>3
<1>5. ASSUME NEW d \in Clients, NEW p, Busy(client[d], p)
      PROVE  Busy(client'[d], p)
  <2>1. client[d].note # <<>> => client'[d].note = client[d].note
    BY <1>1 DEF Reader
  <2> QED
    BY <1>4, <1>5, <2>1 DEF Busy, Worded
\* Who reads the queue of i.
<1>6. ASSUME NEW d \in Clients, i \in Mine(client[d]), Reader(e, f, i, members_[i].queue)
      PROVE  d = c /\ f.note = <<Head(members_[i].queue)>>
  <2>1. i \in Holds(client[d])
    BY <1>6 DEF Mine, Holds
  <2>2. i \in Holds(e)
    BY <1>2, <1>6, HoldsIs DEF Reader
  <2> QED
    BY <1>1, <1>6, <2>1, <2>2, Owners DEF Reader
<1>7. ASSUME NEW j \in K, NEW d \in Clients, j \in Mine(client[d])
      PROVE  LET q == members_[j].queue
                 n == members_'[j].queue
             IN  /\ q \in Seq(Responses)
                 /\ \/ n = q
                    \/ q # <<>> /\ n = Tail(q) /\ client'[d].left
                    \/ q # <<>> /\ n = Tail(q) /\ client'[d].note = <<Head(q)>>
  <2>1. members_[j].queue \in Seq(Responses)
    BY <1>1, MembersIs
  <2> QED
    BY <1>1, <1>4, <1>6, <1>7, <2>1
<1>8. Touched \subseteq Touched'
  <2> SUFFICES ASSUME NEW p \in Touched PROVE p \in Touched'
    OBVIOUS
  <2>1. p \in Ever'
    BY <1>1, <1>2 DEF Touched
  <2>2. ASSUME p \in K, NEW d \in Clients, p \in Mine(client[d])
        PROVE  Busy(client'[d], p) \/ Calling(p, members_'[p].queue)
    <3>1. PICK q, n : q = members_[p].queue /\ n = members_'[p].queue
      OBVIOUS
    <3>2. Busy(client[d], p) \/ Calling(p, q)
      BY <1>1, <2>2, <3>1 DEF Touched, Known
    <3>3. /\ q \in Seq(Responses)
          /\ \/ n = q
             \/ q # <<>> /\ n = Tail(q) /\ client'[d].left
             \/ q # <<>> /\ n = Tail(q) /\ client'[d].note = <<Head(q)>>
      BY <1>7, <2>2, <3>1
    <3>4. CASE Busy(client[d], p)
      BY <1>5, <3>4
    <3>5. CASE Calling(p, q) /\ n = q
      BY <3>1, <3>5
    <3>6. CASE client'[d].left
      BY <3>6 DEF Busy
    <3>7. CASE Calling(p, q) /\ q # <<>> /\ n = Tail(q) /\ client'[d].note = <<Head(q)>>
      <4>1. CASE Word(p, Head(q))
        BY <3>7, <4>1 DEF Busy, Worded
      <4>2. CASE Calling(p, Tail(q))
        BY <3>1, <3>7, <4>2
      <4> QED
        BY <3>3, <3>7, <4>1, <4>2, CallingTail
    <3> QED
      BY <3>2, <3>3, <3>4, <3>5, <3>6, <3>7
  <2> QED
    BY <1>2, <1>4, <2>1, <2>2 DEF Touched, Known
<1>9. Spoke \subseteq Spoke'
  BY <1>1, <1>2, <1>4 DEF Spoke
<1>10. PICK T, S : T = Touched' /\ S = Spoke'
  OBVIOUS
<1>11. ASSUME NEW d \in Clients
       PROVE  Caller(client[d], T, S, K, E)
  <2>1. Caller(client[d], Touched, Spoke, K, E)
    BY <1>1 DEF CallInv
  <2> QED
    BY <1>8, <1>9, <1>10, <2>1, CallerMore
<1>12. ASSUME NEW j \in K
       PROVE  Box(j, members_'[j], T, S, E)
  <2>1. PICK q, n : q = members_[j].queue /\ n = members_'[j].queue
    OBVIOUS
  <2>2. Box(j, members_[j], T, S, E)
    <3>1. Box(j, members_[j], Touched, Spoke, E)
      BY <1>1 DEF CallInv, Boxes
    <3> QED
      BY <1>8, <1>9, <1>10, <3>1, BoxMore
  <2>3. \A k \in 1 .. Len(q) : Heard(j, q[k], S, E)
    BY <2>1, <2>2 DEF Box
  <2>4. q \in Seq(Responses) /\ (n = q \/ (q # <<>> /\ n = Tail(q)))
    BY <1>1, <2>1, MembersIs
  <2>5. \A k \in 1 .. Len(n) : Heard(j, n[k], S, E)
    BY <2>3, <2>4, TailAt
  <2>6. members_'[j].partner # 0 => j \in T
    BY <1>1, <2>2 DEF Box
  <2> QED
    BY <2>1, <2>5, <2>6 DEF Box
<1>13. Boxes'
  BY <1>2, <1>10, <1>12 DEF Boxes
<1>14. Opening'
  <2>1. ASSUME NEW d \in Clients, NEW j \in Mine(client[d]) \cap K
        PROVE  Busy(client'[d], j) \/ Opens(j, members_'[j].queue)
    <3>1. PICK q, n : q = members_[j].queue /\ n = members_'[j].queue
      OBVIOUS
    <3>2. Busy(client[d], j) \/ Opens(j, q)
      BY <1>1, <2>1, <3>1 DEF CallInv, Opening
    <3>3. /\ q \in Seq(Responses)
          /\ \/ n = q
             \/ q # <<>> /\ n = Tail(q) /\ client'[d].left
             \/ q # <<>> /\ n = Tail(q) /\ client'[d].note = <<Head(q)>>
      BY <1>7, <2>1, <3>1
    <3>4. CASE Busy(client[d], j)
      BY <1>5, <3>4
    <3>5. CASE Opens(j, q) /\ n = q
      BY <3>1, <3>5
    <3>6. CASE client'[d].left
      BY <3>6 DEF Busy
    <3>7. CASE Opens(j, q) /\ q # <<>> /\ n = Tail(q) /\ client'[d].note = <<Head(q)>>
      <4>1. CASE Word(j, Head(q))
        BY <3>7, <4>1 DEF Busy, Worded
      <4>2. CASE ~Word(j, Head(q))
        BY <3>1, <3>3, <3>7, <4>2, OpensTail
      <4> QED
        BY <4>1, <4>2
    <3> QED
      BY <3>2, <3>3, <3>4, <3>5, <3>6, <3>7
  <2> QED
    BY <1>2, <1>4, <2>1 DEF Opening
<1>15. Caller(f, T, S, K, E)
  <2>1. Caller(e, T, S, K, E)
    BY <1>1, <1>11
  <2>2. CASE f.note = e.note
    <3>1. \A r \in Asked(f) : Rightly(r, T, S, K, E)
      BY <1>3, <2>1 DEF Caller, Sound
    <3>2. Seen(f, S, K, E)
      BY <1>2, <1>3, <2>1, <2>2 DEF Caller, Sound, Seen, SameCall
    <3>3. Control(f, K) /\ Gone(f, K)
      BY <1>2, <2>1, <2>2 DEF Caller, Sound, Control, Gone, SameCall
    <3>4. Calls(f, T, K)
      BY <1>2, <2>1 DEF Caller, Calls, Open, SameCall
    <3> QED
      BY <3>1, <3>2, <3>3, <3>4 DEF Caller, Sound
  <2>3. ASSUME f.note # e.note
        PROVE  /\ e.note = <<>> /\ f.note # <<>> /\ Heard(f.id, f.note[1], S, E)
               /\ Word(f.id, f.note[1]) /\ ~f.pc => f.note[1].body.kind = "offer"
    <3>1. CASE e.note = <<>> /\ e.id # 0 /\ f.note = <<Failed>>
      <4>1. Failed.status # 200 /\ Failed.from = 0 /\ f.note[1] = Failed
        BY <3>1 DEF Failed, Response
      <4> QED
        BY <1>3, <3>1, <4>1 DEF Heard, Word
    <3>2. CASE Known(i) /\ Reader(e, f, i, members_[i].queue)
      <4>1. PICK q : q = members_[i].queue
        OBVIOUS
      <4>2. /\ i \in K /\ q \in Seq(Responses) /\ q # <<>> /\ f.note = <<Head(q)>>
            /\ e.note = <<>> /\ e.id = i /\ e.wait # "none" /\ i # 0 /\ i \in Mine(e)
        BY <1>1, <1>2, <3>2, <4>1, MembersIs DEF Reader, Known, Mine, Alone, Unsigned
      <4>3. Heard(i, Head(q), S, E)
        <5>1. Box(i, members_[i], Touched, Spoke, E)
          BY <1>1, <4>2 DEF CallInv, Boxes
        <5>2. Box(i, members_[i], T, S, E)
          BY <1>8, <1>9, <1>10, <5>1, BoxMore
        <5> QED
          BY <4>1, <4>2, <5>2, TailAt DEF Box
      <4>4. ASSUME Word(i, Head(q)), ~e.pc
            PROVE  Head(q).body.kind = "offer"
        <5>1. CASE e.left
          <6>1. e.st = "on"
            BY <1>2, <4>2, <5>1 DEF Alone, Unsigned, States, ClientType
          <6> QED
            BY <2>1, <4>2, <4>4, <5>1, <6>1 DEF Caller, Sound, Gone
        <5>2. CASE ~e.left
          <6>1. Opens(i, q)
            BY <1>1, <4>1, <4>2, <4>4, <5>2 DEF CallInv, Opening, Busy, Worded
          <6> QED
            BY <4>2, <4>4, <6>1, OpensTail
        <5> QED
          BY <5>1, <5>2
      <4> QED
        BY <1>3, <4>2, <4>3, <4>4
    <3> QED
      BY <1>1, <2>3, <3>1, <3>2
  <2>4. CASE f.note # e.note
    <3>1. \A r \in Asked(f) : Rightly(r, T, S, K, E)
      BY <1>3, <2>1 DEF Caller, Sound
    <3>2. Seen(f, S, K, E)
      BY <1>2, <1>3, <2>1, <2>3, <2>4 DEF Caller, Sound, Seen, SameCall
    <3>3. Control(f, K)
      BY <1>2, <2>1 DEF Caller, Sound, Control, SameCall
    <3>4. Gone(f, K)
      BY <1>2, <2>1, <2>3, <2>4 DEF Caller, Sound, Gone, SameCall
    <3>5. Calls(f, T, K)
      BY <1>2, <2>1 DEF Caller, Calls, Open, SameCall
    <3> QED
      BY <3>1, <3>2, <3>3, <3>4, <3>5 DEF Caller, Sound
  <2> QED
    BY <2>2, <2>4
<1>16. \A d \in Clients : Caller(client'[d], T, S, K, E)
  BY <1>1, <1>11, <1>15
<1> QED
  BY <1>2, <1>10, <1>13, <1>14, <1>16 DEF CallInv

LEMMA WaitOpens ==
  ASSUME SessInv, CallInv, NoCut, NEW c \in Clients, ServeWait(c)
  PROVE  CallInv' /\ client'[c].pc = client[c].pc
<1>1. PICK e, f, i, N :
        /\ e = client[c] /\ f = client'[c] /\ i = e.id
        /\ N = IF Gets(c, e.id) \in DOMAIN sent' THEN <<sent'[Gets(c, e.id)]>> ELSE <<>>
  OBVIOUS
<1>2. /\ e.wait = "asked" /\ i # 0 /\ Polled(Gets(c, i), i)
      /\ \A d \in Clients \ {c} : client'[d] = client[d]
      /\ f = [e EXCEPT !.wait = "held", !.note = N]
  BY <1>1, ServeWaitIs
<1>3. e \in ClientType /\ e.note = <<>>
  BY <1>1, <1>2 DEF SessInv, ClientsOK, Alone, Waits
<1>4. SameCall(e, f) /\ f.note = N
  <2>1. \A g \in ClientType : \A n :
          LET h == [g EXCEPT !.wait = "held", !.note = n] IN
          /\ h.st = g.st /\ h.id = g.id /\ h.peers = g.peers /\ h.ctl = g.ctl
          /\ h.reply = g.reply /\ h.stray = g.stray /\ h.peer = g.peer /\ h.pc = g.pc
          /\ h.jobs = g.jobs /\ h.gather = g.gather /\ h.pending = g.pending
          /\ h.left = g.left /\ h.note = n
    BY DEF ClientType
  <2> QED
    BY <1>2, <1>3, <2>1 DEF SameCall
<1>5. PICK w : w = Gets(c, i)
  OBVIOUS
<1>6. \/ ~Known(i) /\ N = <<Failed>>
      \/ Known(i) /\ members_[i].queue = <<>> /\ N = <<>> /\ members_'[i].queue = <<>>
      \/ /\ Known(i) /\ members_[i].queue # <<>> /\ N = <<Head(members_[i].queue)>>
         /\ members_'[i].queue = Tail(members_[i].queue)
  <2>1. Polled(w, i) /\ N = IF w \in DOMAIN sent' THEN <<sent'[w]>> ELSE <<>>
    BY <1>1, <1>2, <1>5
  <2> QED
    BY <2>1 DEF Polled
<1>7. /\ s_member_id_' = s_member_id_ /\ DOMAIN members_' = DOMAIN members_
      /\ \A j \in DOMAIN members_ : members_'[j].partner = members_[j].partner
      /\ \A j \in DOMAIN members_ : j # i => members_'[j] = members_[j]
  BY <1>2 DEF Polled
<1>8. Known(i) /\ members_[i].queue # <<>> => Reader(e, f, i, members_[i].queue)
  BY <1>1, <1>2, <1>3, <1>4, <1>6 DEF Reader
<1>9. CallInv'
  <2>1. SameCall(client[c], f) /\ client'[c] = f
    BY <1>1, <1>4
  <2>2. \A j \in DOMAIN members_ :
           LET q == members_[j].queue IN
           /\ members_'[j].partner = members_[j].partner
           /\ \/ members_'[j].queue = q
              \/ /\ j = i /\ q # <<>> /\ members_'[j].queue = Tail(q)
                 /\ \/ Reader(client[c], f, i, q)
                    \/ \A d \in Clients : i \in Mine(client[d]) => client[d].left
    BY <1>1, <1>6, <1>7, <1>8 DEF Known
  <2>3. \/ f.note = client[c].note
        \/ client[c].note = <<>> /\ client[c].id # 0 /\ f.note = <<Failed>>
        \/ Known(i) /\ Reader(client[c], f, i, members_[i].queue)
    BY <1>1, <1>2, <1>3, <1>4, <1>6, <1>8
  <2> QED
    BY <1>2, <1>7, <2>1, <2>2, <2>3, TakenOpens
<1> QED
  BY <1>1, <1>4, <1>9 DEF SameCall

LEMMA DeadWaitOpens ==
  ASSUME SessInv, CallInv, NoCut, NEW c \in Clients, ServeDeadWait(c)
  PROVE  CallInv' /\ client'[c].pc = client[c].pc
<1>1. PICK e : e = client[c]
  OBVIOUS
<1>2. PICK i \in Ids, f \in ClientType :
           /\ <<i, "asked">> \in e.dead \/ <<i, "held">> \in e.dead
           /\ s_member_id_' = s_member_id_ /\ client'[c] = f
           /\ \A d \in Clients \ {c} : client'[d] = client[d]
           /\ f = [e EXCEPT !.dead = f.dead]
           /\ Polled(Gets(c, i), i) \/ CloseSocket(Gets(c, i))
  BY <1>1, ServeDeadWaitIs
<1>3. e \in ClientType /\ Alone(e) /\ Fresh(e) /\ Uncut(e)
  BY <1>1 DEF SessInv, ClientsOK, IdsOK, Alone, NoCut, NoDrop
<1>4. SameCall(e, f) /\ f.note = e.note
  <2>1. PICK S : S = f.dead
    OBVIOUS
  <2>2. f = [e EXCEPT !.dead = S]
    BY <1>2, <2>1
  <2> QED
    BY <1>3, <2>2 DEF SameCall, ClientType
<1>5. ASSUME NEW d \in Clients, i \in Mine(client[d])
      PROVE  client[d].left
  <2>1. i \in Holds(client[d]) /\ i \in Holds(e)
    BY <1>2, <1>3, <1>5, HoldsIs DEF Mine, Holds
  <2>2. d = c
    BY <1>1, <2>1, Owners
  <2>3. \E b \in e.dead : b[1] = i
    BY <1>2
  <2>4. e.id = i
    BY <1>1, <1>3, <1>5, <2>2, <2>3 DEF Mine, Fresh
  <2> QED
    BY <1>1, <1>3, <2>2, <2>3, <2>4 DEF Uncut
<1>6. /\ DOMAIN members_' = DOMAIN members_
      /\ \A j \in DOMAIN members_ :
           /\ members_'[j].partner = members_[j].partner
           /\ \/ members_'[j].queue = members_[j].queue
              \/ /\ j = i /\ members_[j].queue # <<>>
                 /\ members_'[j].queue = Tail(members_[j].queue)
  <2>1. CASE Polled(Gets(c, i), i)
    <3>1. PICK w : w = Gets(c, i)
      OBVIOUS
    <3>2. Polled(w, i)
      BY <2>1, <3>1
    <3> QED
      BY <3>2 DEF Polled, Known
  <2>2. CASE CloseSocket(Gets(c, i))
    BY <2>2, ServingNow, CloseIs
  <2> QED
    BY <1>2, <2>1, <2>2
<1>7. CallInv'
  <2>1. SameCall(client[c], f) /\ f.note = client[c].note
    BY <1>1, <1>4
  <2>2. \A d \in Clients : i \in Mine(client[d]) => client[d].left
    BY <1>5
  <2> QED
    BY <1>2, <1>6, <2>1, <2>2, TakenOpens
<1> QED
  BY <1>1, <1>2, <1>4, <1>7 DEF SameCall

-----------------------------------------------------------------------------
(***************************************************************************)
(* The calls of the session.                                               *)
(***************************************************************************)
LEMMA CutStays ==
  ASSUME SessInv, [SessionNext]_session
  PROVE  NoCut' => NoCut
<1>1. used \in [Uses -> Nat]
  BY DEF SessInv, ServerOK
<1>2. ASSUME NEW u \in Uses, Use(u)
      PROVE  NoCut' => NoCut
  BY <1>1, <1>2, CutCounts
<1>3. ASSUME used' = used
      PROVE  NoCut' => NoCut
  BY <1>3 DEF NoCut
<1>4. ASSUME NEW c \in Clients, ServerStep(c) \/ ClientStep(c) \/ DropClosed(c)
      PROVE  NoCut' => NoCut
  BY <1>3, <1>4
     DEF ServerStep, ServeControl, ServeWait, ServeClosed, ServeDeadWait, Deliver,
         ClientStep, ReadControl, ReadWait, Described, Reconnect, DropClosed
<1>5. ASSUME NEW c \in Clients,
             UserStep(c) \/ OnIceCandidate(c) \/ LoseWait(c) \/ LoseControl(c)
      PROVE  NoCut' => NoCut
  BY <1>2, <1>5
     DEF Uses, UserStep, Connect, Disconnect, ConnectToPeer, UserHangUp, OnIceCandidate,
         LoseWait, LoseControl
<1>6. ASSUME NEW id \in Ids, Expire(id)
      PROVE  NoCut' => NoCut
  BY <1>3, <1>6 DEF Expire, Deliver
<1>7. CASE UNCHANGED session
  BY <1>3, <1>7 DEF session
<1> QED
  BY <1>4, <1>5, <1>6, <1>7 DEF SessionNext, SystemStep

LEMMA CallInvInit == SessionInit => CallInv
<1> SUFFICES ASSUME SessionInit PROVE CallInv
  OBVIOUS
<1>1. DOMAIN members_ = {} /\ \A c \in Clients : client[c] = NewClient
  BY DEF SessionInit, Init
<1>2. /\ NewClient.st = "off" /\ NewClient.id = 0 /\ NewClient.peers = {}
      /\ NewClient.ctl = <<>> /\ NewClient.reply = <<>>
      /\ NewClient.note = <<>> /\ NewClient.stray = {}
      /\ NewClient.peer = 0 /\ ~NewClient.pc /\ NewClient.jobs = <<>> /\ ~NewClient.gather
      /\ NewClient.pending = <<>>
  BY DEF NewClient
<1>3. Asked(NewClient) = {} /\ Given(NewClient) = {}
  BY <1>2 DEF Asked, Given
<1>4. \A T, S, K, E : Caller(NewClient, T, S, K, E)
  BY <1>2, <1>3 DEF Caller, Sound, Seen, Control, Gone, Calls, Open
<1> QED
  BY <1>1, <1>4 DEF CallInv, Boxes, Opening

\* Every step keeps the invariant, and no client enters a call but by an offer.
LEMMA CallInvNext ==
  ASSUME SessInv, CallInv, [SessionNext]_session
  PROVE  CallInv' /\ (NoCut => \A c \in Clients : Offered(client[c], client'[c]))
<1> DEFINE Goal == CallInv' /\ (NoCut => \A c \in Clients : Offered(client[c], client'[c]))
<1>1. ChannelTypeOK'
  BY SessInvNext DEF SessInv, ServerOK
<1>2. ASSUME ~NoCut
      PROVE  Goal
  BY <1>2, CutStays DEF CallInv
<1>3. ASSUME NEW c \in Clients, ServeControl(c) \/ ServeClosed(c)
      PROVE  Goal
  BY <1>1, <1>3, ServeControlServes, ServeClosedServes, ServedOpens
<1>4. ASSUME NEW id \in Ids, Expire(id)
      PROVE  Goal
  BY <1>1, <1>4, ExpireServes, ServedOpens
<1>5. ASSUME NEW c \in Clients, ServeWait(c) \/ ServeDeadWait(c), NoCut
      PROVE  Goal
  <2>1. CallInv' /\ client'[c].pc = client[c].pc
    BY <1>5, WaitOpens, DeadWaitOpens
  <2>2. \A d \in Clients \ {c} : client'[d] = client[d]
    BY <1>5, ServeWaitIs, ServeDeadWaitIs
  <2> QED
    BY <2>1, <2>2 DEF Offered
<1>6. ASSUME NEW c \in Clients, OwnStep(c), NoCut
      PROVE  Goal
  <2>1. /\ Apt(client[c]) /\ used \in [Uses -> Nat] /\ DOMAIN client = Clients
        /\ client[c].pc => client[c].id \in Spoke
        /\ Caller(client[c], Touched, Spoke, DOMAIN members_, Ever)
    BY <1>6, Speaks DEF SessInv, ServerOK, ClientsOK, IdsOK, Apt, CallInv
  <2>2. UNCHANGED channel
    BY <1>6, <2>1, OwnStepIs
  <2>3. PICK T, S, K, E : T = Touched /\ S = Spoke /\ K = DOMAIN members_ /\ E = Ever
    OBVIOUS
  <2>4. S \subseteq T /\ S \subseteq E
    BY <2>3, SpokeTouched
  <2>5. PICK f : /\ Becomes(c, f) /\ Offered(client[c], f)
                 /\ NoCut' => Caller(f, T, S, K, E) /\ Stays(client[c], f)
    BY <1>6, <2>1, <2>3, <2>4, OwnStepCaller
  <2>6. CallInv'
    <3>1. CASE ~NoCut'
      BY <3>1 DEF CallInv
    <3>2. CASE NoCut'
      <4>1. Caller(f, Touched, Spoke, DOMAIN members_, Ever) /\ Stays(client[c], f)
        BY <2>3, <2>5, <3>2
      <4> QED
        BY <1>6, <2>2, <2>5, <3>2, <4>1, OwnStepOpens
    <3> QED
      BY <3>1, <3>2
  <2>7. ASSUME NEW d \in Clients
        PROVE  Offered(client[d], client'[d])
    <3>1. client'[d] = IF d = c THEN f ELSE client[d]
      BY <2>1, <2>5 DEF Becomes
    <3> QED
      BY <2>5, <3>1 DEF Offered
  <2> QED
    BY <2>6, <2>7
<1>7. CASE UNCHANGED session
  <2>1. members_' = members_ /\ s_member_id_' = s_member_id_ /\ client' = client /\ used' = used
    BY <1>7 DEF session, channel
  <2>2. Ever' = Ever /\ Touched' = Touched /\ Spoke' = Spoke /\ (NoCut' <=> NoCut)
    BY <2>1 DEF Ever, Touched, Spoke, Known, NoCut
  <2>3. (Boxes' <=> Boxes) /\ (Opening' <=> Opening)
    BY <2>1, <2>2 DEF Boxes, Opening
  <2>4. CallInv'
    BY <2>1, <2>2, <2>3 DEF CallInv
  <2> QED
    BY <2>1, <2>4 DEF Offered
<1> QED
  BY <1>2, <1>3, <1>4, <1>5, <1>6, <1>7
     DEF SessionNext, SystemStep, ServerStep, OwnStep

\* As long as neither a hang-up nor the network has cut a connection, a client
\* that a message puts into a call is put into it by the offer: the offer is the
\* first thing it hears of its caller (OnMessageFromPeer, webrtc_engine.cc).
THEOREM SessionOpensByOffer == SessionSpec => OfferOpensCall
<1> DEFINE OfferOpens ==
       \A c \in Clients :
         ~client[c].pc /\ client'[c].pc /\ client[c].note # <<>>
           /\ client'[c].note = <<>> /\ used["hangup"] + used["drop"] = 0
           => client[c].note[1].body.kind = "offer"
<1>1. SessInv /\ CallInv /\ [SessionNext]_session => CallInv' /\ [OfferOpens]_session
  <2> SUFFICES ASSUME SessInv, CallInv, [SessionNext]_session
               PROVE  CallInv' /\ OfferOpens
    OBVIOUS
  <2>1. CallInv' /\ (NoCut => \A c \in Clients : Offered(client[c], client'[c]))
    BY CallInvNext
  <2>2. used["hangup"] + used["drop"] = 0 => NoCut
    <3>1. used["hangup"] \in Nat /\ used["drop"] \in Nat
      BY DEF SessInv, ServerOK, Uses
    <3> QED
      BY <3>1 DEF NoCut
  <2> QED
    BY <2>1, <2>2 DEF Offered
<1>2. SessionInit => CallInv
  BY CallInvInit
<1>3. OfferOpensCall <=> [][OfferOpens]_session
  BY PTL DEF OfferOpensCall
<1> HIDE DEF OfferOpens
<1> QED
  BY <1>1, <1>2, <1>3, SessInvAlways, PTL DEF SessionSpec
=============================================================================
