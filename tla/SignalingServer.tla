-------------------------- MODULE SignalingServer --------------------------
(***************************************************************************)
(* The WebSocket signalling server (signaling_server.cc).  One thread runs *)
(* every handler to its end, so each handler is one action.  A handler     *)
(* reads and updates the registry and the two maps between ids and         *)
(* connections, and hands messages to the WebSocket endpoint.              *)
(*                                                                         *)
(* `sent` holds what the latest handler gave the endpoint, per connection  *)
(* and in order.  The endpoint refuses a message for a connection that is  *)
(* no longer open.  A module that composes the server with its clients     *)
(* appends `sent` to the connections' streams.                             *)
(*                                                                         *)
(* Time is counted in the seconds of std::time: last_pong_ is kept as the  *)
(* seconds that have passed since the time the code stores in it.          *)
(***************************************************************************)
EXTENDS Registry, Sequences

CONSTANTS
  Handles,       \* connection handles; a closed one may come back as a new one
  Names,         \* the non-empty names a client may register
  Bodies,        \* what call, answer and candidate messages may carry
  MaxId,         \* bound on next_id_: the server assigns ids 1 .. MaxId
  PingInterval,  \* ping_interval_s_
  PingTimeout,   \* ping_timeout_s_
  PongDelay      \* a reachable client answers a ping within this many seconds

ASSUME IdAssumption == MaxId \in Nat \ {0}

ASSUME TimingAssumption ==
  /\ PingInterval \in Nat \ {0} /\ PingTimeout \in Nat /\ PongDelay \in Nat
  /\ PongDelay < PingInterval /\ PingInterval <= PingTimeout

VARIABLES
  members, names, next_id,   \* ClientRegistry
  id_to_hdl, hdl_to_id,      \* the server's two maps
  last_pong,                 \* last_pong_, as ages
  timer,                     \* seconds until the heartbeat timer fires
  conn,                      \* the endpoint's state of each connection
  reachable,                 \* connections whose client is still there
  pinged,                    \* age of the oldest ping not answered yet
  sent                       \* what the latest handler sent

registry == <<members, names, next_id>>
maps     == <<id_to_hdl, hdl_to_id>>
clock    == <<last_pong, timer, pinged>>
vars     == <<registry, maps, clock, conn, reachable, sent>>

Ids == 1 .. MaxId

\* What a client may write in "to": any id, or none (GetIntField yields 0).
Targets == 0 .. MaxId

\* Bound on ages: every verdict of the heartbeat is reached before it.
AgeCap == PingTimeout + PingInterval + 1

-----------------------------------------------------------------------------
(* Messages to clients.                                                    *)

Welcome(id)        == [type |-> "welcome", id |-> id]
RosterMsg(m)       == [type |-> "roster", peers |-> Roster(m)]
ErrorMsg(code)     == [type |-> "error", code |-> code]
Notice(type, id)   == [type |-> type, from |-> id]

\* StampFrom: a copy of what came in, with the sender's id.
Stamped(type, id, body) == [type |-> type, from |-> id, body |-> body]

\* endpoint_.send drops a message for a connection that is not open.
Send(hs, msg) ==
  [h \in Handles |-> IF h \in hs /\ conn[h] = "open" THEN <<msg>> ELSE <<>>]

s ++ t == [h \in Handles |-> s[h] \o t[h]]

Silence == [h \in Handles |-> <<>>]

SendToHdl(h, msg) == Send({h}, msg)

SendTo(i2h, id, msg) == Send({i2h[i] : i \in {id} \cap DOMAIN i2h}, msg)

BroadcastRoster(i2h, m) == Send(Range(i2h), RosterMsg(m))

-----------------------------------------------------------------------------
Init ==
  /\ members = <<>> /\ names = {} /\ next_id = 1
  /\ id_to_hdl = <<>> /\ hdl_to_id = <<>>
  /\ last_pong = <<>> /\ timer = PingInterval /\ pinged = <<>>
  /\ conn = [h \in Handles |-> "none"]
  /\ reachable = {}
  /\ sent = Silence

(***************************************************************************)
(* Connections.                                                            *)
(***************************************************************************)

\* Mutant of OnOpen: only a registration starts the watch.
OnOpenUnwatched(h) ==
  /\ conn[h] = "none"
  /\ conn' = [conn EXCEPT ![h] = "open"]
  /\ reachable' = reachable \cup {h}
  /\ sent' = Silence
  /\ UNCHANGED <<registry, maps, clock>>

\* OnOpen: the heartbeat watches the connection before anyone registers.
OnOpen(h) ==
  /\ conn[h] = "none"
  /\ conn' = [conn EXCEPT ![h] = "open"]
  /\ reachable' = reachable \cup {h}
  /\ last_pong' = Put(last_pong, h, 0)
  /\ sent' = Silence
  /\ UNCHANGED <<registry, maps, timer, pinged>>

\* DropConnection for a connection that never registered.
DropAnonymous(h) ==
  /\ h \notin DOMAIN hdl_to_id
  /\ sent' = Silence
  /\ UNCHANGED <<registry, maps>>

\* What the mutants of DropClient below leave as in the code.
Dropped(h, id, peer) ==
  /\ id_to_hdl' = Erase(id_to_hdl, id)
  /\ members' = Remove(members, id)
  /\ sent' = SendTo(id_to_hdl', peer, Notice("peer_gone", id))
               ++ BroadcastRoster(id_to_hdl', members')
  /\ UNCHANGED next_id

\* Mutant of DropClient: the name stays taken.
DropKeepsName(h) ==
  /\ h \in DOMAIN hdl_to_id
  /\ hdl_to_id' = Erase(hdl_to_id, h)
  /\ Dropped(h, hdl_to_id[h], GetPeer(members, hdl_to_id[h]))
  /\ UNCHANGED names

\* Mutant of DropClient: the handle keeps its id.
DropKeepsHandle(h) ==
  /\ h \in DOMAIN hdl_to_id
  /\ names' = names \ {members[hdl_to_id[h]].name}
  /\ Dropped(h, hdl_to_id[h], GetPeer(members, hdl_to_id[h]))
  /\ UNCHANGED hdl_to_id

\* Mutant of DropClient: the peer is looked up after Remove has cleared it.
DropReadsPeerLate(h) ==
  /\ h \in DOMAIN hdl_to_id
  /\ hdl_to_id' = Erase(hdl_to_id, h)
  /\ names' = names \ {members[hdl_to_id[h]].name}
  /\ Dropped(h, hdl_to_id[h], NoPeer)

\* DropConnection for a registered client: free its id, name and call.
DropClient(h) ==
  /\ h \in DOMAIN hdl_to_id
  /\ LET id   == hdl_to_id[h]
         peer == GetPeer(members, id)
     IN  /\ hdl_to_id' = Erase(hdl_to_id, h)
         /\ id_to_hdl' = Erase(id_to_hdl, id)
         /\ members' = Remove(members, id)
         /\ names' = names \ {members[id].name}
         /\ sent' = SendTo(id_to_hdl', peer, Notice("peer_gone", id))
                      ++ BroadcastRoster(id_to_hdl', members')
  /\ UNCHANGED next_id

\* OnClose and OnFail: however a connection ends, it is dropped.
OnClose(h) ==
  /\ conn[h] \in {"open", "closing"}
  /\ conn' = [conn EXCEPT ![h] = "none"]
  /\ reachable' = reachable \ {h}
  /\ last_pong' = Erase(last_pong, h)
  /\ pinged' = Erase(pinged, h)
  /\ DropAnonymous(h) \/ DropClient(h)
  /\ UNCHANGED timer

(***************************************************************************)
(* OnMessage.  The endpoint delivers data only while a connection is open. *)
(***************************************************************************)

Receives(h) == conn[h] = "open"

\* Read and dropped: malformed or unknown messages, and whatever a handler
\* below has no answer to.
Ignored(h) ==
  /\ Receives(h)
  /\ sent' = Silence
  /\ UNCHANGED <<registry, maps, clock, conn, reachable>>

\* A registered client's message; what it changes beside sent' is the caller's.
FromClient(h) ==
  /\ Receives(h) /\ h \in DOMAIN hdl_to_id
  /\ UNCHANGED <<names, next_id, maps, clock, conn, reachable>>

\* register under a name in use: only the sender learns of it.
RegisterRefused(h, name) ==
  /\ Receives(h) /\ h \notin DOMAIN hdl_to_id
  /\ name \in names
  /\ sent' = SendToHdl(h, ErrorMsg("name_taken"))
  /\ UNCHANGED <<registry, maps, clock, conn, reachable>>

\* Mutant of RegisterAccepted: a registered client may register again.
RegisterAgain(h, name) ==
  /\ Receives(h)
  /\ name \notin names /\ next_id <= MaxId
  /\ members' = Put(members, next_id, Member(name))
  /\ names' = names \cup {name}
  /\ next_id' = next_id + 1
  /\ id_to_hdl' = Put(id_to_hdl, next_id, h)
  /\ hdl_to_id' = Put(hdl_to_id, h, next_id)
  /\ last_pong' = Put(last_pong, h, 0)
  /\ sent' = SendToHdl(h, Welcome(next_id))
               ++ BroadcastRoster(id_to_hdl', members')
  /\ UNCHANGED <<timer, pinged, conn, reachable>>

\* register: assign the next id, welcome the client, then tell everyone.
RegisterAccepted(h, name) ==
  /\ Receives(h) /\ h \notin DOMAIN hdl_to_id
  /\ name \notin names /\ next_id <= MaxId
  /\ members' = Put(members, next_id, Member(name))
  /\ names' = names \cup {name}
  /\ next_id' = next_id + 1
  /\ id_to_hdl' = Put(id_to_hdl, next_id, h)
  /\ hdl_to_id' = Put(hdl_to_id, h, next_id)
  /\ last_pong' = Put(last_pong, h, 0)
  /\ sent' = SendToHdl(h, Welcome(next_id))
               ++ BroadcastRoster(id_to_hdl', members')
  /\ UNCHANGED <<timer, pinged, conn, reachable>>

Register(h, name) ==
  \/ RegisterRefused(h, name)
  \/ RegisterAccepted(h, name)
  \/ h \in DOMAIN hdl_to_id /\ Ignored(h)

\* call, accepted: the callee gets the stamped call, everyone the new roster.
CallAccepted(h, to, sdp) ==
  /\ FromClient(h)
  /\ CallResult(members, hdl_to_id[h], to) = "ok"
  /\ members' = Pair(members, hdl_to_id[h], to)
  /\ sent' = SendTo(id_to_hdl, to, Stamped("call", hdl_to_id[h], sdp))
               ++ BroadcastRoster(id_to_hdl, members')

\* Mutant of CallRefused: only an absent target is reported.
CallRefusedSilently(h, to) ==
  /\ FromClient(h)
  /\ LET verdict == CallResult(members, hdl_to_id[h], to) IN
       \/ verdict = "target_busy" /\ sent' = Silence
       \/ verdict = "target_offline" /\ sent' = SendToHdl(h, ErrorMsg("offline"))
  /\ UNCHANGED members

\* call, refused because of the target: an error to the caller.
CallRefused(h, to) ==
  /\ FromClient(h)
  /\ LET verdict == CallResult(members, hdl_to_id[h], to) IN
       \/ verdict = "target_busy" /\ sent' = SendToHdl(h, ErrorMsg("busy"))
       \/ verdict = "target_offline" /\ sent' = SendToHdl(h, ErrorMsg("offline"))
  /\ UNCHANGED members

\* A caller that is busy itself hears nothing.
CallIgnored(h, to) ==
  /\ h \in DOMAIN hdl_to_id => CallResult(members, hdl_to_id[h], to) = "caller_busy"
  /\ Ignored(h)

Call(h, to, sdp) ==
  CallAccepted(h, to, sdp) \/ CallRefused(h, to) \/ CallIgnored(h, to)

\* Mutant of Relayed: any client may be addressed.
RelayedAnyone(h, type, to, body) ==
  /\ FromClient(h)
  /\ Has(members, to)
  /\ sent' = SendTo(id_to_hdl, to, Stamped(type, hdl_to_id[h], body))
  /\ UNCHANGED members

\* answer and candidate pass between the two ends of one call only.
Relayed(h, type, to, body) ==
  /\ FromClient(h)
  /\ IsPaired(members, hdl_to_id[h], to)
  /\ sent' = SendTo(id_to_hdl, to, Stamped(type, hdl_to_id[h], body))
  /\ UNCHANGED members

Relay(h, type, to, body) ==
  \/ Relayed(h, type, to, body)
  \/ /\ h \in DOMAIN hdl_to_id => ~IsPaired(members, hdl_to_id[h], to)
     /\ Ignored(h)

\* message: a text for any registered client, in a call or not.
Message(h, to) ==
  /\ FromClient(h)
  /\ sent' = IF Has(members, to)
             THEN SendTo(id_to_hdl, to, Notice("message", hdl_to_id[h]))
             ELSE SendToHdl(h, ErrorMsg("offline"))
  /\ UNCHANGED members

\* Mutant of CallLeft: the roster goes out before the call is cleared.
CallLeftLate(h) ==
  /\ FromClient(h)
  /\ LET self == hdl_to_id[h]
         peer == GetPeer(members, self)
     IN  /\ peer # NoPeer
         /\ members' = Hangup(members, self, peer)
         /\ sent' = (SendToHdl(h, Notice("leave", self))
                      ++ SendTo(id_to_hdl, peer, Notice("leave", self)))
                      ++ BroadcastRoster(id_to_hdl, members)

\* leave: both ends are told, then the call is cleared and the roster sent.
CallLeft(h) ==
  /\ FromClient(h)
  /\ LET self == hdl_to_id[h]
         peer == GetPeer(members, self)
     IN  /\ peer # NoPeer
         /\ members' = Hangup(members, self, peer)
         /\ sent' = (SendToHdl(h, Notice("leave", self))
                      ++ SendTo(id_to_hdl, peer, Notice("leave", self)))
                      ++ BroadcastRoster(id_to_hdl, members')

\* leave outside a call has no effect and no reply.
Leave(h) ==
  \/ CallLeft(h)
  \/ /\ h \in DOMAIN hdl_to_id => GetPeer(members, hdl_to_id[h]) = NoPeer
     /\ Ignored(h)

\* get_roster: a reply to the one who asked.
GetRoster(h) ==
  /\ FromClient(h)
  /\ sent' = SendToHdl(h, RosterMsg(members))
  /\ UNCHANGED members

\* Any message at all; Ignored stands for every one without effect.
OnMessage(h) ==
  \/ \E name \in Names : RegisterRefused(h, name) \/ RegisterAccepted(h, name)
  \/ \E to \in Targets :
       \/ CallRefused(h, to) \/ Message(h, to)
       \/ \E body \in Bodies :
            \/ CallAccepted(h, to, body)
            \/ \E type \in {"answer", "candidate"} : Relayed(h, type, to, body)
  \/ CallLeft(h)
  \/ GetRoster(h)
  \/ Ignored(h)

(***************************************************************************)
(* Heartbeat.                                                              *)
(***************************************************************************)

\* OnPong: a reachable client's stack has answered a ping.
OnPong(h) ==
  /\ conn[h] = "open" /\ h \in reachable /\ h \in DOMAIN pinged
  /\ last_pong' = Put(last_pong, h, 0)
  /\ pinged' = Erase(pinged, h)
  /\ sent' = Silence
  /\ UNCHANGED <<registry, maps, timer, conn, reachable>>

\* Mutant of Overdue: off by one.
OverdueAtTimeout == {h \in DOMAIN last_pong : last_pong[h] >= PingTimeout}

\* OnHeartbeat: ping every connection it watches, then start closing the
\* ones silent for too long.  They stay registered until OnClose.
Overdue == {h \in DOMAIN last_pong : last_pong[h] > PingTimeout}

OnHeartbeat ==
  /\ timer = 0
  /\ timer' = PingInterval
  /\ pinged' = [h \in DOMAIN pinged
                      \cup {g \in DOMAIN last_pong : conn[g] = "open"} |->
                  IF h \in DOMAIN pinged THEN pinged[h] ELSE 0]
  /\ conn' = [h \in Handles |->
                IF h \in Overdue /\ conn[h] = "open" THEN "closing" ELSE conn[h]]
  /\ sent' = Silence
  /\ UNCHANGED <<registry, maps, last_pong, reachable>>

(***************************************************************************)
(* The world around the server.                                            *)
(***************************************************************************)

\* A client disappears without a word: it closes nothing and answers no ping.
\* What it sent before may still arrive.
Vanish(h) ==
  /\ conn[h] = "open" /\ h \in reachable
  /\ reachable' = reachable \ {h}
  /\ sent' = Silence
  /\ UNCHANGED <<registry, maps, clock, conn>>

Older(age, cap) == IF age < cap THEN age + 1 ELSE cap

\* A second passes.  The timer's handler is not late, and no client that is
\* reachable keeps a ping waiting for more than PongDelay.
Tick ==
  /\ timer > 0
  /\ \A h \in DOMAIN pinged :
       conn[h] = "open" /\ h \in reachable => pinged[h] < PongDelay
  /\ timer' = timer - 1
  /\ last_pong' = [h \in DOMAIN last_pong |-> Older(last_pong[h], AgeCap)]
  /\ pinged' = [h \in DOMAIN pinged |-> Older(pinged[h], PongDelay)]
  /\ sent' = Silence
  /\ UNCHANGED <<registry, maps, conn, reachable>>

-----------------------------------------------------------------------------
Next ==
  \/ \E h \in Handles :
       OnOpen(h) \/ OnClose(h) \/ OnMessage(h) \/ OnPong(h) \/ Vanish(h)
  \/ OnHeartbeat
  \/ Tick

Spec == Init /\ [][Next]_vars

-----------------------------------------------------------------------------
(***************************************************************************)
(* Properties.                                                             *)
(***************************************************************************)

MemberRec ==
  [name : Names, state : {"idle", "busy"}, peer_id : {NoPeer} \cup Ids]

RosterEntry == [id : Ids, name : Names, state : {"idle", "busy"}]

ServerMsg ==
       [type : {"welcome"}, id : Ids]
  \cup [type : {"roster"}, peers : SUBSET RosterEntry]
  \cup [type : {"error"}, code : {"name_taken", "busy", "offline"}]
  \cup [type : {"call", "answer", "candidate"}, from : Ids, body : Bodies]
  \cup [type : {"message", "leave", "peer_gone"}, from : Ids]

\* Every variable of the server has its type.
TypeOK ==
  /\ DOMAIN members \subseteq Ids
  /\ members \in [DOMAIN members -> MemberRec]
  /\ names \subseteq Names
  /\ next_id \in 1 .. MaxId + 1
  /\ DOMAIN id_to_hdl \subseteq Ids
  /\ id_to_hdl \in [DOMAIN id_to_hdl -> Handles]
  /\ DOMAIN hdl_to_id \subseteq Handles
  /\ hdl_to_id \in [DOMAIN hdl_to_id -> Ids]
  /\ DOMAIN last_pong \subseteq Handles
  /\ last_pong \in [DOMAIN last_pong -> 0 .. AgeCap]
  /\ timer \in 0 .. PingInterval
  /\ DOMAIN pinged \subseteq Handles
  /\ pinged \in [DOMAIN pinged -> 0 .. PongDelay]
  /\ conn \in [Handles -> {"none", "open", "closing"}]
  /\ reachable \subseteq Handles
  /\ sent \in [Handles -> Seq(ServerMsg)]

\* Calls are one to one.  A busy client is in a call with another registered
\* client that is in a call with it, an idle one with nobody: Call, Hangup and
\* Remove each write both ends, and a drop between them may not leave half.
PairingConsistent ==
  \A a \in DOMAIN members :
    /\ Busy(members, a) <=> members[a].peer_id # NoPeer
    /\ Busy(members, a) => /\ members[a].peer_id # a
                           /\ IsPaired(members, a, members[a].peer_id)

\* The server's two maps are inverse to each other and hold exactly the
\* registered clients, whatever mix of registrations and drops came before:
\* SendTo reaches a client through the first, OnMessage knows it by the second.
MapsConsistent ==
  /\ DOMAIN id_to_hdl = DOMAIN members
  /\ DOMAIN hdl_to_id = Range(id_to_hdl)
  /\ \A i \in DOMAIN id_to_hdl : hdl_to_id[id_to_hdl[i]] = i
  /\ \A h \in DOMAIN hdl_to_id : conn[h] # "none"

\* names_ holds exactly the names in use and no two clients share one, so a
\* name is refused while its owner is registered and is free right after.
NamesConsistent ==
  /\ names = {members[i].name : i \in DOMAIN members}
  /\ \A i, j \in DOMAIN members : members[i].name = members[j].name => i = j

\* The registry, the maps and the names tell the same story: who is registered,
\* over which connection, under which name and in which call.
RegistryConsistent == PairingConsistent /\ MapsConsistent /\ NamesConsistent

\* The heartbeat watches every open connection, registered or not, and none
\* stays open longer than the timeout and one more interval after its client's
\* last sign of life (OnOpen, OnPong and OnHeartbeat together).
SilenceBounded ==
  \A h \in Handles : conn[h] = "open" =>
    h \in DOMAIN last_pong /\ last_pong[h] <= PingTimeout + PingInterval

\* OnHeartbeat never closes the connection of a client that answers its pings.
OnlySilentClosed ==
  [][\A h \in Handles :
       conn[h] = "open" /\ conn'[h] = "closing" => h \notin reachable]_vars

\* Every handler that changes what the roster shows ends by sending the new
\* roster to every registered client that can receive it, as its last message.
RosterBroadcast ==
  [][Roster(members') # Roster(members) =>
       \A h \in DOMAIN hdl_to_id' : conn'[h] = "open" =>
         /\ sent'[h] # <<>>
         /\ sent'[h][Len(sent'[h])] = RosterMsg(members')]_vars

\* The end-of-call notices in one handler's output.
EndNotices(s) == {k \in DOMAIN s : s[k].type \in {"leave", "peer_gone"}}

\* A client that can receive it is told of the end of its call exactly once,
\* when the call ends, by one of the two ends' ids, and never otherwise.
EndOfCallNotified ==
  [][\A h \in DOMAIN hdl_to_id \cap DOMAIN hdl_to_id' :
       LET id     == hdl_to_id[h]
           peer   == members[id].peer_id
           ended  == peer # NoPeer /\ members'[id].peer_id # peer
           notice == EndNotices(sent'[h])
       IN  /\ conn[h] = "open" /\ ended => \E k \in DOMAIN sent'[h] :
                notice = {k} /\ sent'[h][k].from \in {id, peer}
           /\ ~ended => notice = {}]_vars

\* The calls as the registry holds them, each as the set of its two ends.
Calls ==
  {{i, members[i].peer_id} : i \in {j \in DOMAIN members : Busy(members, j)}}

Pairing == INSTANCE CallPairing WITH
  online  <- DOMAIN members,
  retired <- (1 .. next_id - 1) \ DOMAIN members,
  calls   <- Calls

\* The server implements CallPairing: no handler puts a client in two calls,
\* ends one it is not asked to end, keeps a call past the drop of one of its
\* ends or gives an id out twice.
PairingSpec == Pairing!Spec
=============================================================================
