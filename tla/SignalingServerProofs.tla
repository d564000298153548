----------------------- MODULE SignalingServerProofs -----------------------
(***************************************************************************)
(* Proofs about SignalingServer, for any handles, names, bound on ids and  *)
(* timing that meet its assumptions; and, in the second half, about        *)
(* CallSession, the server with its clients, for any callers, callees and  *)
(* bounds.                                                                 *)
(***************************************************************************)
EXTENDS CallSession, SequenceTheorems, TLAPS

-----------------------------------------------------------------------------
(* The registry's operators on any map m of members.                       *)

MembersOK(m) ==
  DOMAIN m \subseteq Ids /\ m \in [DOMAIN m -> MemberRec]

OneToOne(m) ==
  \A a \in DOMAIN m :
    /\ Busy(m, a) <=> m[a].peer_id # NoPeer
    /\ Busy(m, a) => m[a].peer_id # a /\ IsPaired(m, a, m[a].peer_id)

\* Erase keeps every other key.
LEMMA EraseFacts ==
  ASSUME NEW f, NEW k
  PROVE  /\ DOMAIN Erase(f, k) = DOMAIN f \ {k}
         /\ \A x \in DOMAIN f \ {k} : Erase(f, k)[x] = f[x]
BY DEF Erase, Restrict

\* Put and Erase keep the range of a function within a set.
LEMMA MapTypes ==
  ASSUME NEW f, NEW S, f \in [DOMAIN f -> S], NEW k
  PROVE  /\ Erase(f, k) \in [DOMAIN Erase(f, k) -> S]
         /\ \A v \in S : Put(f, k, v) \in [DOMAIN Put(f, k, v) -> S]
BY DEF Erase, Restrict, Put

\* A new member is idle and leaves every call alone.
LEMMA RegisterLemma ==
  ASSUME NEW m, MembersOK(m), OneToOne(m),
         NEW id \in Ids \ DOMAIN m, NEW name \in Names
  PROVE  /\ MembersOK(Put(m, id, Member(name)))
         /\ OneToOne(Put(m, id, Member(name)))
<1> DEFINE n == Put(m, id, Member(name))
<1>1. Member(name) \in MemberRec
  BY DEF Member, MemberRec
<1>2. MembersOK(n)
  BY <1>1 DEF MembersOK, Put
<1>3. \A i \in DOMAIN m : n[i] = m[i] /\ i # id
  BY DEF Put
<1>4. n[id] = Member(name) /\ DOMAIN n = DOMAIN m \cup {id}
  BY DEF Put
<1>5. OneToOne(n)
  <2> SUFFICES ASSUME NEW a \in DOMAIN n
               PROVE  /\ Busy(n, a) <=> n[a].peer_id # NoPeer
                      /\ Busy(n, a) => /\ n[a].peer_id # a
                                       /\ IsPaired(n, a, n[a].peer_id)
    BY DEF OneToOne
  <2>1. CASE a = id
    BY <2>1, <1>4 DEF Busy, Member
  <2>2. CASE a \in DOMAIN m
    BY <2>2, <1>3, <1>4 DEF OneToOne, Busy, IsPaired, Has
  <2> QED BY <2>1, <2>2, <1>4
<1> QED BY <1>2, <1>5

\* A call that is accepted pairs two registered, idle, different clients.
LEMMA CallLemma ==
  ASSUME NEW m, MembersOK(m), OneToOne(m),
         NEW a, NEW b, CallResult(m, a, b) = "ok"
  PROVE  /\ MembersOK(Pair(m, a, b)) /\ OneToOne(Pair(m, a, b))
         /\ DOMAIN Pair(m, a, b) = DOMAIN m
         /\ \A i \in DOMAIN m : Pair(m, a, b)[i].name = m[i].name
         /\ a # b /\ {a, b} \subseteq DOMAIN m /\ ~Busy(m, a) /\ ~Busy(m, b)
<1> DEFINE n == Pair(m, a, b)
<1>1. a # b /\ {a, b} \subseteq DOMAIN m /\ ~Busy(m, a) /\ ~Busy(m, b)
  BY DEF CallResult, Has
<1>2. DOMAIN n = DOMAIN m
  BY DEF Pair
<1>3. \A i \in DOMAIN m : n[i] \in MemberRec /\ n[i].name = m[i].name
  BY <1>1 DEF Pair, PairedWith, MembersOK, MemberRec
<1>4. n \in [DOMAIN n -> MemberRec]
  BY <1>2, <1>3 DEF Pair
<1>5. n[a].state = "busy" /\ n[a].peer_id = b /\ n[b].state = "busy" /\ n[b].peer_id = a
  BY <1>1 DEF Pair, PairedWith, MembersOK, MemberRec
<1>6. \A i \in DOMAIN m \ {a, b} : n[i] = m[i]
  BY DEF Pair
<1>7. \A i \in DOMAIN m : m[i].peer_id \notin {a, b}
  BY <1>1 DEF OneToOne, IsPaired, Has, Busy, MembersOK, MemberRec, Ids, NoPeer
<1>8. a # NoPeer /\ b # NoPeer
  BY <1>1, IdAssumption DEF MembersOK, Ids, NoPeer
<1>9. OneToOne(n)
  <2> SUFFICES ASSUME NEW i \in DOMAIN m
               PROVE  /\ Busy(n, i) <=> n[i].peer_id # NoPeer
                      /\ Busy(n, i) => /\ n[i].peer_id # i
                                       /\ IsPaired(n, i, n[i].peer_id)
    BY <1>2 DEF OneToOne
  <2>1. CASE i \in {a, b}
    BY <2>1, <1>1, <1>2, <1>5, <1>8 DEF Busy, IsPaired, Has
  <2>2. CASE i \notin {a, b}
    BY <2>2, <1>2, <1>6, <1>7 DEF OneToOne, Busy, IsPaired, Has
  <2> QED BY <2>1, <2>2
<1> QED BY <1>1, <1>2, <1>3, <1>4, <1>9 DEF MembersOK

\* Idling a client together with its peer, if any, leaves nobody half-paired.
LEMMA IdleBothLemma ==
  ASSUME NEW m, MembersOK(m), OneToOne(m), NEW a \in DOMAIN m,
         NEW n, DOMAIN n \subseteq DOMAIN m, DOMAIN m \ {a} \subseteq DOMAIN n,
         n \in [DOMAIN n -> MemberRec],
         \A i \in DOMAIN n :
           n[i] = IF i \in {a, m[a].peer_id} THEN Idled(m[i]) ELSE m[i]
  PROVE  MembersOK(n) /\ OneToOne(n)
<1>1. \A i \in DOMAIN n : i \in {a, m[a].peer_id} =>
        n[i].state = "idle" /\ n[i].peer_id = NoPeer
  <2> TAKE i \in DOMAIN n
  <2>1. m[i] \in MemberRec
    BY DEF MembersOK
  <2>2. Idled(m[i]).state = "idle" /\ Idled(m[i]).peer_id = NoPeer
    BY <2>1 DEF Idled, MemberRec
  <2> QED BY <2>2
<1>2. a # NoPeer
  BY DEF MembersOK, Ids, NoPeer
<1>3. \A i \in DOMAIN n \ {a, m[a].peer_id} :
        /\ n[i] = m[i]
        /\ m[i].peer_id # a
        /\ m[i].peer_id # NoPeer => m[i].peer_id # m[a].peer_id
  BY <1>2 DEF OneToOne, IsPaired, Has
<1>4. OneToOne(n)
  BY <1>1, <1>3 DEF OneToOne, IsPaired, Has, Busy
<1> QED BY <1>4 DEF MembersOK

\* Hanging up a call frees both ends.
LEMMA HangupLemma ==
  ASSUME NEW m, MembersOK(m), OneToOne(m), NEW a \in DOMAIN m
  PROVE  LET n == Hangup(m, a, m[a].peer_id)
         IN  /\ MembersOK(n) /\ OneToOne(n) /\ DOMAIN n = DOMAIN m
             /\ \A i \in DOMAIN m : n[i].name = m[i].name
<1> DEFINE n == Hangup(m, a, m[a].peer_id)
<1>1. DOMAIN n = DOMAIN m
  BY DEF Hangup
<1>2. \A i \in DOMAIN m :
        /\ n[i] = IF i \in {a, m[a].peer_id} THEN Idled(m[i]) ELSE m[i]
        /\ n[i] \in MemberRec /\ n[i].name = m[i].name
  BY DEF Hangup, Idled, MembersOK, MemberRec
<1>3. n \in [DOMAIN n -> MemberRec]
  BY <1>1, <1>2 DEF Hangup
<1>4. MembersOK(n) /\ OneToOne(n)
  <2> HIDE DEF n
  <2> QED BY <1>1, <1>2, <1>3, IdleBothLemma
<1> QED BY <1>1, <1>2, <1>4

\* Removing a client frees the one it was in a call with.
LEMMA RemoveLemma ==
  ASSUME NEW m, MembersOK(m), OneToOne(m), NEW a \in DOMAIN m
  PROVE  LET n == Remove(m, a)
         IN  /\ MembersOK(n) /\ OneToOne(n) /\ DOMAIN n = DOMAIN m \ {a}
             /\ \A i \in DOMAIN n : n[i].name = m[i].name
<1> DEFINE n == Remove(m, a)
<1>1. DOMAIN n = DOMAIN m \ {a}
  BY DEF Remove
<1>2. \A i \in DOMAIN n :
        /\ n[i] = IF i \in {a, m[a].peer_id} THEN Idled(m[i]) ELSE m[i]
        /\ n[i] \in MemberRec /\ n[i].name = m[i].name
  BY DEF Remove, GetPeer, Has, Idled, MembersOK, MemberRec
<1>3. n \in [DOMAIN n -> MemberRec]
  BY <1>1, <1>2 DEF Remove
<1>4. MembersOK(n) /\ OneToOne(n)
  <2> HIDE DEF n
  <2> QED BY <1>1, <1>2, <1>3, IdleBothLemma
<1> QED BY <1>1, <1>2, <1>4

-----------------------------------------------------------------------------
(***************************************************************************)
(* The inductive invariant: the registry and the maps (RegistryInv), the   *)
(* heartbeat (HeartbeatInv), and the type of what is sent.                 *)
(***************************************************************************)

RegistryInv ==
  /\ MembersOK(members) /\ OneToOne(members)
  /\ names \subseteq Names
  /\ NamesConsistent
  /\ next_id \in 1 .. MaxId + 1
  /\ \A i \in DOMAIN members : i < next_id
  /\ id_to_hdl \in [DOMAIN id_to_hdl -> Handles]
  /\ hdl_to_id \in [DOMAIN hdl_to_id -> Ids]
  /\ MapsConsistent

HeartbeatTypes ==
  /\ conn \in [Handles -> {"none", "open", "closing"}]
  /\ reachable \subseteq Handles
  /\ timer \in 0 .. PingInterval
  /\ last_pong \in [DOMAIN last_pong -> 0 .. AgeCap]
  /\ DOMAIN last_pong = {h \in Handles : conn[h] # "none"}
  /\ pinged \in [DOMAIN pinged -> 0 .. PongDelay]
  /\ DOMAIN pinged \subseteq DOMAIN last_pong

\* Seconds since the last heartbeat.
Elapsed == PingInterval - timer

\* An open connection's age is at most the timeout, which the last heartbeat
\* saw, and what has passed since.
AgesBounded ==
  \A h \in Handles : conn[h] = "open" => last_pong[h] <= PingTimeout + Elapsed

\* A reachable client has answered every ping but perhaps the last one.
PingsAnswered ==
  \A h \in reachable : conn[h] = "open" =>
    /\ h \in DOMAIN pinged =>
         pinged[h] = Elapsed /\ last_pong[h] <= PingInterval + Elapsed
    /\ h \notin DOMAIN pinged => last_pong[h] <= Elapsed

HeartbeatInv == HeartbeatTypes /\ AgesBounded /\ PingsAnswered

SentOK == sent \in [Handles -> Seq(ServerMsg)]

IInv == RegistryInv /\ HeartbeatInv /\ SentOK

-----------------------------------------------------------------------------
(* Preservation, one invariant at a time, one step per action.             *)

\* The server starts in the inductive invariant.
LEMMA InitInv == Init => IInv
<1> SUFFICES ASSUME Init PROVE IInv
  OBVIOUS
<1>1. DOMAIN <<>> = {} /\ \A S : <<>> \in [{} -> S]
  OBVIOUS
<1>2. RegistryInv
  BY <1>1, IdAssumption DEF Init, RegistryInv, MembersOK, OneToOne,
     NamesConsistent, MapsConsistent, Range, Ids
<1>3. HeartbeatInv
  BY <1>1, TimingAssumption DEF Init, HeartbeatInv, HeartbeatTypes, AgesBounded,
     PingsAnswered, Elapsed
<1>4. SentOK
  BY DEF Init, SentOK, Silence
<1> QED BY <1>2, <1>3, <1>4 DEF IInv

\* The registry part does not change when its variables do not, if no
\* connection a client is registered on ends.
LEMMA RegistryUnchanged ==
  ASSUME RegistryInv, UNCHANGED <<registry, maps>>,
         \A h \in DOMAIN hdl_to_id : conn'[h] # "none"
  PROVE  RegistryInv'
BY DEF RegistryInv, registry, maps, MembersOK, OneToOne, NamesConsistent,
   MapsConsistent, Busy, IsPaired, Has, Range

\* Registering a client keeps its name, id and handle in step.
LEMMA RegistryInvRegister ==
  ASSUME RegistryInv, conn \in [Handles -> {"none", "open", "closing"}],
         NEW h \in Handles, NEW name \in Names, RegisterAccepted(h, name)
  PROVE  RegistryInv'
<1>1. /\ name \in Names \ names
      /\ members' = Put(members, next_id, Member(name)) /\ names' = names \cup {name}
  BY DEF RegisterAccepted
<1>2. next_id \in Ids \ DOMAIN members /\ next_id' = next_id + 1
  BY DEF RegisterAccepted, RegistryInv, Ids
<1>3. MembersOK(members') /\ OneToOne(members')
  BY <1>1, <1>2, RegisterLemma DEF RegistryInv
<1>4. /\ DOMAIN members' = DOMAIN members \cup {next_id}
      /\ members'[next_id].name = name
      /\ \A i \in DOMAIN members : members'[i] = members[i] /\ i # next_id
  BY <1>1, <1>2 DEF Put, Member
<1>5. NamesConsistent'
  BY <1>1, <1>4 DEF RegistryInv, NamesConsistent
<1>6. /\ next_id' \in 1 .. MaxId + 1
      /\ \A i \in DOMAIN members' : i < next_id'
  BY <1>2, <1>4, IdAssumption DEF RegisterAccepted, RegistryInv, Ids, MembersOK
<1>7. /\ id_to_hdl' = Put(id_to_hdl, next_id, h)
      /\ hdl_to_id' = Put(hdl_to_id, h, next_id)
      /\ h \notin DOMAIN hdl_to_id /\ conn' = conn /\ conn[h] = "open"
  BY DEF RegisterAccepted, Receives
<1>8. MapsConsistent'
  <2>1. /\ DOMAIN id_to_hdl' = DOMAIN id_to_hdl \cup {next_id}
        /\ DOMAIN hdl_to_id' = DOMAIN hdl_to_id \cup {h}
        /\ id_to_hdl'[next_id] = h /\ hdl_to_id'[h] = next_id
        /\ \A i \in DOMAIN id_to_hdl \ {next_id} : id_to_hdl'[i] = id_to_hdl[i]
        /\ \A g \in DOMAIN hdl_to_id \ {h} : hdl_to_id'[g] = hdl_to_id[g]
    BY <1>7 DEF Put
  <2>2. DOMAIN id_to_hdl = DOMAIN members /\ next_id \notin DOMAIN id_to_hdl
    BY <1>2 DEF RegistryInv, MapsConsistent
  <2>3. \A i \in DOMAIN id_to_hdl : id_to_hdl[i] \in DOMAIN hdl_to_id
    BY DEF RegistryInv, MapsConsistent, Range
  <2>4. Range(id_to_hdl') = Range(id_to_hdl) \cup {h}
    BY <2>1, <2>2 DEF Range
  <2>5. DOMAIN hdl_to_id' = Range(id_to_hdl')
    BY <2>1, <2>4 DEF RegistryInv, MapsConsistent
  <2>6. \A i \in DOMAIN id_to_hdl' : hdl_to_id'[id_to_hdl'[i]] = i
    BY <1>7, <2>1, <2>2, <2>3 DEF RegistryInv, MapsConsistent
  <2>7. \A g \in DOMAIN hdl_to_id' : conn'[g] # "none"
    BY <1>7, <2>1 DEF RegistryInv, MapsConsistent
  <2> QED BY <1>4, <2>1, <2>2, <2>5, <2>6, <2>7 DEF MapsConsistent
<1>9. /\ id_to_hdl' \in [DOMAIN id_to_hdl' -> Handles]
      /\ hdl_to_id' \in [DOMAIN hdl_to_id' -> Ids]
  BY <1>2, <1>7, MapTypes DEF RegistryInv
<1> QED BY <1>1, <1>3, <1>5, <1>6, <1>8, <1>9 DEF RegistryInv

\* The end of a connection takes everything of its client away at once.
LEMMA RegistryInvClose ==
  ASSUME RegistryInv, conn \in [Handles -> {"none", "open", "closing"}],
         NEW h \in Handles, OnClose(h)
  PROVE  RegistryInv'
<1>1. conn' = [conn EXCEPT ![h] = "none"]
  BY DEF OnClose
<1>2. CASE DropAnonymous(h)
  <2>1. \A g \in DOMAIN hdl_to_id : conn'[g] # "none"
    BY <1>1, <1>2 DEF DropAnonymous, RegistryInv, MapsConsistent
  <2> QED BY <1>2, <2>1, RegistryUnchanged DEF DropAnonymous
<1>3. CASE DropClient(h)
  <2> DEFINE id == hdl_to_id[h]
  <2>1. /\ h \in DOMAIN hdl_to_id
        /\ hdl_to_id' = Erase(hdl_to_id, h) /\ id_to_hdl' = Erase(id_to_hdl, id)
        /\ members' = Remove(members, id)
        /\ names' = names \ {members[id].name}
        /\ next_id' = next_id
    BY <1>3 DEF DropClient
  <2>2. id \in DOMAIN members /\ id_to_hdl[id] = h
    BY <2>1 DEF RegistryInv, MapsConsistent, Range
  <2>3. /\ MembersOK(members') /\ OneToOne(members')
        /\ DOMAIN members' = DOMAIN members \ {id}
        /\ \A i \in DOMAIN members' : members'[i].name = members[i].name
    BY <2>1, <2>2, RemoveLemma DEF RegistryInv
  <2>4. NamesConsistent' /\ names' \subseteq Names
    BY <2>1, <2>2, <2>3 DEF RegistryInv, NamesConsistent
  <2>5. MapsConsistent'
    BY <1>1, <2>1, <2>2, <2>3
       DEF RegistryInv, MapsConsistent, Range, Erase, Restrict
  <2>6. /\ id_to_hdl' \in [DOMAIN id_to_hdl' -> Handles]
        /\ hdl_to_id' \in [DOMAIN hdl_to_id' -> Ids]
    BY <2>1, MapTypes DEF RegistryInv
  <2> QED BY <2>1, <2>3, <2>4, <2>5, <2>6 DEF RegistryInv
<1> QED BY <1>2, <1>3 DEF OnClose

\* An update of the calls alone keeps names and maps consistent.
LEMMA RegistryInvCalls ==
  ASSUME RegistryInv, UNCHANGED <<names, next_id, maps, conn>>,
         MembersOK(members'), OneToOne(members'),
         DOMAIN members' = DOMAIN members,
         \A i \in DOMAIN members : members'[i].name = members[i].name
  PROVE  RegistryInv'
<1>1. NamesConsistent'
  BY DEF RegistryInv, NamesConsistent
<1>2. MapsConsistent'
  BY DEF RegistryInv, MapsConsistent, maps, Range
<1> QED BY <1>1, <1>2 DEF RegistryInv, maps

\* The messages that change nothing but what is sent.
QuietMessage(h) ==
  \/ \E name \in Names : RegisterRefused(h, name)
  \/ \E to \in Targets :
       \/ CallRefused(h, to) \/ Message(h, to)
       \/ \E body \in Bodies, type \in {"answer", "candidate"} :
            Relayed(h, type, to, body)
  \/ GetRoster(h) \/ Ignored(h)

\* Messages that pair and unpair nobody leave the registry as it is.
LEMMA QuietMessageLemma ==
  ASSUME NEW h, QuietMessage(h)
  PROVE  UNCHANGED <<registry, maps, clock, conn, reachable>>
BY DEF QuietMessage, RegisterRefused, CallRefused, Message, Relayed, GetRoster,
   Ignored, FromClient, registry

\* Every step keeps names, maps and calls consistent.
LEMMA RegistryInvNext ==
  ASSUME RegistryInv, HeartbeatTypes, [Next]_vars
  PROVE  RegistryInv'
<1>1. ASSUME NEW h \in Handles, OnOpen(h) PROVE RegistryInv'
  <2>1. \A g \in DOMAIN hdl_to_id : conn'[g] # "none"
    BY <1>1 DEF OnOpen, RegistryInv, MapsConsistent, HeartbeatTypes, Range
  <2> QED BY <1>1, <2>1, RegistryUnchanged DEF OnOpen
<1>2. ASSUME NEW h \in Handles, OnClose(h) PROVE RegistryInv'
  BY <1>2, RegistryInvClose DEF HeartbeatTypes
<1>3. ASSUME NEW h \in Handles, OnMessage(h) PROVE RegistryInv'
  <2>1. ASSUME NEW name \in Names, RegisterAccepted(h, name) PROVE RegistryInv'
    BY <2>1, RegistryInvRegister DEF HeartbeatTypes
  <2>2. ASSUME NEW to \in Targets, NEW body \in Bodies, CallAccepted(h, to, body)
        PROVE  RegistryInv'
    <3>1. /\ CallResult(members, hdl_to_id[h], to) = "ok"
          /\ members' = Pair(members, hdl_to_id[h], to)
      BY <2>2 DEF CallAccepted
    <3>2. UNCHANGED <<names, next_id, maps, conn>>
      BY <2>2 DEF CallAccepted, FromClient
    <3> QED BY <3>1, <3>2, CallLemma, RegistryInvCalls DEF RegistryInv
  <2>3. CASE CallLeft(h)
    <3> DEFINE self == hdl_to_id[h]
    <3>1. self \in DOMAIN members /\ GetPeer(members, self) = members[self].peer_id
      BY <2>3 DEF CallLeft, FromClient, RegistryInv, MapsConsistent, Range, GetPeer, Has
    <3>2. members' = Hangup(members, self, members[self].peer_id)
      BY <2>3, <3>1 DEF CallLeft
    <3>3. UNCHANGED <<names, next_id, maps, conn>>
      BY <2>3 DEF CallLeft, FromClient
    <3> QED BY <3>1, <3>2, <3>3, HangupLemma, RegistryInvCalls DEF RegistryInv
  <2>4. CASE QuietMessage(h)
    <3>1. UNCHANGED <<registry, maps, conn>>
      BY <2>4, QuietMessageLemma
    <3> QED BY <3>1, RegistryUnchanged DEF RegistryInv, MapsConsistent
  <2> QED BY <1>3, <2>1, <2>2, <2>3, <2>4 DEF OnMessage, QuietMessage
<1>4. ASSUME NEW h \in Handles, OnPong(h) \/ Vanish(h) PROVE RegistryInv'
  BY <1>4, RegistryUnchanged DEF OnPong, Vanish, RegistryInv, MapsConsistent
<1>5. CASE OnHeartbeat
  <2>1. \A g \in DOMAIN hdl_to_id : conn'[g] # "none"
    BY <1>5 DEF OnHeartbeat, RegistryInv, MapsConsistent, HeartbeatTypes, Range
  <2> QED BY <1>5, <2>1, RegistryUnchanged DEF OnHeartbeat
<1>6. CASE Tick \/ UNCHANGED vars
  BY <1>6, RegistryUnchanged DEF Tick, vars, RegistryInv, MapsConsistent
<1> QED BY <1>1, <1>2, <1>3, <1>4, <1>5, <1>6 DEF Next

-----------------------------------------------------------------------------
(* The heartbeat.                                                          *)

\* AgeCap is the number the comment on it says.
LEMMA AgeCapFacts == AgeCap \in Nat /\ AgeCap = PingTimeout + PingInterval + 1
BY TimingAssumption DEF AgeCap

\* Opening h, or restarting its age, keeps the heartbeat's invariant.
LEMMA HeartbeatRestart ==
  ASSUME HeartbeatInv, NEW h \in Handles, UNCHANGED timer,
         last_pong' = Put(last_pong, h, 0),
         \/ conn' = [conn EXCEPT ![h] = "open"] /\ reachable' = reachable \cup {h}
            /\ conn[h] = "none"
         \/ UNCHANGED <<conn, reachable>> /\ conn[h] = "open",
         \/ UNCHANGED pinged
         \/ h \in DOMAIN pinged /\ pinged' = Erase(pinged, h)
  PROVE  HeartbeatInv'
<1> USE TimingAssumption, AgeCapFacts DEF HeartbeatInv
<1>1. /\ DOMAIN last_pong' = DOMAIN last_pong \cup {h} /\ last_pong'[h] = 0
      /\ \A g \in DOMAIN last_pong \ {h} : last_pong'[g] = last_pong[g]
  BY DEF Put
<1>2. /\ DOMAIN pinged' \subseteq DOMAIN pinged
      /\ \A g \in DOMAIN pinged' : pinged'[g] = pinged[g]
      /\ \A g \in Handles \ {h} : g \in DOMAIN pinged' <=> g \in DOMAIN pinged
  BY DEF Erase, Restrict
<1>3. pinged' \in [DOMAIN pinged' -> 0 .. PongDelay]
  BY DEF HeartbeatTypes, Erase, Restrict
<1>4. last_pong' \in [DOMAIN last_pong' -> 0 .. AgeCap]
  BY DEF HeartbeatTypes, Put
<1>5. HeartbeatTypes'
  BY <1>1, <1>2, <1>3, <1>4 DEF HeartbeatTypes
<1>6. \A g \in Handles \ {h} :
        /\ conn'[g] = conn[g] /\ (g \in reachable' <=> g \in reachable)
        /\ conn[g] = "open" => last_pong'[g] = last_pong[g]
  BY <1>1 DEF HeartbeatTypes
<1>7. Elapsed' = Elapsed /\ Elapsed \in 0 .. PingInterval
  BY DEF Elapsed, HeartbeatTypes
<1>8. AgesBounded'
  BY <1>1, <1>6, <1>7 DEF AgesBounded
<1>9. PingsAnswered'
  <2> SUFFICES ASSUME NEW g \in reachable', conn'[g] = "open"
               PROVE  /\ g \in DOMAIN pinged' =>
                           pinged'[g] = Elapsed' /\ last_pong'[g] <= PingInterval + Elapsed'
                      /\ g \notin DOMAIN pinged' => last_pong'[g] <= Elapsed'
    BY DEF PingsAnswered
  <2>1. CASE g = h
    <3>1. g \in DOMAIN pinged' => conn[h] = "open" /\ h \in reachable
      BY <1>2, <2>1 DEF HeartbeatTypes
    <3> QED BY <1>1, <1>2, <1>7, <2>1, <3>1 DEF PingsAnswered
  <2>2. CASE g # h
    BY <1>2, <1>5, <1>6, <1>7, <2>2 DEF PingsAnswered, HeartbeatTypes
  <2> QED BY <2>1, <2>2
<1> QED BY <1>5, <1>8, <1>9

\* A connection that ends leaves no age behind.
LEMMA HeartbeatInvClose ==
  ASSUME HeartbeatInv, NEW h \in Handles, OnClose(h)
  PROVE  HeartbeatInv'
<1> USE DEF HeartbeatInv
<1>1. /\ conn' = [conn EXCEPT ![h] = "none"] /\ reachable' = reachable \ {h}
      /\ last_pong' = Erase(last_pong, h) /\ pinged' = Erase(pinged, h)
      /\ timer' = timer
  BY DEF OnClose
<1>2. /\ DOMAIN last_pong' = DOMAIN last_pong \ {h}
      /\ DOMAIN pinged' = DOMAIN pinged \ {h}
      /\ \A g \in Handles \ {h} :
           /\ conn'[g] = conn[g]
           /\ g \in DOMAIN last_pong => last_pong'[g] = last_pong[g]
           /\ g \in DOMAIN pinged => pinged'[g] = pinged[g]
      /\ conn'[h] = "none"
  BY <1>1 DEF Erase, Restrict, HeartbeatTypes
<1>3. HeartbeatTypes'
  BY <1>1, <1>2, MapTypes DEF HeartbeatTypes
<1>4. AgesBounded'
  BY <1>1, <1>2 DEF AgesBounded, Elapsed, HeartbeatTypes
<1>5. PingsAnswered'
  BY <1>1, <1>2 DEF PingsAnswered, Elapsed, HeartbeatTypes
<1> QED BY <1>3, <1>4, <1>5

\* A client that goes away stops no clock.
LEMMA HeartbeatInvVanish ==
  ASSUME HeartbeatInv, NEW h \in Handles, Vanish(h)
  PROVE  HeartbeatInv'
<1>1. /\ reachable' = reachable \ {h}
      /\ UNCHANGED <<timer, last_pong, pinged, conn>>
  BY DEF Vanish, clock
<1> QED BY <1>1 DEF HeartbeatInv, HeartbeatTypes, AgesBounded, PingsAnswered, Elapsed

\* OnHeartbeat pings every open connection and leaves none open past the timeout.
LEMMA HeartbeatInvBeat ==
  ASSUME HeartbeatInv, OnHeartbeat
  PROVE  HeartbeatInv'
<1> USE TimingAssumption, AgeCapFacts DEF HeartbeatInv
<1>1. /\ timer = 0 /\ timer' = PingInterval
      /\ UNCHANGED <<last_pong, reachable>>
      /\ Elapsed = PingInterval /\ Elapsed' = 0
  BY DEF OnHeartbeat, Elapsed
<1>2. /\ DOMAIN pinged' = DOMAIN pinged \cup {g \in DOMAIN last_pong : conn[g] = "open"}
      /\ \A h \in DOMAIN pinged' :
           pinged'[h] = IF h \in DOMAIN pinged THEN pinged[h] ELSE 0
  BY DEF OnHeartbeat
<1>3. \A h \in Handles :
        /\ conn'[h] \in {"none", "open", "closing"}
        /\ conn'[h] = "none" <=> conn[h] = "none"
        /\ conn'[h] = "open" => /\ conn[h] = "open"
                                /\ last_pong[h] <= PingTimeout
  <2> SUFFICES ASSUME NEW h \in Handles
               PROVE  /\ conn'[h] \in {"none", "open", "closing"}
                      /\ conn'[h] = "none" <=> conn[h] = "none"
                      /\ conn'[h] = "open" => /\ conn[h] = "open"
                                              /\ last_pong[h] <= PingTimeout
    OBVIOUS
  <2>1. conn'[h] = IF h \in Overdue /\ conn[h] = "open" THEN "closing" ELSE conn[h]
    BY DEF OnHeartbeat
  <2>2. conn[h] = "open" => h \in DOMAIN last_pong /\ last_pong[h] \in 0 .. AgeCap
    BY DEF HeartbeatTypes
  <2> QED BY <2>1, <2>2 DEF Overdue, HeartbeatTypes
<1>4. pinged' \in [DOMAIN pinged' -> 0 .. PongDelay]
  <2>1. \A h \in DOMAIN pinged' : pinged'[h] \in 0 .. PongDelay
    BY <1>2 DEF HeartbeatTypes
  <2> QED BY <2>1 DEF OnHeartbeat
<1>5. conn' \in [Handles -> {"none", "open", "closing"}]
  BY <1>3 DEF OnHeartbeat
<1>6. HeartbeatTypes'
  BY <1>1, <1>2, <1>3, <1>4, <1>5 DEF HeartbeatTypes
<1>7. AgesBounded'
  BY <1>1, <1>3 DEF AgesBounded, HeartbeatTypes
<1>8. \A h \in reachable : conn[h] = "open" =>
        h \notin DOMAIN pinged /\ last_pong[h] <= PingInterval
  BY <1>1 DEF PingsAnswered, HeartbeatTypes
<1>9. PingsAnswered'
  <2> SUFFICES ASSUME NEW h \in reachable, conn'[h] = "open"
               PROVE  /\ h \in DOMAIN pinged' /\ pinged'[h] = 0
                      /\ last_pong[h] <= PingInterval
    BY <1>1 DEF PingsAnswered
  <2> QED BY <1>2, <1>3, <1>8 DEF HeartbeatTypes
<1> QED BY <1>6, <1>7, <1>9

\* A second makes every age and the elapsed part of the interval grow alike.
LEMMA HeartbeatInvTick ==
  ASSUME HeartbeatInv, Tick
  PROVE  HeartbeatInv'
<1> USE TimingAssumption, AgeCapFacts DEF HeartbeatInv
<1>1. /\ timer > 0 /\ timer' = timer - 1 /\ UNCHANGED <<conn, reachable>>
      /\ timer' \in 0 .. PingInterval
      /\ Elapsed' = Elapsed + 1 /\ Elapsed \in 0 .. PingInterval
  BY DEF Tick, Elapsed, HeartbeatTypes
<1>2. /\ last_pong' \in [DOMAIN last_pong -> 0 .. AgeCap]
      /\ \A h \in DOMAIN last_pong : last_pong'[h] <= last_pong[h] + 1
  BY DEF Tick, Older, HeartbeatTypes
<1>3. pinged' \in [DOMAIN pinged -> 0 .. PongDelay]
  BY DEF Tick, Older, HeartbeatTypes
<1>4. HeartbeatTypes'
  BY <1>1, <1>2, <1>3 DEF HeartbeatTypes
<1>5. AgesBounded'
  BY <1>1, <1>2 DEF AgesBounded, HeartbeatTypes
<1>6. \A h \in reachable : conn[h] = "open" /\ h \in DOMAIN pinged =>
        pinged'[h] = pinged[h] + 1
  BY DEF Tick, Older, HeartbeatTypes
<1>7. PingsAnswered'
  BY <1>1, <1>2, <1>3, <1>6 DEF PingsAnswered, HeartbeatTypes
<1> QED BY <1>4, <1>5, <1>7

\* Every step keeps the bounds on ages.
LEMMA HeartbeatInvNext ==
  ASSUME HeartbeatInv, [Next]_vars
  PROVE  HeartbeatInv'
<1>1. ASSUME NEW h \in Handles,
             OnOpen(h) \/ OnPong(h) \/ \E name \in Names : RegisterAccepted(h, name)
      PROVE  HeartbeatInv'
  BY <1>1, HeartbeatRestart DEF OnOpen, OnPong, RegisterAccepted, Receives
<1>2. ASSUME NEW h \in Handles, OnMessage(h),
             ~\E name \in Names : RegisterAccepted(h, name)
      PROVE  HeartbeatInv'
  <2>1. UNCHANGED <<clock, conn, reachable>>
    BY <1>2, QuietMessageLemma
       DEF OnMessage, QuietMessage, CallAccepted, CallLeft, FromClient
  <2> QED BY <2>1
          DEF clock, HeartbeatInv, HeartbeatTypes, AgesBounded, PingsAnswered, Elapsed
<1>3. CASE UNCHANGED vars
  BY <1>3 DEF vars, clock, HeartbeatInv, HeartbeatTypes, AgesBounded, PingsAnswered,
     Elapsed
<1> QED BY <1>1, <1>2, <1>3, HeartbeatInvClose, HeartbeatInvVanish,
           HeartbeatInvBeat, HeartbeatInvTick DEF Next

-----------------------------------------------------------------------------
(* What is sent.                                                           *)

Outputs == [Handles -> Seq(ServerMsg)]

\* What the send helpers build is one sequence of messages per connection.
LEMMA OutputTypes ==
  /\ Silence \in Outputs
  /\ \A hs : \A msg \in ServerMsg : Send(hs, msg) \in Outputs
  /\ \A s, t \in Outputs : (s ++ t) \in Outputs
BY DEF Outputs, Silence, Send, ++

\* The messages built from ids and codes are server messages.
LEMMA MessageTypes ==
  /\ \A i \in Ids : Welcome(i) \in ServerMsg
  /\ \A code \in {"name_taken", "busy", "offline"} : ErrorMsg(code) \in ServerMsg
  /\ \A i \in Ids : \A type \in {"message", "leave", "peer_gone"} :
       Notice(type, i) \in ServerMsg
  /\ \A i \in Ids, body \in Bodies : \A type \in {"call", "answer", "candidate"} :
       Stamped(type, i, body) \in ServerMsg
BY DEF Welcome, ErrorMsg, Notice, Stamped, ServerMsg

\* A roster message is a server message.
LEMMA RosterType ==
  ASSUME NEW m, MembersOK(m)
  PROVE  RosterMsg(m) \in ServerMsg
<1>1. Roster(m) \subseteq RosterEntry
  BY DEF Roster, RosterEntry, MembersOK, MemberRec
<1> QED BY <1>1 DEF RosterMsg, ServerMsg

\* Every handler's output is well typed.
LEMMA SentNext ==
  ASSUME RegistryInv, RegistryInv', SentOK, [Next]_vars
  PROVE  SentOK'
<1> USE OutputTypes, MessageTypes DEF Outputs, SentOK
<1>1. RosterMsg(members) \in ServerMsg /\ RosterMsg(members') \in ServerMsg
  BY RosterType DEF RegistryInv
<1>2. \A h \in DOMAIN hdl_to_id : hdl_to_id[h] \in Ids
  BY DEF RegistryInv
<1>3. ASSUME NEW h \in Handles, OnClose(h) PROVE SentOK'
  <2>1. CASE DropClient(h)
    BY <1>1, <1>2, <2>1 DEF DropClient, SendTo, BroadcastRoster
  <2> QED BY <1>3, <2>1 DEF OnClose, DropAnonymous
<1>4. ASSUME NEW h \in Handles, OnMessage(h) PROVE SentOK'
  <2>1. ASSUME NEW name \in Names, RegisterAccepted(h, name) PROVE SentOK'
    <3>1. next_id \in Ids
      BY <2>1 DEF RegisterAccepted, RegistryInv, Ids
    <3> QED BY <1>1, <2>1, <3>1 DEF RegisterAccepted, SendToHdl, BroadcastRoster
  <2>2. ASSUME NEW name \in Names, RegisterRefused(h, name) PROVE SentOK'
    BY <2>2 DEF RegisterRefused, SendToHdl
  <2>3. ASSUME h \in DOMAIN hdl_to_id, NEW to \in Targets, NEW body \in Bodies,
               CallAccepted(h, to, body)
        PROVE  SentOK'
    <3>1. Stamped("call", hdl_to_id[h], body) \in ServerMsg
      BY <1>2, <2>3
    <3> QED BY <1>1, <2>3, <3>1 DEF CallAccepted, SendTo, BroadcastRoster
  <2>4. ASSUME NEW to \in Targets, CallRefused(h, to) PROVE SentOK'
    BY <2>4 DEF CallRefused, SendToHdl
  <2>5. ASSUME h \in DOMAIN hdl_to_id, NEW to \in Targets, NEW body \in Bodies,
               NEW type \in {"answer", "candidate"}, Relayed(h, type, to, body)
        PROVE  SentOK'
    <3>1. Stamped(type, hdl_to_id[h], body) \in ServerMsg
      BY <1>2, <2>5
    <3> QED BY <2>5, <3>1 DEF Relayed, SendTo
  <2>6. ASSUME h \in DOMAIN hdl_to_id, NEW to \in Targets, Message(h, to)
        PROVE  SentOK'
    <3>1. Notice("message", hdl_to_id[h]) \in ServerMsg
      BY <1>2, <2>6
    <3> QED BY <2>6, <3>1 DEF Message, SendTo, SendToHdl
  <2>7. ASSUME h \in DOMAIN hdl_to_id, CallLeft(h) PROVE SentOK'
    <3>1. Notice("leave", hdl_to_id[h]) \in ServerMsg
      BY <1>2, <2>7
    <3> QED BY <1>1, <2>7, <3>1 DEF CallLeft, SendTo, SendToHdl, BroadcastRoster
  <2>8. CASE GetRoster(h) \/ Ignored(h)
    BY <1>1, <2>8 DEF GetRoster, Ignored, SendToHdl
  <2>9. /\ \A to \in Targets, body \in Bodies :
             CallAccepted(h, to, body) => h \in DOMAIN hdl_to_id
        /\ \A to \in Targets, body \in Bodies, type \in {"answer", "candidate"} :
             Relayed(h, type, to, body) => h \in DOMAIN hdl_to_id
        /\ \A to \in Targets : Message(h, to) => h \in DOMAIN hdl_to_id
        /\ CallLeft(h) => h \in DOMAIN hdl_to_id
    BY DEF CallAccepted, Relayed, Message, CallLeft, FromClient
  <2> QED BY <1>4, <2>1, <2>2, <2>3, <2>4, <2>5, <2>6, <2>7, <2>8, <2>9 DEF OnMessage
<1>5. ASSUME NEW h \in Handles, OnOpen(h) \/ OnPong(h) \/ Vanish(h) PROVE SentOK'
  BY <1>5 DEF OnOpen, OnPong, Vanish
<1>6. CASE OnHeartbeat \/ Tick \/ UNCHANGED vars
  BY <1>6 DEF OnHeartbeat, Tick, vars
<1> QED BY <1>3, <1>4, <1>5, <1>6 DEF Next

-----------------------------------------------------------------------------
(***************************************************************************)
(* Theorems.                                                               *)
(***************************************************************************)

\* The invariant is inductive.
LEMMA IInvNext == IInv /\ [Next]_vars => IInv'
BY RegistryInvNext, HeartbeatInvNext, SentNext DEF IInv, HeartbeatInv

\* The inductive invariant holds throughout.
THEOREM Inductive == Spec => []IInv
BY InitInv, IInvNext, PTL DEF Spec

\* Every variable of the server keeps its type, for any number of clients.
THEOREM TypeCorrect == Spec => []TypeOK
<1>1. IInv => TypeOK
  BY TimingAssumption, AgeCapFacts DEF IInv, RegistryInv, MembersOK, MapsConsistent,
     HeartbeatInv, HeartbeatTypes, SentOK, TypeOK, Range
<1> QED BY <1>1, Inductive, PTL

\* Calls stay one to one, the two maps inverse to each other and the names
\* unique, whatever clients register, call, leave and are dropped.
THEOREM RegistryCorrect == Spec => []RegistryConsistent
<1>1. IInv => PairingConsistent
  BY DEF IInv, RegistryInv, OneToOne, PairingConsistent
<1>2. IInv => MapsConsistent /\ NamesConsistent
  BY DEF IInv, RegistryInv
<1>3. IInv => RegistryConsistent
  BY <1>1, <1>2 DEF RegistryConsistent
<1> QED BY <1>3, Inductive, PTL

\* No open connection is silent for longer than the timeout and one interval.
THEOREM SilenceIsBounded == Spec => []SilenceBounded
<1>1. IInv => SilenceBounded
  BY TimingAssumption DEF IInv, HeartbeatInv, HeartbeatTypes, AgesBounded, Elapsed,
     SilenceBounded
<1> QED BY <1>1, Inductive, PTL

\* The heartbeat closes no connection whose client answers within PongDelay,
\* if PongDelay < PingInterval <= PingTimeout.
THEOREM HealthyClientsKept == Spec => OnlySilentClosed
<1>1. ASSUME IInv, [Next]_vars, NEW h \in Handles,
             conn[h] = "open", conn'[h] = "closing"
      PROVE  h \notin reachable
  <2>1. ASSUME NEW g \in Handles, OnOpen(g) \/ OnClose(g)
        PROVE  conn'[h] # "closing"
    BY <1>1, <2>1 DEF OnOpen, OnClose, IInv, HeartbeatInv, HeartbeatTypes
  <2>2. ASSUME NEW g \in Handles, OnMessage(g) \/ OnPong(g) \/ Vanish(g)
        PROVE  conn' = conn
    BY <2>2, QuietMessageLemma
       DEF OnMessage, QuietMessage, RegisterAccepted, CallAccepted, CallLeft,
           FromClient, OnPong, Vanish
  <2>3. CASE OnHeartbeat
    <3>1. h \in DOMAIN last_pong /\ last_pong[h] > PingTimeout
      BY <1>1, <2>3 DEF OnHeartbeat, Overdue
    <3>2. timer = 0 /\ Elapsed = PingInterval
      BY <2>3, TimingAssumption DEF OnHeartbeat, Elapsed
    <3>3. h \in DOMAIN pinged => pinged[h] \in 0 .. PongDelay
      BY <1>1 DEF IInv, HeartbeatInv, HeartbeatTypes
    <3>4. last_pong[h] \in 0 .. AgeCap
      BY <1>1, <3>1 DEF IInv, HeartbeatInv, HeartbeatTypes
    <3> QED BY <1>1, <3>1, <3>2, <3>3, <3>4, TimingAssumption, AgeCapFacts
               DEF IInv, HeartbeatInv, PingsAnswered
  <2>4. CASE Tick \/ UNCHANGED vars
    BY <1>1, <2>4 DEF Tick, vars
  <2> QED BY <1>1, <2>1, <2>2, <2>3, <2>4 DEF Next
<1>2. IInv /\ [Next]_vars =>
        [\A h \in Handles :
           conn[h] = "open" /\ conn'[h] = "closing" => h \notin reachable]_vars
  BY <1>1
<1> QED BY <1>2, Inductive, PTL DEF Spec, OnlySilentClosed
-----------------------------------------------------------------------------
(***************************************************************************)
(* SignalingServer implements CallPairing.  What the registry's operators  *)
(* do to the set of calls is stated of any map m of members; the invariant *)
(* gives what they need of it, that calls are one to one and ids fresh.    *)
(***************************************************************************)

CallsOf(m) == {{i, m[i].peer_id} : i \in {j \in DOMAIN m : Busy(m, j)}}

-----------------------------------------------------------------------------

\* A call of m is a busy client with its peer.
LEMMA CallMember ==
  ASSUME NEW m, NEW c
  PROVE  c \in CallsOf(m) <=>
           \E i \in DOMAIN m : Busy(m, i) /\ c = {i, m[i].peer_id}
  BY DEF CallsOf

(* Both ends of a call are busy, and name each other.                      *)
LEMMA EndsBusy ==
  ASSUME NEW m, MembersOK(m), OneToOne(m), NEW c \in CallsOf(m), NEW i \in c
  PROVE  i \in DOMAIN m /\ Busy(m, i) /\ c = {i, m[i].peer_id}
<1>1. PICK k \in DOMAIN m : Busy(m, k) /\ c = {k, m[k].peer_id}
  BY CallMember
<1>2. /\ m[k].peer_id \in DOMAIN m /\ m[m[k].peer_id].peer_id = k /\ k # NoPeer
      /\ Busy(m, m[k].peer_id)
  <2>1. m[k].peer_id \in DOMAIN m /\ m[m[k].peer_id].peer_id = k
    BY <1>1 DEF OneToOne, IsPaired, Has
  <2>2. k # NoPeer
    BY IdAssumption DEF MembersOK, Ids, NoPeer
  <2> QED
    BY <2>1, <2>2 DEF OneToOne
<1>3. CASE i = k
  BY <1>1, <1>3
<1>4. CASE i = m[k].peer_id
  BY <1>1, <1>2, <1>4
<1> QED
  BY <1>1, <1>3, <1>4

(* A new member is in no call.                                             *)
LEMMA RegisterCalls ==
  ASSUME NEW m, NEW id, id \notin DOMAIN m, NEW name
  PROVE  CallsOf(Put(m, id, Member(name))) = CallsOf(m)
<1> DEFINE n == Put(m, id, Member(name))
<1>1. /\ DOMAIN n = DOMAIN m \cup {id} /\ n[id] = Member(name)
      /\ \A i \in DOMAIN m : n[i] = m[i]
  BY DEF Put
<1>2. ~Busy(n, id) /\ \A i \in DOMAIN m : Busy(n, i) <=> Busy(m, i)
  BY <1>1 DEF Busy, Member
<1> HIDE DEF n
<1>3. ASSUME NEW c PROVE c \in CallsOf(n) <=> c \in CallsOf(m)
  BY <1>1, <1>2, CallMember
<1> QED
  BY <1>3 DEF n

(* A call that is accepted adds the one call.                              *)
LEMMA PairCalls ==
  ASSUME NEW m, MembersOK(m), OneToOne(m),
         NEW a, NEW b, CallResult(m, a, b) = "ok"
  PROVE  CallsOf(Pair(m, a, b)) = CallsOf(m) \cup {{a, b}}
<1> DEFINE n == Pair(m, a, b)
<1>1. a # b /\ {a, b} \subseteq DOMAIN m /\ ~Busy(m, a) /\ ~Busy(m, b)
  BY CallLemma
<1>2. DOMAIN n = DOMAIN m /\ \A i \in DOMAIN m \ {a, b} : n[i] = m[i]
  BY DEF Pair
<1>3. n[a].state = "busy" /\ n[a].peer_id = b /\ n[b].state = "busy" /\ n[b].peer_id = a
  BY <1>1 DEF Pair, PairedWith, MembersOK, MemberRec
<1> HIDE DEF n
<1>4. ASSUME NEW c PROVE c \in CallsOf(n) <=> c \in CallsOf(m) \/ c = {a, b}
  BY <1>1, <1>2, <1>3, CallMember DEF Busy
<1> QED
  BY <1>4 DEF n

(* Idling both ends of a's call takes away that call alone.                *)
LEMMA IdleCalls ==
  ASSUME NEW m, MembersOK(m), OneToOne(m), NEW a \in DOMAIN m,
         NEW n, DOMAIN n \subseteq DOMAIN m, DOMAIN m \ {a} \subseteq DOMAIN n,
         \A i \in DOMAIN n :
           n[i] = IF i \in {a, m[a].peer_id} THEN Idled(m[i]) ELSE m[i]
  PROVE  CallsOf(n) = {c \in CallsOf(m) : a \notin c}
<1>1. \A i \in DOMAIN n : i \in {a, m[a].peer_id} => ~Busy(n, i)
  <2> TAKE i \in DOMAIN n
  <2>1. m[i] \in MemberRec
    BY DEF MembersOK
  <2>2. Idled(m[i]).state = "idle"
    BY <2>1 DEF Idled, MemberRec
  <2> QED
    BY <2>2 DEF Busy
<1>2. ASSUME NEW c \in CallsOf(n) PROVE c \in CallsOf(m) /\ a \notin c
  <2>1. PICK i \in DOMAIN n : Busy(n, i) /\ c = {i, n[i].peer_id}
    BY CallMember
  <2>2. i \notin {a, m[a].peer_id} /\ n[i] = m[i] /\ Busy(m, i)
    BY <1>1, <2>1 DEF Busy
  <2>3. m[i].peer_id # a
    BY <2>2 DEF OneToOne, IsPaired
  <2> QED
    BY <2>1, <2>2, <2>3, CallMember
<1>3. ASSUME NEW c \in CallsOf(m), a \notin c PROVE c \in CallsOf(n)
  <2>1. PICK i \in DOMAIN m : Busy(m, i) /\ c = {i, m[i].peer_id}
    BY CallMember
  <2>2. i # a /\ m[i].peer_id # a
    BY <1>3, <2>1
  <2>3. i # m[a].peer_id
    <3>1. i # NoPeer
      BY IdAssumption DEF MembersOK, Ids, NoPeer
    <3> QED
      BY <2>2, <3>1 DEF OneToOne, IsPaired
  <2>4. i \in DOMAIN n /\ n[i] = m[i]
    BY <2>2, <2>3
  <2> QED
    BY <2>1, <2>4, CallMember DEF Busy
<1> QED
  BY <1>2, <1>3

-----------------------------------------------------------------------------
\* At first the registry is an empty pairing.
LEMMA PairingInit == Init => Pairing!Init
<1> SUFFICES ASSUME Init PROVE Pairing!Init
  OBVIOUS
<1>1. DOMAIN members = {} /\ next_id = 1
  BY DEF Init
<1>2. Calls = {}
  BY <1>1 DEF Calls
<1> QED
  BY <1>1, <1>2 DEF Pairing!Init

(* A step that leaves the registry alone is a stutter.                     *)
LEMMA PairingStutter ==
  ASSUME UNCHANGED <<members, next_id>>
  PROVE  UNCHANGED Pairing!vars
  BY DEF Pairing!vars, Calls, Busy

\* Every step of the server is one of the pairing, or leaves it alone.
LEMMA PairingNext == IInv /\ [Next]_vars => [Pairing!Next]_(Pairing!vars)
<1> SUFFICES ASSUME IInv, [Next]_vars
             PROVE  Pairing!Next \/ UNCHANGED Pairing!vars
  OBVIOUS
<1>1. /\ MembersOK(members) /\ OneToOne(members)
      /\ Calls = CallsOf(members) /\ Calls' = CallsOf(members')
      /\ DOMAIN members \subseteq 1 .. next_id - 1 /\ next_id \in Nat \ {0}
      /\ DOMAIN members \subseteq Ids
  BY IdAssumption
     DEF IInv, RegistryInv, Calls, CallsOf, Busy, MembersOK, Ids
<1>2. ASSUME NEW h \in Handles, NEW name \in Names, RegisterAccepted(h, name)
      PROVE  Pairing!Next
  <2>1. /\ next_id \in Ids \ DOMAIN members /\ next_id' = next_id + 1
        /\ members' = Put(members, next_id, Member(name))
    <3>1. next_id \notin DOMAIN members
      BY <1>1
    <3> QED
      BY <1>1, <1>2, <3>1 DEF RegisterAccepted, Ids
  <2>2. DOMAIN members' = DOMAIN members \cup {next_id}
    BY <2>1 DEF Put
  <2>3. Calls' = Calls
    BY <1>1, <2>1, RegisterCalls
  <2>4. (1 .. next_id' - 1) \ DOMAIN members' = (1 .. next_id - 1) \ DOMAIN members
    BY <1>1, <2>1, <2>2
  <2>5. Pairing!Join(next_id)
    BY <1>1, <2>1, <2>2, <2>3, <2>4 DEF Pairing!Join
  <2> QED
    BY <2>1, <2>5 DEF Pairing!Next
<1>3. ASSUME NEW h \in Handles, NEW to \in Targets, NEW body \in Bodies,
             CallAccepted(h, to, body)
      PROVE  Pairing!Next
  <2> DEFINE self == hdl_to_id[h]
  <2>1. /\ CallResult(members, self, to) = "ok"
        /\ members' = Pair(members, self, to) /\ next_id' = next_id
    BY <1>3 DEF CallAccepted, FromClient
  <2>2. /\ self # to /\ {self, to} \subseteq DOMAIN members
        /\ ~Busy(members, self) /\ ~Busy(members, to)
        /\ DOMAIN members' = DOMAIN members
    BY <1>1, <2>1, CallLemma
  <2>3. Calls' = Calls \cup {{self, to}}
    BY <1>1, <2>1, PairCalls
  <2>4. \A c \in Calls : self \notin c /\ to \notin c
    BY <1>1, <2>2, EndsBusy
  <2>5. Pairing!Call(self, to)
    BY <2>1, <2>2, <2>3, <2>4 DEF Pairing!Call, Pairing!InCall
  <2>6. self \in Ids /\ to \in Ids
    BY <1>1, <2>2
  <2> QED
    BY <2>5, <2>6 DEF Pairing!Next
<1>4. ASSUME NEW h \in Handles, CallLeft(h) PROVE Pairing!Next
  <2> DEFINE self == hdl_to_id[h]
             peer == members[self].peer_id
             call == {self, peer}
  <2>1. self \in DOMAIN members /\ GetPeer(members, self) = peer
    BY <1>4 DEF CallLeft, FromClient, IInv, RegistryInv, MapsConsistent, Range,
       GetPeer, Has
  <2>2. members' = Hangup(members, self, peer) /\ next_id' = next_id
        /\ Busy(members, self)
    BY <1>1, <1>4, <2>1 DEF CallLeft, FromClient, OneToOne
  <2>3. DOMAIN members' = DOMAIN members
    BY <2>2 DEF Hangup
  <2>4. Calls' = {c \in Calls : self \notin c}
    <3>1. \A i \in DOMAIN members' :
            members'[i] = IF i \in {self, peer} THEN Idled(members[i]) ELSE members[i]
      BY <2>2 DEF Hangup
    <3> HIDE DEF self
    <3> QED
      BY <1>1, <2>1, <2>3, <3>1, IdleCalls
  <2>5. call \in Calls
    BY <1>1, <2>1, <2>2, CallMember
  <2>6. \A c \in Calls : self \in c => c = call
    BY <1>1, EndsBusy
  <2>7. Calls' = Calls \ {call}
    BY <2>4, <2>6
  <2>8. Pairing!End(call)
    BY <2>2, <2>3, <2>7 DEF Pairing!End
  <2> QED
    BY <2>5, <2>8 DEF Pairing!Next
<1>5. ASSUME NEW h \in Handles, DropClient(h) PROVE Pairing!Next
  <2> DEFINE id == hdl_to_id[h]
  <2>1. id \in DOMAIN members
    BY <1>5 DEF DropClient, IInv, RegistryInv, MapsConsistent, Range
  <2>2. members' = Remove(members, id) /\ next_id' = next_id
    BY <1>5 DEF DropClient
  <2>3. DOMAIN members' = DOMAIN members \ {id}
    BY <2>2 DEF Remove
  <2>4. Calls' = {c \in Calls : id \notin c}
    <3>1. \A i \in DOMAIN members' :
            members'[i] = IF i \in {id, members[id].peer_id} THEN Idled(members[i])
                          ELSE members[i]
      BY <2>1, <2>2 DEF Remove, GetPeer, Has
    <3> HIDE DEF id
    <3> QED
      BY <1>1, <2>1, <2>3, <3>1, IdleCalls
  <2>5. (1 .. next_id' - 1) \ DOMAIN members'
          = ((1 .. next_id - 1) \ DOMAIN members) \cup {id}
    BY <1>1, <2>1, <2>2, <2>3
  <2>6. Pairing!Depart(id)
    BY <2>1, <2>3, <2>4, <2>5 DEF Pairing!Depart
  <2> QED
    BY <1>1, <2>1, <2>6 DEF Pairing!Next
<1>6. ASSUME NEW h \in Handles,
             QuietMessage(h) \/ OnOpen(h) \/ OnPong(h) \/ Vanish(h)
               \/ (OnClose(h) /\ ~DropClient(h))
      PROVE  UNCHANGED <<members, next_id>>
  BY <1>6, QuietMessageLemma
     DEF OnOpen, OnPong, Vanish, OnClose, DropAnonymous, registry
<1>7. CASE OnHeartbeat \/ Tick \/ UNCHANGED vars
  <2>1. UNCHANGED <<members, next_id>>
    BY <1>7 DEF OnHeartbeat, Tick, vars, registry
  <2> QED
    BY <2>1, PairingStutter
<1>8. ASSUME NEW h \in Handles, OnMessage(h)
      PROVE  Pairing!Next \/ UNCHANGED Pairing!vars
  <2>1. \/ QuietMessage(h) \/ CallLeft(h)
        \/ \E name \in Names : RegisterAccepted(h, name)
        \/ \E to \in Targets, body \in Bodies : CallAccepted(h, to, body)
    BY <1>8 DEF OnMessage, QuietMessage
  <2> QED
    BY <1>2, <1>3, <1>4, <1>6, <2>1, PairingStutter
<1>9. ASSUME NEW h \in Handles, OnOpen(h) \/ OnClose(h) \/ OnPong(h) \/ Vanish(h)
      PROVE  Pairing!Next \/ UNCHANGED Pairing!vars
  BY <1>5, <1>6, <1>9, PairingStutter DEF OnClose
<1> QED
  BY <1>7, <1>8, <1>9 DEF Next

(* The server implements CallPairing.                                      *)
THEOREM RefinesPairing == Spec => PairingSpec
  BY PairingInit, PairingNext, Inductive, PTL DEF Spec, PairingSpec, Pairing!Spec

-----------------------------------------------------------------------------
(***************************************************************************)
(* What the clients are told: every change of the roster, and the end of a *)
(* call once.  Each handler's output is put together of what Send gives    *)
(* one connection, so the lemmas say what a connection h gets of each part.*)
(***************************************************************************)

(* What one connection gets of an output.                                  *)
LEMMA OutputAt ==
  ASSUME NEW h \in Handles
  PROVE  /\ Silence[h] = <<>>
         /\ \A hs, msg : Send(hs, msg)[h] =
              IF h \in hs /\ conn[h] = "open" THEN <<msg>> ELSE <<>>
         /\ \A s, t : (s ++ t)[h] = s[h] \o t[h]
  BY DEF Silence, Send, ++

(* A roster that is broadcast last is the last message of each client.     *)
LEMMA BroadcastLast ==
  ASSUME NEW s \in Outputs, NEW i2h, NEW m, MembersOK(m),
         NEW h \in Handles, h \in Range(i2h), conn[h] = "open",
         NEW out, out = s ++ BroadcastRoster(i2h, m)
  PROVE  out[h] # <<>> /\ out[h][Len(out[h])] = RosterMsg(m)
<1>1. BroadcastRoster(i2h, m)[h] = <<RosterMsg(m)>>
  BY DEF BroadcastRoster, Send
<1>2. out[h] = s[h] \o <<RosterMsg(m)>>
  BY <1>1 DEF ++
<1>3. s[h] \in Seq(ServerMsg) /\ <<RosterMsg(m)>> \in Seq(ServerMsg)
  BY RosterType DEF Outputs
<1> QED
  BY <1>2, <1>3

(* The registry changes in four handlers only.                             *)
LEMMA ChangesMembers ==
  ASSUME [Next]_vars, members' # members
  PROVE  \E h \in Handles :
           \/ \E name \in Names : RegisterAccepted(h, name)
           \/ \E to \in Targets, body \in Bodies : CallAccepted(h, to, body)
           \/ CallLeft(h)
           \/ OnClose(h) /\ DropClient(h)
<1>1. ASSUME NEW h \in Handles, OnMessage(h)
      PROVE  \/ \E name \in Names : RegisterAccepted(h, name)
             \/ \E to \in Targets, body \in Bodies : CallAccepted(h, to, body)
             \/ CallLeft(h)
  <2>1. ~QuietMessage(h)
    BY QuietMessageLemma DEF registry
  <2> QED
    BY <1>1, <2>1 DEF OnMessage, QuietMessage
<1>2. ASSUME NEW h \in Handles, OnClose(h) PROVE DropClient(h)
  BY <1>2 DEF OnClose, DropAnonymous, registry
<1>3. ASSUME NEW h \in Handles, OnOpen(h) \/ OnPong(h) \/ Vanish(h) PROVE FALSE
  BY <1>3 DEF OnOpen, OnPong, Vanish, registry
<1>4. ~(OnHeartbeat \/ Tick \/ UNCHANGED vars)
  BY DEF OnHeartbeat, Tick, vars, registry
<1> QED
  BY <1>1, <1>2, <1>3, <1>4 DEF Next

(* Whoever can receive it gets the new roster last.                        *)
THEOREM RosterIsBroadcast == Spec => RosterBroadcast
<1>1. ASSUME IInv, IInv', [Next]_vars, Roster(members') # Roster(members),
             NEW h \in DOMAIN hdl_to_id', conn'[h] = "open"
      PROVE  sent'[h] # <<>> /\ sent'[h][Len(sent'[h])] = RosterMsg(members')
  <2>1. /\ MembersOK(members') /\ h \in Range(id_to_hdl') /\ h \in Handles
        /\ \A i \in DOMAIN hdl_to_id : hdl_to_id[i] \in Ids
    BY <1>1 DEF IInv, RegistryInv, MapsConsistent, Range
  <2>2. ASSUME NEW g \in Handles, NEW name \in Names, RegisterAccepted(g, name)
        PROVE  \E s \in Outputs : sent' = s ++ BroadcastRoster(id_to_hdl', members')
    <3>1. next_id \in Ids
      BY <1>1, <2>2 DEF RegisterAccepted, IInv, RegistryInv, Ids
    <3>2. SendToHdl(g, Welcome(next_id)) \in Outputs
      BY <3>1, OutputTypes, MessageTypes DEF SendToHdl
    <3> QED
      BY <2>2, <3>2 DEF RegisterAccepted
  <2>3. ASSUME NEW g \in Handles, NEW to \in Targets, NEW body \in Bodies,
               CallAccepted(g, to, body)
        PROVE  \E s \in Outputs : sent' = s ++ BroadcastRoster(id_to_hdl', members')
    <3>1. Stamped("call", hdl_to_id[g], body) \in ServerMsg
      BY <2>1, <2>3, MessageTypes DEF CallAccepted, FromClient
    <3>2. SendTo(id_to_hdl, to, Stamped("call", hdl_to_id[g], body)) \in Outputs
      BY <3>1, OutputTypes DEF SendTo
    <3> QED
      BY <2>3, <3>2 DEF CallAccepted, FromClient, maps
  <2>4. ASSUME NEW g \in Handles, CallLeft(g)
        PROVE  \E s \in Outputs : sent' = s ++ BroadcastRoster(id_to_hdl', members')
    <3> DEFINE self == hdl_to_id[g]
               told == SendToHdl(g, Notice("leave", self))
                         ++ SendTo(id_to_hdl, GetPeer(members, self), Notice("leave", self))
    <3>1. Notice("leave", self) \in ServerMsg
      BY <2>1, <2>4, MessageTypes DEF CallLeft, FromClient
    <3>2. told \in Outputs
      BY <3>1, OutputTypes DEF SendTo, SendToHdl
    <3>3. sent' = told ++ BroadcastRoster(id_to_hdl', members')
      BY <2>4 DEF CallLeft, FromClient, maps
    <3> QED
      BY <3>2, <3>3
  <2>5. ASSUME NEW g \in Handles, OnClose(g), DropClient(g)
        PROVE  \E s \in Outputs : sent' = s ++ BroadcastRoster(id_to_hdl', members')
    <3> DEFINE gone == Notice("peer_gone", hdl_to_id[g])
    <3>1. gone \in ServerMsg
      BY <2>1, <2>5, MessageTypes DEF DropClient
    <3>2. \A peer : SendTo(id_to_hdl', peer, gone) \in Outputs
      BY <3>1, OutputTypes DEF SendTo
    <3> QED
      BY <2>5, <3>2 DEF DropClient
  <2>6. members' # members
    BY <1>1
  <2>7. /\ \E s \in Outputs : sent' = s ++ BroadcastRoster(id_to_hdl', members')
        /\ conn[h] = "open"
    <3>1. \A g \in Handles : OnClose(g) => conn[h] = "open"
      BY <1>1, <2>1 DEF OnClose, IInv, HeartbeatInv, HeartbeatTypes
    <3>2. \A g \in Handles : /\ \A name \in Names : RegisterAccepted(g, name) => conn' = conn
                             /\ \A to \in Targets, body \in Bodies :
                                  CallAccepted(g, to, body) => conn' = conn
                             /\ CallLeft(g) => conn' = conn
      BY DEF RegisterAccepted, CallAccepted, CallLeft, FromClient
    <3> QED
      BY <1>1, <2>2, <2>3, <2>4, <2>5, <2>6, <3>1, <3>2, ChangesMembers
  <2> QED
    BY <2>1, <2>7, BroadcastLast
<1>2. IInv /\ IInv' /\ [Next]_vars =>
        [Roster(members') # Roster(members) =>
           \A h \in DOMAIN hdl_to_id' : conn'[h] = "open" =>
             /\ sent'[h] # <<>>
             /\ sent'[h][Len(sent'[h])] = RosterMsg(members')]_vars
  BY <1>1
<1> QED
  BY <1>2, Inductive, PTL DEF Spec, RosterBroadcast

-----------------------------------------------------------------------------
(* Notices of the end of a call.                                           *)

NoticeTypes == {"leave", "peer_gone"}

\* Nothing sent tells nobody.
LEMMA NoNotices == EndNotices(<<>>) = {}
  BY DEF EndNotices

(* Where the notices of a sequence made of two parts are.                  *)
LEMMA NoticesOfParts ==
  ASSUME NEW s \in Seq(ServerMsg), NEW t \in Seq(ServerMsg), EndNotices(t) = {}
  PROVE  /\ EndNotices(s \o t) = EndNotices(s)
         /\ \A k \in EndNotices(s) : (s \o t)[k] = s[k]
<1>1. /\ Len(s) \in Nat /\ Len(t) \in Nat
      /\ DOMAIN s = 1 .. Len(s) /\ DOMAIN t = 1 .. Len(t)
      /\ DOMAIN (s \o t) = 1 .. Len(s) + Len(t)
      /\ \A k \in 1 .. Len(s) : (s \o t)[k] = s[k]
      /\ \A k \in 1 .. Len(t) : (s \o t)[Len(s) + k] = t[k]
  OBVIOUS
<1>2. ASSUME NEW k \in DOMAIN (s \o t), k \notin DOMAIN s
      PROVE  (s \o t)[k].type \notin NoticeTypes
  <2>1. k - Len(s) \in DOMAIN t /\ Len(s) + (k - Len(s)) = k
    BY <1>1, <1>2
  <2>2. t[k - Len(s)].type \notin NoticeTypes
    BY <2>1 DEF EndNotices, NoticeTypes
  <2> QED
    BY <1>1, <2>1, <2>2
<1>3. \A k : k \in EndNotices(s \o t) <=> k \in EndNotices(s)
  BY <1>1, <1>2 DEF EndNotices, NoticeTypes
<1> QED
  BY <1>1, <1>3 DEF EndNotices

(* One message is one notice or none.                                      *)
LEMMA NoticeAt ==
  ASSUME NEW msg \in ServerMsg, NEW hs, NEW h \in Handles
  PROVE  /\ msg.type \notin NoticeTypes => EndNotices(Send(hs, msg)[h]) = {}
         /\ h \notin hs \/ conn[h] # "open" => Send(hs, msg)[h] = <<>>
         /\ msg.type \in NoticeTypes /\ h \in hs /\ conn[h] = "open" =>
              EndNotices(Send(hs, msg)[h]) = {1} /\ Send(hs, msg)[h][1] = msg
         /\ Send(hs, msg)[h] \in Seq(ServerMsg)
<1>1. Send(hs, msg)[h] = IF h \in hs /\ conn[h] = "open" THEN <<msg>> ELSE <<>>
  BY OutputAt
<1>2. EndNotices(<<>>) = {}
  BY NoNotices
<1>3. EndNotices(<<msg>>) = IF msg.type \in NoticeTypes THEN {1} ELSE {}
  <2>1. DOMAIN <<msg>> = {1} /\ <<msg>>[1] = msg
    OBVIOUS
  <2> QED
    BY <2>1 DEF EndNotices, NoticeTypes
<1> QED
  BY <1>1, <1>2, <1>3

\* Of all that the server sends only leave and peer_gone are notices.
LEMMA PlainTypes ==
  /\ \A i : Welcome(i).type \notin NoticeTypes
  /\ \A m : RosterMsg(m).type \notin NoticeTypes
  /\ \A code : ErrorMsg(code).type \notin NoticeTypes
  /\ \A i : Notice("message", i).type \notin NoticeTypes
  /\ \A i, body : \A type \in {"call", "answer", "candidate"} :
       Stamped(type, i, body).type \notin NoticeTypes
  /\ \A i : \A type \in NoticeTypes : Notice(type, i).type = type /\ Notice(type, i).from = i
  BY DEF Welcome, RosterMsg, ErrorMsg, Notice, Stamped, NoticeTypes

(* What EndOfCallNotified asks of the step for the client on h.            *)
Ended(h) ==
  LET id == hdl_to_id[h]  peer == members[id].peer_id
  IN  peer # NoPeer /\ members'[id].peer_id # peer

NoticeRight(h) ==
  LET id == hdl_to_id[h]  peer == members[id].peer_id
  IN  /\ conn[h] = "open" /\ Ended(h) => \E k \in DOMAIN sent'[h] :
           EndNotices(sent'[h]) = {k} /\ sent'[h][k].from \in {id, peer}
      /\ ~Ended(h) => EndNotices(sent'[h]) = {}

(* No call ends and no notice is sent.                                     *)
LEMMA NothingTold ==
  ASSUME NEW h, ~Ended(h), EndNotices(sent'[h]) = {}
  PROVE  NoticeRight(h)
  BY DEF NoticeRight

\* While the members do not change no call ends.
LEMMA NotEndedUnchanged ==
  ASSUME NEW h, members' = members
  PROVE  ~Ended(h)
  BY DEF Ended

(* An output of at most one message for each, which is no notice.          *)
Plain(out) ==
  \/ out = Silence
  \/ \E hs : \E msg \in ServerMsg : msg.type \notin NoticeTypes /\ out = Send(hs, msg)

\* A step that sends no notice and leaves the members alone notifies rightly.
LEMMA PlainTold ==
  ASSUME NEW h \in Handles, Plain(sent'), members' = members
  PROVE  NoticeRight(h)
<1>1. EndNotices(sent'[h]) = {}
  <2>1. EndNotices(Silence[h]) = {}
    <3>1. Silence[h] = <<>>
      BY DEF Silence
    <3> QED
      BY <3>1, NoNotices
  <2> QED
    BY <2>1, NoticeAt DEF Plain
<1> QED
  BY <1>1, NothingTold, NotEndedUnchanged

(* A message that pairs and unpairs nobody carries no notice.              *)
LEMMA QuietPlain ==
  ASSUME IInv, NEW g \in Handles, QuietMessage(g)
  PROVE  Plain(sent')
<1>1. RosterMsg(members) \in ServerMsg
  BY RosterType DEF IInv, RegistryInv
<1>2. \A f \in DOMAIN hdl_to_id : hdl_to_id[f] \in Ids
  BY DEF IInv, RegistryInv
<1> USE MessageTypes, PlainTypes DEF SendTo, SendToHdl
<1>3. ASSUME NEW name \in Names, RegisterRefused(g, name) PROVE Plain(sent')
  BY <1>3 DEF RegisterRefused, Plain
<1>4. ASSUME NEW to \in Targets, CallRefused(g, to) PROVE Plain(sent')
  BY <1>4 DEF CallRefused, Plain
<1>5. ASSUME NEW to \in Targets, Message(g, to) PROVE Plain(sent')
  BY <1>2, <1>5 DEF Message, FromClient, Plain
<1>6. ASSUME NEW to \in Targets, NEW body \in Bodies,
             NEW type \in {"answer", "candidate"}, Relayed(g, type, to, body)
      PROVE  Plain(sent')
  <2>1. /\ Stamped(type, hdl_to_id[g], body) \in ServerMsg
        /\ Stamped(type, hdl_to_id[g], body).type \notin NoticeTypes
    BY <1>2, <1>6 DEF Relayed, FromClient
  <2> QED
    BY <1>6, <2>1 DEF Relayed, Plain
<1>7. CASE GetRoster(g)
  BY <1>1, <1>7 DEF GetRoster, Plain
<1>8. CASE Ignored(g)
  BY <1>8 DEF Ignored, Plain
<1> QED
  BY <1>3, <1>4, <1>5, <1>6, <1>7, <1>8 DEF QuietMessage

(* A roster broadcast after a part adds no notice to it.                   *)
LEMMA RosterAdds ==
  ASSUME NEW s \in Outputs, NEW i2h, NEW m, MembersOK(m), NEW h \in Handles,
         sent' = s ++ BroadcastRoster(i2h, m)
  PROVE  /\ EndNotices(sent'[h]) = EndNotices(s[h])
         /\ \A k \in EndNotices(s[h]) : k \in DOMAIN sent'[h] /\ sent'[h][k] = s[h][k]
<1> DEFINE first == s[h]
           last  == BroadcastRoster(i2h, m)[h]
<1>1. EndNotices(last) = {} /\ last \in Seq(ServerMsg)
  BY NoticeAt, PlainTypes, RosterType DEF BroadcastRoster
<1>2. sent'[h] = first \o last /\ first \in Seq(ServerMsg)
  BY DEF ++, Outputs
<1> HIDE DEF first, last
<1>3. /\ EndNotices(sent'[h]) = EndNotices(first)
      /\ \A k \in EndNotices(first) : sent'[h][k] = first[k]
  <2>1. /\ EndNotices(first \o last) = EndNotices(first)
        /\ \A k \in EndNotices(first) : (first \o last)[k] = first[k]
    BY <1>1, <1>2, NoticesOfParts
  <2> QED
    BY <1>2, <2>1
<1>4. EndNotices(sent'[h]) \subseteq DOMAIN sent'[h]
  BY DEF EndNotices
<1> QED
  BY <1>3, <1>4 DEF first

\* So does an accepted registration.
LEMMA RegisterTold ==
  ASSUME IInv, IInv', NEW g \in Handles, NEW name \in Names, RegisterAccepted(g, name),
         NEW h \in DOMAIN hdl_to_id
  PROVE  NoticeRight(h)
<1>1. /\ h \in Handles /\ hdl_to_id[h] \in DOMAIN members /\ MembersOK(members')
  BY DEF IInv, RegistryInv, MapsConsistent, Range
<1>2. next_id \in Ids /\ next_id \notin DOMAIN members
  BY DEF RegisterAccepted, IInv, RegistryInv, Ids
<1>3. ~Ended(h)
  <2>1. members' = Put(members, next_id, Member(name))
    BY DEF RegisterAccepted
  <2>2. members'[hdl_to_id[h]] = members[hdl_to_id[h]]
    BY <1>1, <1>2, <2>1 DEF Put
  <2> QED
    BY <2>2 DEF Ended
<1> DEFINE s == SendToHdl(g, Welcome(next_id))
<1>4. Welcome(next_id) \in ServerMsg
  BY <1>2, MessageTypes
<1>5. EndNotices(s[h]) = {} /\ s \in Outputs
  BY <1>1, <1>4, NoticeAt, PlainTypes, OutputTypes DEF SendToHdl
<1>6. sent' = s ++ BroadcastRoster(id_to_hdl', members')
  BY DEF RegisterAccepted
<1>7. EndNotices(sent'[h]) = {}
  BY <1>1, <1>5, <1>6, RosterAdds
<1> QED
  BY <1>3, <1>7, NothingTold

\* So does an accepted call.
LEMMA CallTold ==
  ASSUME IInv, IInv', NEW g \in Handles, NEW to \in Targets, NEW body \in Bodies,
         CallAccepted(g, to, body), NEW h \in DOMAIN hdl_to_id
  PROVE  NoticeRight(h)
<1> DEFINE self == hdl_to_id[g]
           s == SendTo(id_to_hdl, to, Stamped("call", self, body))
<1>1. /\ h \in Handles /\ hdl_to_id[h] \in DOMAIN members /\ self \in Ids
      /\ MembersOK(members') /\ MembersOK(members) /\ OneToOne(members)
  BY DEF CallAccepted, FromClient, IInv, RegistryInv, MapsConsistent, Range
<1>2. /\ CallResult(members, self, to) = "ok"
      /\ members' = Pair(members, self, to)
  BY DEF CallAccepted
<1>3. ~Busy(members, self) /\ ~Busy(members, to)
  BY <1>1, <1>2, CallLemma
<1>4. ~Ended(h)
  <2>1. \A i \in DOMAIN members \ {self, to} : members'[i] = members[i]
    BY <1>2 DEF Pair
  <2> QED
    BY <1>1, <1>3, <2>1 DEF Ended, OneToOne
<1>5. Stamped("call", self, body) \in ServerMsg
  BY <1>1, MessageTypes
<1>6. EndNotices(s[h]) = {} /\ s \in Outputs
  BY <1>1, <1>5, NoticeAt, PlainTypes, OutputTypes DEF SendTo
<1>7. sent' = s ++ BroadcastRoster(id_to_hdl, members')
  BY DEF CallAccepted
<1>8. EndNotices(sent'[h]) = {}
  BY <1>1, <1>6, <1>7, RosterAdds
<1> QED
  BY <1>4, <1>8, NothingTold

(* leave: the end that leaves and the other each get one notice.           *)
LEMMA LeaveTold ==
  ASSUME IInv, IInv', NEW g \in Handles, CallLeft(g), NEW h \in DOMAIN hdl_to_id
  PROVE  NoticeRight(h)
<1> DEFINE id == hdl_to_id[h]
           self == hdl_to_id[g]
           peer == members[self].peer_id
           leave == Notice("leave", self)
           s == SendToHdl(g, leave)
           t == SendTo(id_to_hdl, peer, leave)
           others == {id_to_hdl[i] : i \in {peer} \cap DOMAIN id_to_hdl}
<1>1. /\ h \in Handles /\ id \in DOMAIN members /\ self \in Ids
      /\ self \in DOMAIN members /\ GetPeer(members, self) = peer
      /\ id_to_hdl[id] = h /\ id_to_hdl[self] = g
      /\ MembersOK(members') /\ MembersOK(members) /\ OneToOne(members)
  BY DEF CallLeft, FromClient, IInv, RegistryInv, MapsConsistent, Range, GetPeer, Has
<1>2. /\ members' = Hangup(members, self, peer) /\ peer # NoPeer
      /\ sent' = (s ++ t) ++ BroadcastRoster(id_to_hdl, members')
  BY <1>1 DEF CallLeft
<1>3. /\ peer \in DOMAIN members /\ peer # self /\ members[peer].peer_id = self
      /\ self # NoPeer
  BY <1>1, <1>2 DEF OneToOne, IsPaired, Has, MembersOK, Ids, NoPeer
<1>4. Ended(h) <=> id \in {self, peer}
  <2>1. \A i \in {self, peer} : members[i] \in MemberRec
    BY <1>1, <1>3 DEF MembersOK
  <2>2. members'[id] = IF id \in {self, peer} THEN Idled(members[id]) ELSE members[id]
    BY <1>1, <1>2 DEF Hangup
  <2>3. id \in {self, peer} => members'[id].peer_id = NoPeer
    BY <2>1, <2>2 DEF Idled, MemberRec
  <2> QED
    BY <1>2, <1>3, <2>2, <2>3 DEF Ended
<1>5. h = g <=> id = self
  BY <1>1
<1>6. h \in others <=> id = peer
  <2>1. peer \in DOMAIN id_to_hdl /\ hdl_to_id[id_to_hdl[peer]] = peer
    BY <1>3 DEF IInv, RegistryInv, MapsConsistent
  <2> QED
    BY <1>1, <2>1
<1>7. leave \in ServerMsg /\ leave.type \in NoticeTypes /\ leave.from = self
  BY <1>1, MessageTypes, PlainTypes DEF NoticeTypes
<1>8. s \in Outputs /\ t \in Outputs /\ (s ++ t) \in Outputs
  BY <1>7, OutputTypes DEF SendTo, SendToHdl
<1>9. (s ++ t)[h] = s[h] \o t[h] /\ s[h] \in Seq(ServerMsg) /\ t[h] \in Seq(ServerMsg)
  BY <1>1, <1>8 DEF ++, Outputs
<1>10. s = Send({g}, leave) /\ t = Send(others, leave)
  BY DEF SendTo, SendToHdl
<1> HIDE DEF s, t, leave, others
<1>11. CASE id \notin {self, peer} \/ conn[h] # "open"
  <2>1. s[h] = <<>> /\ t[h] = <<>>
    BY <1>1, <1>5, <1>6, <1>7, <1>10, <1>11, NoticeAt
  <2>2. (s ++ t)[h] = <<>>
    BY <1>9, <2>1, ConcatEmptySeq
  <2>3. EndNotices(sent'[h]) = {}
    BY <1>1, <1>2, <1>8, <2>2, RosterAdds, NoNotices
  <2> QED
    BY <1>4, <1>11, <2>3 DEF NoticeRight
<1>12. CASE id \in {self, peer} /\ conn[h] = "open"
  <2>1. EndNotices((s ++ t)[h]) = {1} /\ (s ++ t)[h][1] = leave
    <3>1. CASE id = self
      <4>1. t[h] = <<>> /\ EndNotices(s[h]) = {1} /\ s[h][1] = leave
        BY <1>1, <1>3, <1>5, <1>6, <1>7, <1>10, <1>12, <3>1, NoticeAt
      <4>2. s[h] \o t[h] = s[h]
        BY <1>9, <4>1, ConcatEmptySeq
      <4> QED
        BY <1>9, <4>1, <4>2
    <3>2. CASE id = peer
      <4>1. s[h] = <<>> /\ EndNotices(t[h]) = {1} /\ t[h][1] = leave
        <5>1. h # g /\ h \in others /\ h \in Handles /\ conn[h] = "open"
          BY <1>1, <1>3, <1>5, <1>6, <1>12, <3>2
        <5>2. s[h] = <<>>
          BY <1>7, <1>10, <5>1, NoticeAt
        <5> QED
          BY <1>7, <1>10, <5>1, <5>2, NoticeAt
      <4>2. s[h] \o t[h] = t[h]
        BY <1>9, <4>1, ConcatEmptySeq
      <4> QED
        BY <1>9, <4>1, <4>2
    <3> QED
      BY <1>12, <3>1, <3>2
  <2>2. EndNotices(sent'[h]) = {1} /\ 1 \in DOMAIN sent'[h] /\ sent'[h][1] = leave
    BY <1>1, <1>2, <1>8, <2>1, RosterAdds
  <2>3. leave.from \in {id, members[id].peer_id}
    BY <1>3, <1>7, <1>12
  <2> QED
    BY <1>4, <1>12, <2>2, <2>3 DEF NoticeRight
<1> QED
  BY <1>11, <1>12

(* A drop: the other end alone gets one notice.                            *)
LEMMA DropTold ==
  ASSUME IInv, IInv', NEW g \in Handles, OnClose(g), DropClient(g),
         NEW h \in DOMAIN hdl_to_id, h # g
  PROVE  NoticeRight(h)
<1> DEFINE id == hdl_to_id[h]
           self == hdl_to_id[g]
           peer == members[self].peer_id
           gone == Notice("peer_gone", self)
           t == SendTo(id_to_hdl', peer, gone)
           others == {id_to_hdl'[i] : i \in {peer} \cap DOMAIN id_to_hdl'}
<1>1. /\ h \in Handles /\ id \in DOMAIN members /\ self \in Ids
      /\ self \in DOMAIN members /\ GetPeer(members, self) = peer
      /\ id_to_hdl[id] = h /\ id_to_hdl[self] = g
      /\ MembersOK(members') /\ MembersOK(members) /\ OneToOne(members)
  BY DEF DropClient, IInv, RegistryInv, MapsConsistent, Range, GetPeer, Has
<1>2. /\ members' = Remove(members, self) /\ id_to_hdl' = Erase(id_to_hdl, self)
      /\ sent' = t ++ BroadcastRoster(id_to_hdl', members')
  BY <1>1 DEF DropClient
<1>3. /\ id # self /\ self # NoPeer
      /\ id = peer <=> members[id].peer_id = self
  BY <1>1 DEF OneToOne, IsPaired, Has, Busy, MembersOK, Ids, NoPeer
<1>4. Ended(h) <=> id = peer
  <2>1. members'[id] = IF id = peer THEN Idled(members[id]) ELSE members[id]
    BY <1>1, <1>2, <1>3 DEF Remove
  <2>2. members[id] \in MemberRec
    BY <1>1 DEF MembersOK
  <2>3. id = peer => members'[id].peer_id = NoPeer
    BY <2>1, <2>2 DEF Idled, MemberRec
  <2> QED
    BY <1>3, <2>1, <2>3 DEF Ended
<1>5. h \in others <=> id = peer
  <2>1. /\ DOMAIN id_to_hdl' = DOMAIN id_to_hdl \ {self}
        /\ \A i \in DOMAIN id_to_hdl' : id_to_hdl'[i] = id_to_hdl[i]
    BY <1>2, EraseFacts
  <2>2. id \in DOMAIN id_to_hdl'
    BY <1>1, <1>3, <2>1 DEF IInv, RegistryInv, MapsConsistent
  <2>3. \A i \in DOMAIN id_to_hdl : hdl_to_id[id_to_hdl[i]] = i
    BY DEF IInv, RegistryInv, MapsConsistent
  <2> QED
    BY <1>1, <2>1, <2>2, <2>3
<1>6. gone \in ServerMsg /\ gone.type \in NoticeTypes /\ gone.from = self
  BY <1>1, MessageTypes, PlainTypes DEF NoticeTypes
<1>7. t \in Outputs
  BY <1>6, OutputTypes DEF SendTo
<1>8. CASE id # peer \/ conn[h] # "open"
  <2>1. t[h] = <<>>
    BY <1>1, <1>5, <1>6, <1>8, NoticeAt DEF SendTo
  <2>2. EndNotices(t[h]) = {}
    BY <2>1 DEF EndNotices
  <2>3. EndNotices(sent'[h]) = {}
    BY <1>1, <1>2, <1>7, <2>2, RosterAdds
  <2> QED
    BY <1>4, <1>8, <2>3 DEF NoticeRight
<1>9. CASE id = peer /\ conn[h] = "open"
  <2>1. EndNotices(t[h]) = {1} /\ t[h][1] = gone
    <3>1. t = Send(others, gone) /\ h \in others
      BY <1>5, <1>9 DEF SendTo
    <3> HIDE DEF others, gone, t
    <3> QED
      BY <1>1, <1>6, <1>9, <3>1, NoticeAt
  <2>2. EndNotices(sent'[h]) = {1} /\ 1 \in DOMAIN sent'[h] /\ sent'[h][1] = gone
    BY <1>1, <1>2, <1>7, <2>1, RosterAdds
  <2>3. gone.from \in {id, members[id].peer_id}
    BY <1>3, <1>6, <1>9
  <2> QED
    BY <1>4, <1>9, <2>2, <2>3 DEF NoticeRight
<1> QED
  BY <1>8, <1>9

(* The end of a call is told once to each end that remains.                *)
THEOREM EndIsToldOnce == Spec => EndOfCallNotified
<1>1. ASSUME IInv, IInv', [Next]_vars, ~UNCHANGED vars,
             NEW h \in DOMAIN hdl_to_id \cap DOMAIN hdl_to_id'
      PROVE  NoticeRight(h)
  <2>1. h \in Handles
    BY <1>1 DEF IInv, RegistryInv, MapsConsistent, Range
  <2>2. ASSUME NEW g \in Handles, OnMessage(g) PROVE NoticeRight(h)
    <3>1. QuietMessage(g) => members' = members
      BY QuietMessageLemma DEF registry
    <3>2. QuietMessage(g) => NoticeRight(h)
      BY <1>1, <2>1, <3>1, QuietPlain, PlainTold
    <3> QED
      BY <1>1, <2>2, <3>2, RegisterTold, CallTold, LeaveTold DEF OnMessage, QuietMessage
  <2>3. ASSUME NEW g \in Handles, OnClose(g) PROVE NoticeRight(h)
    <3>1. CASE DropClient(g)
      <4>1. h # g
        BY <1>1, <3>1 DEF DropClient, Erase, Restrict
      <4> QED
        BY <1>1, <2>3, <3>1, <4>1, DropTold
    <3>2. CASE DropAnonymous(g)
      BY <2>1, <3>2, PlainTold DEF DropAnonymous, Plain, registry
    <3> QED
      BY <2>3, <3>1, <3>2 DEF OnClose
  <2>4. ASSUME NEW g \in Handles, OnOpen(g) \/ OnPong(g) \/ Vanish(g) PROVE NoticeRight(h)
    BY <2>1, <2>4, PlainTold DEF OnOpen, OnPong, Vanish, Plain, registry
  <2>5. CASE OnHeartbeat \/ Tick
    BY <2>1, <2>5, PlainTold DEF OnHeartbeat, Tick, Plain, registry
  <2> QED
    BY <1>1, <2>2, <2>3, <2>4, <2>5 DEF Next
<1>2. IInv /\ IInv' /\ [Next]_vars =>
        [\A h \in DOMAIN hdl_to_id \cap DOMAIN hdl_to_id' :
           LET id     == hdl_to_id[h]
               peer   == members[id].peer_id
               ended  == peer # NoPeer /\ members'[id].peer_id # peer
               notice == EndNotices(sent'[h])
           IN  /\ conn[h] = "open" /\ ended => \E k \in DOMAIN sent'[h] :
                    notice = {k} /\ sent'[h][k].from \in {id, peer}
               /\ ~ended => notice = {}]_vars
  BY <1>1 DEF NoticeRight, Ended
<1> QED
  BY <1>2, Inductive, PTL DEF Spec, EndOfCallNotified

-----------------------------------------------------------------------------
(***************************************************************************)
(* CallSession.  SessionInv is inductive.  It says of every client that    *)
(* the messages it has not read yet, taken in their order, lead its engine *)
(* from the call it is in to the call the server has it in, and that each  *)
(* of them finds the engine in the call it is about.  The server's own     *)
(* part of it is RegistryInv, from above.                                  *)
(***************************************************************************)

\* Messages that end a call, and all that start or end one at the client.
Ends == {"leave", "peer_gone"}

Turns == Ends \cup {"call", "disconnected"}

\* Messages that come only from the other end of the call.
Partner == {"answer", "candidate"}

\* Whom the engine is in a call with once it has handled the first k messages
\* of s, given whom it is in a call with now: is it p?
PeerAt(s, peer, k, p) ==
  \/ peer = p /\ \A i \in 1 .. k : s[i].type \notin Turns
  \/ \E j \in 1 .. k : /\ s[j].type = "call" /\ s[j].from = p
                       /\ \A i \in j + 1 .. k : s[i].type \notin Turns

\* Every message about a call comes while the engine is in one, answers and
\* candidates from the other end.
StreamOK(s, peer) ==
  \A k \in 1 .. Len(s) :
    /\ s[k].type \in Partner => PeerAt(s, peer, k - 1, s[k].from)
    /\ s[k].type \in Ends => \E p \in Ids : PeerAt(s, peer, k - 1, p)

\* No message of s is of this type.
None(s, type) == \A k \in 1 .. Len(s) : s[k].type # type

\* The client, the connection it has and what the server knows of it agree,
\* and the news that the connection is gone is the last to be read.
LinkOK(e, s, cn, id) ==
  /\ e.link = "off" <=> cn = "none"
  /\ id # NoPeer => e.link = "on"
  /\ e.link = "connecting" => s = <<>>
  /\ \A k \in 1 .. Len(s) :
       s[k].type = "disconnected" => k = Len(s) /\ e.link = "off"

\* The id the server has for the client is the one it took from the welcome,
\* or will take from one that is the first message it has to read.
SignOK(e, s, id) ==
  IF id # NoPeer
  THEN \/ e.signed_in /\ e.my_id = id /\ None(s, "welcome")
       \/ /\ s # <<>> /\ s[1].type = "welcome" /\ s[1].id = id
          /\ \A k \in 2 .. Len(s) : s[k].type # "welcome"
  ELSE \/ ~e.signed_in /\ None(s, "welcome")
       \/ s # <<>> /\ s[Len(s)].type = "disconnected"

\* What is to be read makes sense in the call the engine is in, and leaves it
\* in the call that the server has it in.
PartnerOK(e, s, p) ==
  /\ StreamOK(s, e.peer_id)
  /\ p # NoPeer => PeerAt(s, e.peer_id, Len(s), p)

\* The server has the client in no call, and no end of one is still to be read.
Unstarted(s, p) == p = NoPeer /\ \A k \in 1 .. Len(s) : s[k].type \notin Ends

\* A caller in a call is its offerer, and never has an answer to make. While
\* its offer is still to be made no call of it is under way, nor the end of one.
CallerOK(e, s, p) ==
  /\ e.peer_id # NoId => e.is_offerer
  /\ e.jobs # <<>> => e.peer_id # NoId
  /\ \A k \in 1 .. Len(e.jobs) :
       /\ e.jobs[k].op # "create_answer"
       /\ e.jobs[k].op = "create_offer" => k = 1 /\ Unstarted(s, p)

\* A callee never is the offerer.
CalleeOK(e) ==
  ~e.is_offerer /\ \A k \in 1 .. Len(e.jobs) : e.jobs[k].op # "create_offer"

\* Client c: its engine e, its messages s, its connection cn, and the id and
\* the other end of the call that the server has for it.
ClientOK(c, e, s, cn, id, p) ==
  /\ LinkOK(e, s, cn, id)
  /\ c \in Callers => None(s, "call")
  /\ ~e.crashed =>
       /\ SignOK(e, s, id) /\ PartnerOK(e, s, p)
       /\ IF c \in Callers THEN CallerOK(e, s, p) ELSE CalleeOK(e)

\* The server's id for client c, and the other end of its call there.
IdOf(c) == IF c \in DOMAIN hdl_to_id THEN hdl_to_id[c] ELSE NoPeer

PartnerOf(c) == GetPeer(members, IdOf(c))

ClientsOK ==
  \A c \in Handles :
    ClientOK(c, eng[c], down[c], conn[c], IdOf(c), PartnerOf(c))

\* An engine in a call has a PeerConnection.
PcOK(e) ==
  /\ e.pc.sig = "none" => e.pc = NoPc
  /\ e.peer_id # NoId => e.pc.sig # "none"

\* Without failures no engine loses its PeerConnection in a call.
PcsKept == ~Faults => \A c \in Handles : ~eng[c].crashed /\ PcOK(eng[c])

-----------------------------------------------------------------------------
(* Types.                                                                  *)

Sdps == [kind : {"none", "offer", "answer", "candidate"}, offer : Nat]

Signals == {"none", "stable", "have_local_offer", "have_remote_offer"}

PeerConnections ==
  [sig : Signals, local : Sdps, remote : Sdps, gather : BOOLEAN]

Operations ==
  {"create_offer", "create_answer", "set_local", "set_remote_offer",
   "set_remote_answer"}

Jobs == [op : Operations, sdp : Sdps]

PeerIds == Ids \cup {NoId}

Engines ==
  [link : {"off", "connecting", "on"}, signed_in : BOOLEAN, my_id : PeerIds,
   peer_id : PeerIds, is_offerer : BOOLEAN, is_connected : BOOLEAN,
   pc : PeerConnections, jobs : Seq(Jobs), asked : BOOLEAN, crashed : BOOLEAN]

DownMsg ==
       [type : {"welcome"}, id : Ids]
  \cup [type : {"error"}, code : {"name_taken", "busy", "offline"}]
  \cup [type : {"call", "answer", "candidate"}, from : Ids, body : Sdps]
  \cup [type : {"leave", "peer_gone"}, from : Ids]
  \cup [type : {"disconnected"}]

Streams == Seq(DownMsg)

SessionTypes ==
  /\ eng \in [Handles -> Engines]
  /\ down \in [Handles -> Streams]
  /\ conn \in [Handles -> {"none", "open"}]
  /\ calls \in Nat

Kept == RegistryInv /\ SessionTypes /\ ClientsOK

SessionInv == Kept /\ RolesKept

-----------------------------------------------------------------------------
(* Streams.                                                                *)

\* What a message about a call carries.
LEMMA DownMsgFacts ==
  ASSUME NEW m \in DownMsg
  PROVE  /\ m.type \in {"welcome", "error", "call", "answer", "candidate",
                        "leave", "peer_gone", "disconnected"}
         /\ m.type = "welcome" => m.id \in Ids
         /\ m.type \in Partner \cup Ends \cup {"call"} => m.from \in Ids
         /\ m.type \in Partner \cup {"call"} => m.body \in Sdps
  BY DEF DownMsg, Partner, Ends

\* The first messages of a stream decide.
LEMMA SamePrefix ==
  ASSUME NEW s, NEW t, NEW k \in Nat, \A i \in 1 .. k : t[i] = s[i], NEW peer, NEW p,
         PeerAt(s, peer, k, p)
  PROVE  PeerAt(t, peer, k, p)
<1>1. CASE peer = p /\ \A i \in 1 .. k : s[i].type \notin Turns
  BY <1>1 DEF PeerAt
<1>2. ASSUME NEW j \in 1 .. k, s[j].type = "call", s[j].from = p,
             \A i \in j + 1 .. k : s[i].type \notin Turns
      PROVE  PeerAt(t, peer, k, p)
  <2>1. \A i \in j + 1 .. k : t[i].type \notin Turns
    BY <1>2
  <2> QED
    BY <1>2, <2>1 DEF PeerAt
<1> QED
  BY <1>1, <1>2 DEF PeerAt

\* Before anything is handled it is the peer of now.
LEMMA PeerNow ==
  ASSUME NEW s, NEW peer, NEW p
  PROVE  PeerAt(s, peer, 0, p) <=> p = peer
  BY DEF PeerAt

\* Without a call on its way it is the peer of now or nobody.
LEMMA PeerUncalled ==
  ASSUME NEW s \in Streams, NEW k \in 0 .. Len(s), None(s, "call"),
         NEW peer, NEW p, PeerAt(s, peer, k, p)
  PROVE  peer = p /\ \A i \in 1 .. k : s[i].type \notin Turns
<1>1. Len(s) \in Nat
  BY DEF Streams
<1> QED
  BY <1>1 DEF PeerAt, None

\* One message more, and whom it leaves the engine with.
LEMMA AppendFacts ==
  ASSUME NEW s \in Streams, NEW m \in DownMsg
  PROVE  /\ Append(s, m) \in Streams
         /\ Len(s) \in Nat /\ Len(Append(s, m)) = Len(s) + 1
         /\ Append(s, m)[Len(s) + 1] = m
         /\ \A i \in 1 .. Len(s) : Append(s, m)[i] = s[i]
  BY DEF Streams

\* A message to read leaves the engine in the call it would be in, unless it
\* starts one or ends it.
LEMMA PeerAppend ==
  ASSUME NEW s \in Streams, NEW m \in DownMsg, NEW peer, NEW p,
         \/ m.type \notin Turns /\ PeerAt(s, peer, Len(s), p)
         \/ m.type = "call" /\ m.from = p
  PROVE  PeerAt(Append(s, m), peer, Len(s) + 1, p)
<1> DEFINE t == Append(s, m)
           n == Len(s)
<1>1. /\ n \in Nat /\ Len(t) = n + 1 /\ t[n + 1] = m
      /\ \A i \in 1 .. n : t[i] = s[i]
  BY AppendFacts
<1> HIDE DEF t, n
<1>2. CASE m.type = "call" /\ m.from = p
  BY <1>1, <1>2 DEF PeerAt
<1>3. CASE m.type \notin Turns /\ PeerAt(s, peer, n, p)
  <2>1. CASE peer = p /\ \A i \in 1 .. n : s[i].type \notin Turns
    BY <1>1, <1>3, <2>1 DEF PeerAt
  <2>2. ASSUME NEW j \in 1 .. n, s[j].type = "call", s[j].from = p,
               \A i \in j + 1 .. n : s[i].type \notin Turns
        PROVE  PeerAt(t, peer, n + 1, p)
    <3>1. j \in 1 .. n + 1 /\ t[j].type = "call" /\ t[j].from = p
      BY <1>1, <2>2
    <3>2. \A i \in j + 1 .. n + 1 : t[i].type \notin Turns
      BY <1>1, <1>3, <2>2
    <3> QED
      BY <3>1, <3>2 DEF PeerAt
  <2> QED
    BY <1>3, <2>1, <2>2 DEF PeerAt
<1> QED
  BY <1>2, <1>3 DEF t, n

\* A message that makes sense after all the others may follow them.
LEMMA StreamAppend ==
  ASSUME NEW s \in Streams, NEW m \in DownMsg, NEW peer, StreamOK(s, peer),
         m.type \in Partner => PeerAt(s, peer, Len(s), m.from),
         m.type \in Ends => \E p \in Ids : PeerAt(s, peer, Len(s), p)
  PROVE  StreamOK(Append(s, m), peer)
<1> DEFINE t == Append(s, m)
           n == Len(s)
<1>1. /\ n \in Nat /\ Len(t) = n + 1 /\ t[n + 1] = m
      /\ \A i \in 1 .. n : t[i] = s[i]
  BY AppendFacts
<1> HIDE DEF t, n
<1>2. ASSUME NEW k \in 1 .. n + 1
      PROVE  /\ k - 1 \in 0 .. n
             /\ \A i \in 1 .. k - 1 : t[i] = s[i]
             /\ \A p : PeerAt(s, peer, k - 1, p) => PeerAt(t, peer, k - 1, p)
  <2>1. k - 1 \in 0 .. n /\ k - 1 \in Nat /\ \A i \in 1 .. k - 1 : t[i] = s[i]
    BY <1>1
  <2> QED
    BY <2>1, SamePrefix
<1> SUFFICES ASSUME NEW k \in 1 .. n + 1
             PROVE  /\ t[k].type \in Partner => PeerAt(t, peer, k - 1, t[k].from)
                    /\ t[k].type \in Ends => \E p \in Ids : PeerAt(t, peer, k - 1, p)
  BY <1>1 DEF StreamOK, t
<1>3. CASE k \in 1 .. n
  BY <1>1, <1>2, <1>3 DEF StreamOK, n
<1>4. CASE k = n + 1
  <2>1. k - 1 = n /\ t[k] = m
    BY <1>1, <1>4
  <2> QED
    BY <1>2, <2>1 DEF n
<1> QED
  BY <1>1, <1>3, <1>4

\* The stream of a connection that ends: its beginning and the event.
LEMMA StreamCut ==
  ASSUME NEW s \in Streams, NEW peer, StreamOK(s, peer), NEW k \in 0 .. Len(s)
  PROVE  LET t == SubSeq(s, 1, k)
         IN  /\ t \in Streams /\ Len(t) = k /\ \A i \in 1 .. k : t[i] = s[i]
             /\ StreamOK(t, peer)
<1> DEFINE t == SubSeq(s, 1, k)
<1>1. /\ Len(s) \in Nat /\ k \in Nat
      /\ t \in Streams /\ Len(t) = k /\ \A i \in 1 .. k : t[i] = s[i]
  BY DEF Streams
<1> HIDE DEF t
<1>2. ASSUME NEW j \in 1 .. k, NEW p, PeerAt(s, peer, j - 1, p)
      PROVE  PeerAt(t, peer, j - 1, p)
  <2>1. j - 1 \in Nat /\ \A i \in 1 .. j - 1 : t[i] = s[i]
    BY <1>1
  <2> QED
    BY <1>2, <2>1, SamePrefix
<1>3. StreamOK(t, peer)
  <2> SUFFICES ASSUME NEW j \in 1 .. k
               PROVE  /\ t[j].type \in Partner => PeerAt(t, peer, j - 1, t[j].from)
                      /\ t[j].type \in Ends =>
                           \E p \in Ids : PeerAt(t, peer, j - 1, p)
    BY <1>1 DEF StreamOK
  <2>1. j \in 1 .. Len(s) /\ t[j] = s[j]
    BY <1>1
  <2> QED
    BY <1>2, <2>1 DEF StreamOK
<1> QED
  BY <1>1, <1>3 DEF t

\* Handling the first message of s turns the engine from peer to next; what it
\* is turned to later it does not matter.
LEMMA TailFacts ==
  ASSUME NEW s \in Streams, s # <<>>
  PROVE  /\ Head(s) \in DownMsg /\ Head(s) = s[1]
         /\ Tail(s) \in Streams /\ Len(s) \in Nat \ {0}
         /\ Len(Tail(s)) = Len(s) - 1
         /\ \A i \in 1 .. Len(s) - 1 : Tail(s)[i] = s[i + 1]
         /\ \A i \in 2 .. Len(s) : s[i] = Tail(s)[i - 1]
  BY DEF Streams

\* Once the first message is handled, the others find the engine in the same
\* calls as before.
LEMMA PeerTail ==
  ASSUME NEW s \in Streams, s # <<>>, NEW peer, NEW next,
         Head(s).type \notin Turns => next = peer,
         Head(s).type = "call" => next = Head(s).from,
         NEW k \in 1 .. Len(s), NEW p, PeerAt(s, peer, k, p)
  PROVE  PeerAt(Tail(s), next, k - 1, p)
<1> DEFINE t == Tail(s)
           n == Len(s)
<1>1. /\ n \in Nat \ {0} /\ Head(s) = s[1]
      /\ \A i \in 1 .. n - 1 : t[i] = s[i + 1]
  BY TailFacts
<1> HIDE DEF t, n
<1>2. k \in 1 .. n
  BY DEF n
<1>3. ASSUME NEW j \in 0 .. k, \A i \in j + 1 .. k : s[i].type \notin Turns
      PROVE  \A i \in j .. k - 1 : i > 0 => t[i].type \notin Turns
  <2> TAKE i \in j .. k - 1
  <2> HAVE i > 0
  <2>1. i \in 1 .. n - 1 /\ i + 1 \in j + 1 .. k
    BY <1>1, <1>2
  <2> QED
    BY <1>1, <1>3, <2>1
<1>4. CASE peer = p /\ \A i \in 1 .. k : s[i].type \notin Turns
  <2>1. next = p
    BY <1>1, <1>2, <1>4
  <2>2. \A i \in 1 .. k - 1 : t[i].type \notin Turns
    BY <1>2, <1>3, <1>4
  <2> QED
    BY <2>1, <2>2 DEF PeerAt, t
<1>5. ASSUME NEW j \in 1 .. k, s[j].type = "call", s[j].from = p,
             \A i \in j + 1 .. k : s[i].type \notin Turns
      PROVE  PeerAt(t, next, k - 1, p)
  <2>1. \A i \in j .. k - 1 : t[i].type \notin Turns
    BY <1>2, <1>3, <1>5
  <2>2. CASE j = 1
    <3>1. next = p
      BY <1>1, <1>5, <2>2
    <3> QED
      BY <2>1, <2>2, <3>1 DEF PeerAt
  <2>3. CASE j # 1
    <3>1. j - 1 \in 1 .. k - 1 /\ j - 1 \in 1 .. n - 1 /\ (j - 1) + 1 = j
      BY <1>1, <1>2, <2>3
    <3>2. t[j - 1] = s[j]
      BY <1>1, <3>1
    <3> QED
      BY <1>5, <2>1, <3>1, <3>2 DEF PeerAt
  <2> QED
    BY <2>2, <2>3
<1> QED
  BY <1>4, <1>5 DEF PeerAt, t

\* Hence they make sense to it as they did.
LEMMA StreamTail ==
  ASSUME NEW s \in Streams, s # <<>>, NEW peer, NEW next, StreamOK(s, peer),
         Head(s).type \notin Turns => next = peer,
         Head(s).type = "call" => next = Head(s).from
  PROVE  StreamOK(Tail(s), next)
<1> DEFINE t == Tail(s)
           n == Len(s)
<1>1. /\ n \in Nat \ {0} /\ Len(t) = n - 1
      /\ \A i \in 1 .. n - 1 : t[i] = s[i + 1]
  BY TailFacts
<1>2. ASSUME NEW k \in 1 .. n, NEW p, PeerAt(s, peer, k, p)
      PROVE  PeerAt(t, next, k - 1, p)
  BY <1>2, PeerTail
<1> HIDE DEF t, n
<1> SUFFICES ASSUME NEW k \in 1 .. n - 1
             PROVE  /\ t[k].type \in Partner => PeerAt(t, next, k - 1, t[k].from)
                    /\ t[k].type \in Ends => \E p \in Ids : PeerAt(t, next, k - 1, p)
  BY <1>1 DEF StreamOK, t
<1>3. k \in 1 .. n /\ k + 1 \in 1 .. n /\ (k + 1) - 1 = k /\ t[k] = s[k + 1]
  BY <1>1
<1>4. /\ s[k + 1].type \in Partner => PeerAt(s, peer, k, s[k + 1].from)
      /\ s[k + 1].type \in Ends => \E p \in Ids : PeerAt(s, peer, k, p)
  BY <1>3 DEF StreamOK, n
<1> QED
  BY <1>2, <1>3, <1>4

\* The next message about a call is of the call the engine is in.
LEMMA StreamHead ==
  ASSUME NEW s \in Streams, s # <<>>, NEW peer, StreamOK(s, peer)
  PROVE  /\ Head(s).type \in Partner => Head(s).from = peer /\ peer \in Ids
         /\ Head(s).type \in Ends => peer \in Ids
<1>1. 1 \in 1 .. Len(s) /\ Head(s) = s[1] /\ Head(s) \in DownMsg /\ 1 - 1 = 0
  BY TailFacts
<1>2. /\ s[1].type \in Partner => PeerAt(s, peer, 0, s[1].from)
      /\ s[1].type \in Ends => \E p \in Ids : PeerAt(s, peer, 0, p)
  BY <1>1 DEF StreamOK
<1>3. s[1].type \in Partner => s[1].from \in Ids
  BY <1>1, DownMsgFacts
<1> QED
  BY <1>1, <1>2, <1>3, PeerNow

\* An engine in no call that nobody calls hears nothing of calls.
LEMMA StreamIdle ==
  ASSUME NEW s \in Streams, StreamOK(s, NoId), None(s, "call"), NEW peer
  PROVE  /\ StreamOK(s, peer)
         /\ \A k \in 1 .. Len(s) : s[k].type \notin Ends /\ s[k].type \notin Partner
         /\ \A p \in Ids : ~PeerAt(s, NoId, Len(s), p)
<1>1. Len(s) \in Nat /\ NoId \notin Ids
  BY DEF Streams, NoId, Ids
<1>2. ASSUME NEW k \in 0 .. Len(s), NEW p \in Ids PROVE ~PeerAt(s, NoId, k, p)
  BY <1>1, <1>2, PeerUncalled
<1>3. ASSUME NEW k \in 1 .. Len(s)
      PROVE  s[k].type \notin Ends /\ s[k].type \notin Partner
  <2>1. k - 1 \in 0 .. Len(s) /\ s[k] \in DownMsg
    BY <1>1 DEF Streams
  <2>2. s[k].type \in Partner => s[k].from \in Ids
    BY <2>1, DownMsgFacts
  <2> QED
    BY <1>2, <2>1, <2>2 DEF StreamOK
<1> QED
  BY <1>1, <1>2, <1>3 DEF StreamOK

-----------------------------------------------------------------------------
(* One client: what its engine does.                                       *)

\* What a client reads when its connection is gone.
Disconnected == [type |-> "disconnected"]

\* The parts of an engine that its client's invariant speaks of but for jobs.
SameCall(e, f) ==
  /\ f.link = e.link /\ f.signed_in = e.signed_in /\ f.my_id = e.my_id
  /\ f.peer_id = e.peer_id /\ f.is_offerer = e.is_offerer
  /\ f.crashed = e.crashed

\* Descriptions, events and the state of the connection are another matter.
LEMMA SameClient ==
  ASSUME NEW c, NEW e, NEW f, SameCall(e, f), f.jobs = e.jobs,
         NEW s, NEW cn, NEW id, NEW p, ClientOK(c, e, s, cn, id, p)
  PROVE  ClientOK(c, f, s, cn, id, p)
  BY DEF SameCall, ClientOK, LinkOK, SignOK, PartnerOK, CallerOK, CalleeOK

\* A caller's operations never make it a callee, nor the other way round.
LEMMA JobsClient ==
  ASSUME NEW c, NEW e, NEW f, SameCall(e, f),
         NEW s, NEW cn, NEW id, NEW p, ClientOK(c, e, s, cn, id, p),
         ~e.crashed =>
           IF c \in Callers THEN CallerOK(f, s, p) ELSE CalleeOK(f)
  PROVE  ClientOK(c, f, s, cn, id, p)
  BY DEF SameCall, ClientOK, LinkOK, SignOK, PartnerOK

\* No offer is asked for that does not exist yet.
NoOffer(e) == \A k \in 1 .. Len(e.jobs) : e.jobs[k].op # "create_offer"

\* From e to f the engine has taken its next operation.
NextTaken(e, f) == /\ SameCall(e, f)
                   /\ e.jobs # <<>> /\ f.jobs = Tail(e.jobs)

\* The first operation can be taken from the queue; it then has no offer left
\* to make, and a caller that did is in a call.
LEMMA JobDone ==
  ASSUME NEW c, NEW e \in Engines, ~e.crashed,
         NEW f \in Engines, NextTaken(e, f),
         NEW s, NEW cn, NEW id, NEW p, ClientOK(c, e, s, cn, id, p)
  PROVE  /\ ClientOK(c, f, s, cn, id, p)
         /\ NoOffer(f)
         /\ c \in Callers => f.peer_id # NoId /\ f.is_offerer
<1>1. /\ Len(e.jobs) \in Nat \ {0} /\ Len(f.jobs) = Len(e.jobs) - 1
      /\ \A k \in 1 .. Len(f.jobs) : f.jobs[k] = e.jobs[k + 1]
  BY DEF Engines, NextTaken
<1>2. \A k \in 1 .. Len(f.jobs) : f.jobs[k].op # "create_offer"
  <2> TAKE k \in 1 .. Len(f.jobs)
  <2>1. k + 1 \in 1 .. Len(e.jobs) /\ k + 1 # 1 /\ f.jobs[k] = e.jobs[k + 1]
    BY <1>1
  <2> QED
    BY <2>1 DEF ClientOK, CallerOK, CalleeOK
<1>3. NoOffer(f)
  BY <1>2 DEF NoOffer
<1>4. CASE c \in Callers
  <2>1. CallerOK(f, s, p) /\ f.peer_id # NoId /\ f.is_offerer
    BY <1>1, <1>2, <1>4 DEF ClientOK, CallerOK, SameCall, NextTaken
  <2> QED
    BY <1>3, <1>4, <2>1, JobsClient DEF NextTaken
<1>5. CASE c \notin Callers
  <2>1. CalleeOK(f)
    BY <1>2, <1>5 DEF ClientOK, CalleeOK, SameCall, NextTaken
  <2> QED
    BY <1>3, <1>5, <2>1, JobsClient DEF NextTaken
<1> QED
  BY <1>4, <1>5

\* Queue adds an operation at the end, and changes nothing else.
LEMMA QueueFacts ==
  ASSUME NEW e \in Engines, NEW op \in Operations, NEW sdp \in Sdps
  PROVE  /\ Queue(e, op, sdp) \in Engines /\ SameCall(e, Queue(e, op, sdp))
         /\ Queue(e, op, sdp).pc = e.pc
         /\ Len(e.jobs) \in Nat /\ Len(Queue(e, op, sdp).jobs) = Len(e.jobs) + 1
         /\ Queue(e, op, sdp).jobs[Len(e.jobs) + 1].op = op
         /\ \A k \in 1 .. Len(e.jobs) : Queue(e, op, sdp).jobs[k] = e.jobs[k]
<1> DEFINE job == [op |-> op, sdp |-> sdp]
           jobs == Append(e.jobs, job)
<1>1. Queue(e, op, sdp) = [e EXCEPT !.jobs = jobs]
  BY DEF Queue
<1>2. job \in Jobs /\ e.jobs \in Seq(Jobs)
  BY DEF Jobs, Engines
<1>3. /\ jobs \in Seq(Jobs) /\ Len(e.jobs) \in Nat /\ Len(jobs) = Len(e.jobs) + 1
      /\ jobs[Len(e.jobs) + 1] = job
      /\ \A k \in 1 .. Len(e.jobs) : jobs[k] = e.jobs[k]
  BY <1>2
<1> HIDE DEF job, jobs
<1>4. [e EXCEPT !.jobs = jobs].jobs = jobs
  BY DEF Engines
<1>5. Queue(e, op, sdp) \in Engines /\ SameCall(e, Queue(e, op, sdp))
  BY <1>1, <1>3 DEF Engines, SameCall
<1>6. Queue(e, op, sdp).pc = e.pc
  BY <1>1 DEF Engines
<1> QED
  BY <1>1, <1>3, <1>4, <1>5, <1>6 DEF job

\* Any operation but an offer may be queued, by a caller only in a call, and
\* no answer by one.
LEMMA QueueClient ==
  ASSUME NEW c, NEW e \in Engines, ~e.crashed,
         NEW op \in Operations \ {"create_offer"}, NEW sdp \in Sdps,
         c \in Callers => op # "create_answer" /\ e.peer_id # NoId,
         NEW s, NEW cn, NEW id, NEW p, ClientOK(c, e, s, cn, id, p)
  PROVE  ClientOK(c, Queue(e, op, sdp), s, cn, id, p)
<1> DEFINE f == Queue(e, op, sdp)
<1>1. /\ SameCall(e, f) /\ Len(e.jobs) \in Nat /\ Len(f.jobs) = Len(e.jobs) + 1
      /\ f.jobs[Len(e.jobs) + 1].op = op
      /\ \A k \in 1 .. Len(e.jobs) : f.jobs[k] = e.jobs[k]
  BY QueueFacts
<1> HIDE DEF f
<1>2. ASSUME NEW k \in 1 .. Len(f.jobs)
      PROVE  k \in 1 .. Len(e.jobs) \/ f.jobs[k].op = op
  BY <1>1
<1>3. CASE c \in Callers
  <2>1. CallerOK(f, s, p)
    BY <1>1, <1>2, <1>3 DEF ClientOK, CallerOK, SameCall
  <2> QED
    BY <1>1, <1>3, <2>1, JobsClient DEF f
<1>4. CASE c \notin Callers
  <2>1. CalleeOK(f)
    BY <1>1, <1>2, <1>4 DEF ClientOK, CalleeOK, SameCall
  <2> QED
    BY <1>1, <1>4, <2>1, JobsClient DEF f
<1> QED
  BY <1>3, <1>4 DEF f

\* The call command: a caller in no call takes a peer.
LEMMA StartClient ==
  ASSUME NEW c \in Callers, NEW e \in Engines, ~e.crashed, e.peer_id = NoId,
         NEW f \in Engines, NEW to \in Ids,
         f.link = e.link, f.signed_in = e.signed_in, f.my_id = e.my_id,
         f.crashed = e.crashed, f.peer_id = to, f.is_offerer,
         \/ f.jobs = e.jobs
         \/ \E sdp : f.jobs = Append(e.jobs, [op |-> "create_offer", sdp |-> sdp]),
         NEW s \in Streams, NEW cn, NEW id, NEW p \in Ids \cup {NoPeer},
         ClientOK(c, e, s, cn, id, p)
  PROVE  ClientOK(c, f, s, cn, id, p)
<1>1. /\ e.jobs = <<>> /\ None(s, "call")
      /\ StreamOK(s, NoId)
      /\ p # NoPeer => PeerAt(s, NoId, Len(s), p)
  BY DEF ClientOK, CallerOK, PartnerOK
<1>2. /\ StreamOK(s, to) /\ p = NoPeer
      /\ \A k \in 1 .. Len(s) : s[k].type \notin Ends
  BY <1>1, StreamIdle
<1>3. \A k \in 1 .. Len(f.jobs) : k = 1 /\ f.jobs[k].op = "create_offer"
  <2>1. CASE f.jobs = e.jobs
    BY <1>1, <2>1
  <2>2. ASSUME NEW sdp, f.jobs = Append(e.jobs, [op |-> "create_offer", sdp |-> sdp])
        PROVE  \A k \in 1 .. Len(f.jobs) : k = 1 /\ f.jobs[k].op = "create_offer"
    <3>1. f.jobs = <<[op |-> "create_offer", sdp |-> sdp]>>
      BY <1>1, <2>2
    <3> QED
      BY <3>1
  <2> QED
    BY <2>1, <2>2
<1>4. CallerOK(f, s, p)
  BY <1>2, <1>3 DEF CallerOK, Unstarted, NoId, Ids
<1>5. PartnerOK(f, s, p)
  BY <1>2 DEF PartnerOK
<1> QED
  BY <1>4, <1>5 DEF ClientOK, LinkOK, SignOK

-----------------------------------------------------------------------------
(* One client: a message is handled.                                       *)

\* The state of a PeerConnection that is new, and of one that is not there.
LEMMA FreshTypes ==
  /\ NoSdp \in Sdps /\ Candidate \in Sdps
  /\ FreshPc \in PeerConnections /\ FreshPc.sig = "stable"
  /\ NoPc \in PeerConnections /\ NoPc.sig = "none"
<1>1. NoSdp \in Sdps /\ Candidate \in Sdps
  BY DEF NoSdp, Candidate, Sdp, Sdps
<1>2. FreshPc \in PeerConnections /\ FreshPc.sig = "stable"
  BY <1>1 DEF FreshPc, PeerConnections, Signals
<1>3. NoPc \in PeerConnections /\ NoPc.sig = "none"
  BY <1>2 DEF NoPc, PeerConnections, Signals
<1> QED
  BY <1>1, <1>2, <1>3

\* What every handler does to the call.
HandledAs(e, m, f) ==
  /\ f.link = e.link
  /\ m.type \notin Partner => ~f.crashed
  /\ ~f.crashed =>
       /\ m.type = "welcome" => f.signed_in /\ f.my_id = m.id
       /\ m.type = "disconnected" => ~f.signed_in
       /\ m.type \notin {"welcome", "disconnected"} =>
            f.signed_in = e.signed_in /\ f.my_id = e.my_id
       /\ m.type \in Ends \cup {"disconnected"} =>
            f.peer_id = NoId /\ ~f.is_offerer /\ f.jobs = <<>>
       /\ m.type = "call" => f.peer_id = m.from /\ ~f.is_offerer
       /\ m.type \notin Turns =>
            f.peer_id = e.peer_id /\ f.is_offerer = e.is_offerer
       /\ m.type \in {"call", "answer"} =>
            \/ f.jobs = e.jobs
            \/ \E op \in {"set_remote_offer", "set_remote_answer"}, sdp \in Sdps :
                 f.jobs = Append(e.jobs, [op |-> op, sdp |-> sdp])
       /\ m.type \in {"welcome", "candidate", "error"} => f.jobs = e.jobs

\* What OnMessage does to the engine, message by message.
LEMMA HandledFacts ==
  ASSUME NEW e \in Engines, ~e.crashed, NEW m \in DownMsg, NEW f \in Handled(e, m)
  PROVE  f \in Engines /\ HandledAs(e, m, f)
<1> USE DEF HandledAs, Partner
<1>1. /\ NoPc \in PeerConnections /\ FreshPc \in PeerConnections
      /\ NoId \in PeerIds /\ <<>> \in Seq(Jobs) /\ \A i \in Ids : i \in PeerIds
  BY FreshTypes DEF PeerIds
<1>2. CASE m.type = "welcome"
  <2>1. f = [e EXCEPT !.signed_in = TRUE, !.my_id = m.id] /\ m.id \in Ids
    BY <1>2, DownMsgFacts DEF Handled
  <2> QED
    BY <1>1, <1>2, <2>1 DEF Engines, Ends, Turns
<1>3. CASE m.type = "disconnected"
  <2>1. f = Told(Closed([e EXCEPT !.signed_in = FALSE, !.my_id = NoId]))
    BY <1>3 DEF Handled
  <2> QED
    BY <1>1, <1>3, <2>1 DEF Engines, Ends, Turns, Told, Closed
<1>4. CASE m.type \in Ends
  <2>1. f = Told(Closed(e))
    BY <1>4 DEF Handled, Ends
  <2> QED
    BY <1>1, <1>4, <2>1 DEF Engines, Ends, Turns, Told, Closed
<1>5. CASE m.type = "error"
  <2>1. f = Told(e)
    BY <1>5 DEF Handled
  <2> QED
    BY <1>5, <2>1 DEF Engines, Ends, Turns, Told
<1>6. CASE m.type = "candidate"
  <2>1. f = e \/ f = Crash(e)
    BY <1>6 DEF Handled, NeedsPc
  <2> QED
    BY <1>1, <1>6, <2>1, ZenonT(60) DEF Engines, Ends, Turns, Crash, IdleEngine
<1>7. CASE m.type = "answer"
  <2>1. f = Queue(e, "set_remote_answer", m.body) \/ f = Crash(e)
    BY <1>7 DEF Handled, NeedsPc
  <2>2. CASE f = Crash(e)
    BY <1>1, <1>7, <2>2 DEF Engines, Ends, Turns, Crash, IdleEngine
  <2>3. CASE f = Queue(e, "set_remote_answer", m.body)
    <3>1. m.body \in Sdps /\ "set_remote_answer" \in Operations
      BY <1>7, DownMsgFacts DEF Partner, Operations
    <3>2. f \in Engines /\ SameCall(e, f)
      BY <2>3, <3>1, QueueFacts
    <3>3. f.jobs = Append(e.jobs, [op |-> "set_remote_answer", sdp |-> m.body])
      BY <2>3 DEF Queue, Engines
    <3> QED
      BY <1>7, <3>1, <3>2, <3>3 DEF SameCall, Ends, Turns
  <2> QED
    BY <2>1, <2>2, <2>3
<1>8. CASE m.type = "call"
  <2> DEFINE g == [e EXCEPT !.peer_id = m.from, !.is_offerer = FALSE]
             h == [g EXCEPT !.pc = IF @ = NoPc THEN FreshPc ELSE @]
  <2>1. m.from \in Ids /\ m.body \in Sdps /\ "set_remote_offer" \in Operations
    BY <1>8, DownMsgFacts DEF Partner, Operations
  <2>2. g \in Engines /\ h \in Engines
    BY <1>1, <2>1 DEF Engines
  <2>3. f = g \/ f = Queue(h, "set_remote_offer", m.body)
    BY <1>8 DEF Handled, Called
  <2>4. CASE f = g
    BY <1>8, <2>1, <2>2, <2>4 DEF Engines, Ends, Turns
  <2>5. CASE f = Queue(h, "set_remote_offer", m.body)
    <3>1. f \in Engines /\ SameCall(h, f)
      BY <2>1, <2>2, <2>5, QueueFacts
    <3>2. f.jobs = Append(h.jobs, [op |-> "set_remote_offer", sdp |-> m.body])
      BY <2>2, <2>5 DEF Queue, Engines
    <3>3. /\ h.jobs = e.jobs /\ h.link = e.link /\ h.signed_in = e.signed_in
          /\ h.my_id = e.my_id /\ h.peer_id = m.from /\ ~h.is_offerer /\ ~h.crashed
      BY <2>2 DEF Engines
    <3> QED
      BY <1>8, <2>1, <3>1, <3>2, <3>3 DEF SameCall, Ends, Turns
  <2> QED
    BY <2>3, <2>4, <2>5
<1> QED
  BY <1>2, <1>3, <1>4, <1>5, <1>6, <1>7, <1>8, DownMsgFacts DEF Ends

\* The next message leaves the client in order, whatever it is.
LEMMA ReceiveClient ==
  ASSUME NEW c, NEW e \in Engines, ~e.crashed, NEW s \in Streams, s # <<>>,
         NEW f \in Handled(e, Head(s)),
         NEW cn, NEW id, NEW p, ClientOK(c, e, s, cn, id, p)
  PROVE  ClientOK(c, f, Tail(s), cn, id, p)
<1> DEFINE m == Head(s)
           t == Tail(s)
           n == Len(s)
<1>1. /\ m \in DownMsg /\ m = s[1] /\ n \in Nat \ {0} /\ Len(t) = n - 1
      /\ t \in Streams
      /\ \A i \in 1 .. n - 1 : t[i] = s[i + 1]
  BY TailFacts
<1>2. f \in Engines /\ HandledAs(e, m, f)
  BY <1>1, HandledFacts
<1>3. /\ LinkOK(e, s, cn, id) /\ SignOK(e, s, id) /\ PartnerOK(e, s, p)
      /\ c \in Callers => None(s, "call") /\ CallerOK(e, s, p)
      /\ c \notin Callers => CalleeOK(e)
  BY DEF ClientOK
<1>4. m.type \in Partner \cup Ends => e.peer_id \in Ids
  BY <1>3, StreamHead DEF PartnerOK
<1>5. ASSUME ~f.crashed
      PROVE  /\ StreamOK(t, f.peer_id)
             /\ p # NoPeer => PeerAt(t, f.peer_id, n - 1, p)
  <2>1. /\ m.type \notin Turns => f.peer_id = e.peer_id
        /\ m.type = "call" => f.peer_id = m.from
    BY <1>2, <1>5 DEF HandledAs
  <2>2. StreamOK(t, f.peer_id)
    BY <1>3, <2>1, StreamTail DEF PartnerOK
  <2>3. ASSUME p # NoPeer PROVE PeerAt(t, f.peer_id, n - 1, p)
    <3>1. PeerAt(s, e.peer_id, n, p) /\ n \in 1 .. Len(s)
      BY <1>1, <1>3, <2>3 DEF PartnerOK
    <3> QED
      BY <2>1, <3>1, PeerTail
  <2> QED
    BY <2>2, <2>3
<1>6. n = Len(s)
  OBVIOUS
<1> HIDE DEF m, t, n
<1>7. ASSUME ~f.crashed PROVE PartnerOK(f, t, p)
  BY <1>1, <1>5, <1>7 DEF PartnerOK
<1>8. ASSUME NEW k \in 1 .. Len(t) PROVE k + 1 \in 1 .. Len(s) /\ t[k] = s[k + 1]
  BY <1>1, <1>6
<1>9. ASSUME ~f.crashed, c \in Callers PROVE CallerOK(f, t, p)
  <2>1. m.type # "call"
    BY <1>1, <1>3, <1>9, <1>6 DEF None
  <2>2. /\ m.type \in Ends \cup {"disconnected"} =>
             f.peer_id = NoId /\ ~f.is_offerer /\ f.jobs = <<>>
        /\ m.type \notin Turns =>
             f.peer_id = e.peer_id /\ f.is_offerer = e.is_offerer
        /\ m.type = "answer" =>
             \/ f.jobs = e.jobs
             \/ \E op \in {"set_remote_offer", "set_remote_answer"}, sdp \in Sdps :
                  f.jobs = Append(e.jobs, [op |-> op, sdp |-> sdp])
        /\ m.type \in {"welcome", "candidate", "error"} => f.jobs = e.jobs
    BY <1>2, <1>9 DEF HandledAs
  <2>3. Unstarted(s, p) => Unstarted(t, p)
    BY <1>8 DEF Unstarted
  <2>4. CASE m.type \in Ends \cup {"disconnected"}
    BY <2>2, <2>4 DEF CallerOK
  <2>5. CASE m.type \notin Turns /\ f.jobs = e.jobs
    BY <1>3, <1>9, <2>2, <2>3, <2>5 DEF CallerOK
  <2>6. ASSUME m.type = "answer",
               NEW op \in {"set_remote_offer", "set_remote_answer"}, NEW sdp \in Sdps,
               f.jobs = Append(e.jobs, [op |-> op, sdp |-> sdp])
        PROVE  CallerOK(f, t, p)
    <3>1. /\ Len(e.jobs) \in Nat /\ Len(f.jobs) = Len(e.jobs) + 1
          /\ f.jobs[Len(e.jobs) + 1] = [op |-> op, sdp |-> sdp]
          /\ \A k \in 1 .. Len(e.jobs) : f.jobs[k] = e.jobs[k]
      <4>1. e.jobs \in Seq(Jobs) /\ [op |-> op, sdp |-> sdp] \in Jobs
        BY DEF Engines, Jobs, Operations
      <4> QED
        BY <2>6, <4>1
    <3>2. f.jobs[Len(e.jobs) + 1].op = op
      BY <3>1
    <3>3. e.peer_id # NoId
      BY <1>4, <2>6 DEF Partner, NoId, Ids
    <3>4. ASSUME NEW k \in 1 .. Len(f.jobs)
          PROVE  k \in 1 .. Len(e.jobs) \/ f.jobs[k].op = op
      BY <3>1, <3>2
    <3>5. f.peer_id = e.peer_id /\ f.is_offerer = e.is_offerer
      BY <2>2, <2>6 DEF Turns, Ends
    <3> QED
      BY <1>3, <1>9, <2>3, <3>1, <3>3, <3>4, <3>5 DEF CallerOK
  <2>7. \/ m.type \in Ends \cup {"disconnected"}
        \/ m.type \notin Turns /\ m.type \in {"welcome", "candidate", "error", "answer"}
    BY <1>1, <2>1, DownMsgFacts DEF Turns, Ends
  <2> QED
    BY <2>2, <2>4, <2>5, <2>6, <2>7
<1>10. ASSUME ~f.crashed, c \notin Callers PROVE CalleeOK(f)
  <2>1. /\ m.type \in Ends \cup {"disconnected", "call"} => ~f.is_offerer
        /\ m.type \in Ends \cup {"disconnected"} => f.jobs = <<>>
        /\ m.type \notin Turns => f.is_offerer = e.is_offerer
        /\ m.type \in {"call", "answer"} =>
             \/ f.jobs = e.jobs
             \/ \E op \in {"set_remote_offer", "set_remote_answer"}, sdp \in Sdps :
                  f.jobs = Append(e.jobs, [op |-> op, sdp |-> sdp])
        /\ m.type \in {"welcome", "candidate", "error"} => f.jobs = e.jobs
    BY <1>2, <1>10 DEF HandledAs
  <2>2. ~f.is_offerer
    BY <1>3, <1>10, <2>1 DEF CalleeOK, Turns
  <2>3. CASE f.jobs = <<>>
    BY <2>2, <2>3 DEF CalleeOK
  <2>4. CASE f.jobs = e.jobs
    BY <1>3, <1>10, <2>2, <2>4 DEF CalleeOK
  <2>5. ASSUME NEW op \in {"set_remote_offer", "set_remote_answer"}, NEW sdp \in Sdps,
               f.jobs = Append(e.jobs, [op |-> op, sdp |-> sdp])
        PROVE  CalleeOK(f)
    <3>1. /\ Len(e.jobs) \in Nat /\ Len(f.jobs) = Len(e.jobs) + 1
          /\ f.jobs[Len(e.jobs) + 1] = [op |-> op, sdp |-> sdp]
          /\ \A k \in 1 .. Len(e.jobs) : f.jobs[k] = e.jobs[k]
      <4>1. e.jobs \in Seq(Jobs) /\ [op |-> op, sdp |-> sdp] \in Jobs
        BY DEF Engines, Jobs, Operations
      <4> QED
        BY <2>5, <4>1
    <3>2. f.jobs[Len(e.jobs) + 1].op = op
      BY <3>1
    <3>3. ASSUME NEW k \in 1 .. Len(f.jobs)
          PROVE  k \in 1 .. Len(e.jobs) \/ f.jobs[k].op = op
      BY <3>1, <3>2
    <3> QED
      BY <1>3, <1>10, <2>2, <3>1, <3>3 DEF CalleeOK
  <2> QED
    BY <1>1, <2>1, <2>3, <2>4, <2>5, DownMsgFacts DEF Ends
<1>11. LinkOK(f, t, cn, id)
  <2>1. f.link = e.link /\ s # <<>>
    BY <1>2 DEF HandledAs
  <2>2. \A k \in 1 .. Len(t) :
          t[k].type = "disconnected" => k = Len(t) /\ f.link = "off"
    <3> SUFFICES ASSUME NEW k \in 1 .. Len(t), t[k].type = "disconnected"
                 PROVE  k = Len(t) /\ f.link = "off"
      OBVIOUS
    <3>1. k + 1 \in 1 .. Len(s) /\ s[k + 1].type = "disconnected"
      BY <1>8
    <3>2. k + 1 = Len(s) /\ e.link = "off"
      BY <1>3, <3>1 DEF LinkOK
    <3> QED
      BY <1>1, <1>6, <2>1, <3>2
  <2> QED
    BY <1>3, <2>1, <2>2 DEF LinkOK
<1>12. ASSUME ~f.crashed PROVE SignOK(f, t, id)
  <2>1. CASE id # NoPeer /\ e.signed_in /\ e.my_id = id /\ None(s, "welcome")
    <3>1. m.type \notin {"welcome", "disconnected"}
      BY <1>1, <1>3, <1>6, <2>1 DEF None, LinkOK
    <3>2. None(t, "welcome")
      BY <1>8, <2>1 DEF None
    <3> QED
      BY <1>2, <1>12, <2>1, <3>1, <3>2 DEF SignOK, HandledAs
  <2>2. CASE id # NoPeer /\ m.type = "welcome" /\ m.id = id
             /\ \A k \in 2 .. n : s[k].type # "welcome"
    <3>1. None(t, "welcome")
      <4> SUFFICES ASSUME NEW k \in 1 .. Len(t) PROVE t[k].type # "welcome"
        BY DEF None
      <4>1. k + 1 \in 2 .. n /\ t[k] = s[k + 1]
        BY <1>1
      <4> QED
        BY <2>2, <4>1
    <3> QED
      BY <1>2, <1>12, <2>2, <3>1 DEF SignOK, HandledAs
  <2>3. CASE id = NoPeer /\ ~e.signed_in /\ None(s, "welcome")
    <3>1. m.type # "welcome" /\ None(t, "welcome")
      BY <1>1, <1>8, <1>6, <2>3 DEF None
    <3> QED
      BY <1>2, <1>12, <2>3, <3>1 DEF SignOK, HandledAs
  <2>4. CASE id = NoPeer /\ s[n].type = "disconnected" /\ n = 1
    <3>1. ~f.signed_in /\ None(t, "welcome")
      BY <1>1, <1>2, <1>12, <2>4 DEF None, HandledAs
    <3> QED
      BY <2>4, <3>1 DEF SignOK
  <2>5. CASE id = NoPeer /\ s[n].type = "disconnected" /\ n # 1
    <3>1. n - 1 \in 1 .. Len(t) /\ (n - 1) + 1 = n
      BY <1>1, <2>5
    <3>2. t[Len(t)].type = "disconnected" /\ t # <<>>
      BY <1>1, <1>8, <1>6, <2>5, <3>1
    <3> QED
      BY <2>5, <3>2 DEF SignOK
  <2> QED
    BY <1>1, <1>3, <1>6, <2>1, <2>2, <2>3, <2>4, <2>5 DEF SignOK
<1>13. c \in Callers => None(t, "call")
  BY <1>3, <1>8 DEF None
<1>14. ClientOK(c, f, t, cn, id, p)
  BY <1>7, <1>9, <1>10, <1>11, <1>12, <1>13 DEF ClientOK
<1> QED
  BY <1>14 DEF t

-----------------------------------------------------------------------------
(* One client: its connection and what the server sends it.                *)

\* A step of the server gives c at most one message about calls, which tells it
\* of what the step did to its call: s becomes t while its partner p becomes q.
Hears(c, s, p, t, q) ==
  \/ t = s /\ q = p
  \/ \E m \in DownMsg :
       /\ t = Append(s, m)
       /\ \/ m.type = "error" /\ q = p
          \/ m.type \in Partner /\ m.from = p /\ q = p
          \/ m.type \in Ends /\ p \in Ids /\ q = NoPeer
          \/ m.type = "call" /\ m.from = q /\ c \notin Callers

\* Whatever a client hears leaves it in order, if it is there to hear it.
LEMMA HearsClient ==
  ASSUME NEW c, NEW e \in Engines, NEW s \in Streams, NEW cn, NEW id,
         NEW p \in Ids \cup {NoPeer}, ClientOK(c, e, s, cn, id, p),
         NEW t, NEW q, Hears(c, s, p, t, q), t # s => e.link = "on"
  PROVE  ClientOK(c, e, t, cn, id, q) /\ t \in Streams
<1>1. CASE t = s /\ q = p
  BY <1>1
<1>2. ASSUME NEW m \in DownMsg, t = Append(s, m), e.link = "on",
             \/ m.type = "error" /\ q = p
             \/ m.type \in Partner /\ m.from = p /\ q = p
             \/ m.type \in Ends /\ p \in Ids /\ q = NoPeer
             \/ m.type = "call" /\ m.from = q /\ c \notin Callers
      PROVE  ClientOK(c, e, t, cn, id, q) /\ t \in Streams
  <2> DEFINE n == Len(s)
  <2>1. /\ t \in Streams /\ n \in Nat /\ Len(t) = n + 1 /\ t[n + 1] = m
        /\ \A i \in 1 .. n : t[i] = s[i]
    BY <1>2, AppendFacts
  <2>2. n = Len(s)
    OBVIOUS
  <2> HIDE DEF n
  <2>3. ASSUME NEW k \in 1 .. Len(t)
        PROVE  \/ k \in 1 .. Len(s) /\ t[k] = s[k]
               \/ k = n + 1 /\ t[k] = m
    BY <2>1, <2>2
  <2>4. m.type \notin {"welcome", "disconnected"} /\ NoPeer \notin Ids
    BY <1>2, DownMsgFacts DEF Partner, Ends, NoPeer, Ids
  <2>5. LinkOK(e, t, cn, id)
    <3>1. ASSUME NEW k \in 1 .. Len(t) PROVE t[k].type # "disconnected"
      <4>1. ASSUME NEW i \in 1 .. Len(s) PROVE s[i].type # "disconnected"
        BY <1>2, <4>1 DEF ClientOK, LinkOK
      <4> QED
        BY <2>3, <2>4, <4>1
    <3> QED
      BY <1>2, <3>1 DEF ClientOK, LinkOK
  <2>6. c \in Callers => None(t, "call")
    BY <1>2, <2>3, DownMsgFacts DEF ClientOK, None, Partner, Ends
  <2>7. ASSUME ~e.crashed PROVE SignOK(e, t, id)
    <3>1. None(s, "welcome") => None(t, "welcome")
      BY <2>3, <2>4 DEF None
    <3>2. SignOK(e, s, id)
      BY <2>7 DEF ClientOK
    <3>3. CASE None(s, "welcome")
      <4>1. id # NoPeer => e.signed_in /\ e.my_id = id
        <5>1. CASE s # <<>> /\ s[1].type = "welcome"
          <6>1. 1 \in 1 .. Len(s)
            BY <5>1, TailFacts
          <6> QED
            BY <3>3, <5>1, <6>1 DEF None
        <5> QED
          BY <3>2, <5>1 DEF SignOK
      <4>2. id = NoPeer => ~e.signed_in
        <5>1. CASE s # <<>> /\ s[n].type = "disconnected"
          <6>1. n \in 1 .. Len(s)
            BY <2>2, <5>1, TailFacts
          <6> QED
            BY <1>2, <5>1, <6>1 DEF ClientOK, LinkOK
        <5> QED
          BY <2>2, <3>2, <5>1 DEF SignOK
      <4> QED
        BY <3>1, <3>3, <4>1, <4>2 DEF SignOK
    <3>4. CASE id # NoPeer /\ s # <<>> /\ s[1].type = "welcome" /\ s[1].id = id
               /\ \A k \in 2 .. n : s[k].type # "welcome"
      <4>1. 1 \in 1 .. n /\ n \in Nat \ {0}
        BY <2>2, <3>4, TailFacts
      <4>2. t[1] = s[1] /\ t # <<>>
        BY <2>1, <4>1
      <4>3. \A k \in 2 .. Len(t) : t[k].type # "welcome"
        BY <2>1, <2>4, <3>4
      <4> QED
        BY <3>4, <4>2, <4>3 DEF SignOK
    <3>5. CASE id = NoPeer /\ s # <<>> /\ s[n].type = "disconnected"
      <4>1. n \in 1 .. Len(s)
        BY <2>2, <3>5, TailFacts
      <4> QED
        BY <1>2, <3>5, <4>1 DEF ClientOK, LinkOK
    <3> QED
      BY <2>2, <3>2, <3>3, <3>4, <3>5 DEF SignOK
  <2>8. ASSUME ~e.crashed PROVE PartnerOK(e, t, q)
    <3>1. StreamOK(s, e.peer_id) /\ (p # NoPeer => PeerAt(s, e.peer_id, n, p))
      BY <2>2, <2>8 DEF ClientOK, PartnerOK
    <3>2. /\ m.type \in Partner => PeerAt(s, e.peer_id, n, m.from)
          /\ m.type \in Ends => \E r \in Ids : PeerAt(s, e.peer_id, n, r)
      <4>1. m.type \in Partner => m.from = p /\ m.from \in Ids
        BY <1>2, DownMsgFacts DEF Partner, Ends
      <4>2. m.type \in Ends => p \in Ids
        BY <1>2 DEF Partner, Ends
      <4> QED
        BY <2>4, <3>1, <4>1, <4>2
    <3>3. StreamOK(t, e.peer_id)
      BY <1>2, <2>2, <3>1, <3>2, StreamAppend
    <3>4. ASSUME q # NoPeer PROVE PeerAt(t, e.peer_id, Len(t), q)
      <4>1. \/ m.type \notin Turns /\ PeerAt(s, e.peer_id, Len(s), q)
            \/ m.type = "call" /\ m.from = q
        BY <1>2, <2>2, <3>1, <3>4 DEF Turns, Partner, Ends
      <4> QED
        BY <1>2, <2>1, <2>2, <4>1, PeerAppend
    <3> QED
      BY <3>3, <3>4 DEF PartnerOK
  <2>9. ASSUME ~e.crashed, c \in Callers PROVE CallerOK(e, t, q)
    <3>1. CallerOK(e, s, p)
      BY <2>9 DEF ClientOK
    <3>2. Unstarted(s, p) => Unstarted(t, q)
      BY <1>2, <2>3, <2>4, <2>9 DEF Unstarted, Partner, Ends
    <3> QED
      BY <3>1, <3>2 DEF CallerOK
  <2>10. ~e.crashed /\ c \notin Callers => CalleeOK(e)
    BY DEF ClientOK
  <2> QED
    BY <2>1, <2>5, <2>6, <2>7, <2>8, <2>9, <2>10 DEF ClientOK
<1>3. CASE t # s
  BY <1>2, <1>3 DEF Hears
<1> QED
  BY <1>1, <1>3 DEF Hears

\* A call the server accepts: its first message and its pair.
LEMMA CalledClient ==
  ASSUME NEW c \in Callers, NEW e \in Engines, ~e.crashed, e.peer_id \in Ids,
         NoOffer(e), NEW s \in Streams, Unstarted(s, NoPeer), e.link = "on",
         NEW cn, NEW id, ClientOK(c, e, s, cn, id, NoPeer)
  PROVE  ClientOK(c, e, s, cn, id, e.peer_id)
<1>1. \A k \in 1 .. Len(s) : s[k].type \notin Turns
  BY DEF ClientOK, LinkOK, None, Unstarted, Turns
<1>2. PeerAt(s, e.peer_id, Len(s), e.peer_id)
  BY <1>1 DEF PeerAt
<1>3. PartnerOK(e, s, e.peer_id) /\ CallerOK(e, s, e.peer_id)
  BY <1>2 DEF ClientOK, PartnerOK, CallerOK, NoOffer
<1> QED
  BY <1>3 DEF ClientOK

\* A new connection, which finds the client as the last one left it.
LEMMA ConnectClient ==
  ASSUME NEW c, NEW e \in Engines, NEW f \in Engines, e.link = "off",
         f = [e EXCEPT !.link = "connecting"],
         ClientOK(c, e, <<>>, "none", NoPeer, NoPeer)
  PROVE  ClientOK(c, f, <<>>, "open", NoPeer, NoPeer)
<1>1. /\ f.link = "connecting" /\ f.signed_in = e.signed_in /\ f.my_id = e.my_id
      /\ f.peer_id = e.peer_id /\ f.is_offerer = e.is_offerer
      /\ f.crashed = e.crashed /\ f.jobs = e.jobs
  BY DEF Engines
<1> QED
  BY <1>1 DEF ClientOK, LinkOK, SignOK, PartnerOK, CallerOK, CalleeOK

\* Its name has been sent.
LEMMA RegisterClient ==
  ASSUME NEW c, NEW e \in Engines, NEW f \in Engines, e.link = "connecting",
         f = [e EXCEPT !.link = "on"], NEW s,
         ClientOK(c, e, s, "open", NoPeer, NoPeer)
  PROVE  /\ s = <<>>
         /\ ClientOK(c, f, <<>>, "open", NoPeer, NoPeer)
         /\ \A id \in Ids :
              ClientOK(c, f, <<Welcome(id)>>, "open", id, NoPeer)
<1>1. /\ f.link = "on" /\ f.signed_in = e.signed_in /\ f.my_id = e.my_id
      /\ f.peer_id = e.peer_id /\ f.is_offerer = e.is_offerer
      /\ f.crashed = e.crashed /\ f.jobs = e.jobs
  BY DEF Engines
<1>2. s = <<>> /\ Len(<<>>) = 0
  BY DEF ClientOK, LinkOK
<1>3. ClientOK(c, f, <<>>, "open", NoPeer, NoPeer)
  BY <1>1, <1>2 DEF ClientOK, LinkOK, SignOK, PartnerOK, CallerOK, CalleeOK
<1>4. ASSUME NEW id \in Ids
      PROVE  ClientOK(c, f, <<Welcome(id)>>, "open", id, NoPeer)
  <2> DEFINE t == <<Welcome(id)>>
  <2>1. /\ Len(t) = 1 /\ t # <<>> /\ t[1].type = "welcome" /\ t[1].id = id
        /\ id # NoPeer
    BY DEF Welcome, NoPeer, Ids
  <2> HIDE DEF t
  <2>2. \A k \in 1 .. Len(t) : t[k].type = "welcome"
    BY <2>1
  <2>3. LinkOK(f, t, "open", id) /\ SignOK(f, t, id) /\ None(t, "call")
    BY <1>1, <2>1, <2>2 DEF LinkOK, SignOK, None
  <2>4. StreamOK(t, f.peer_id) /\ PartnerOK(f, t, NoPeer)
    BY <2>2 DEF StreamOK, PartnerOK, Partner, Ends
  <2>5. \A p : Unstarted(<<>>, p) => Unstarted(t, p)
    BY <2>2 DEF Unstarted, Ends
  <2>6. /\ f.crashed \/ c \notin Callers \/ CallerOK(f, t, NoPeer)
        /\ f.crashed \/ c \in Callers \/ CalleeOK(f)
    BY <1>3, <2>5 DEF ClientOK, CallerOK
  <2>7. ClientOK(c, f, t, "open", id, NoPeer)
    BY <2>3, <2>4, <2>6 DEF ClientOK
  <2> QED
    BY <2>7 DEF t
<1> QED
  BY <1>2, <1>3, <1>4

\* The connection ends after the first k messages of what is still to come.
LEMMA LostClient ==
  ASSUME NEW c, NEW e \in Engines, NEW f \in Engines, e.link # "off",
         f = [e EXCEPT !.link = "off"], NEW s \in Streams, NEW k \in 0 .. Len(s),
         NEW cn, NEW id, NEW p, ClientOK(c, e, s, cn, id, p)
  PROVE  LET t == Append(SubSeq(s, 1, k), Disconnected)
         IN  ClientOK(c, f, t, "none", NoPeer, NoPeer) /\ t \in Streams
<1> DEFINE r == SubSeq(s, 1, k)
           t == Append(r, Disconnected)
<1>1. /\ f.link = "off" /\ f.signed_in = e.signed_in /\ f.my_id = e.my_id
      /\ f.peer_id = e.peer_id /\ f.is_offerer = e.is_offerer
      /\ f.crashed = e.crashed /\ f.jobs = e.jobs
  BY DEF Engines
<1>2. Disconnected \in DownMsg /\ Disconnected.type = "disconnected"
  BY DEF Disconnected, DownMsg
<1>3. ~e.crashed => r \in Streams /\ StreamOK(r, f.peer_id)
  BY <1>1, StreamCut DEF ClientOK, PartnerOK
<1>4. r \in Streams /\ Len(r) = k /\ \A i \in 1 .. k : r[i] = s[i]
  BY DEF Streams
<1>5. /\ t \in Streams /\ k \in Nat /\ Len(t) = k + 1 /\ t[k + 1] = Disconnected
      /\ \A i \in 1 .. k : t[i] = s[i]
  BY <1>2, <1>4, AppendFacts
<1>6. ~f.crashed => StreamOK(t, f.peer_id)
  BY <1>1, <1>2, <1>3, StreamAppend DEF Partner, Ends
<1>7. t = Append(SubSeq(s, 1, k), Disconnected)
  OBVIOUS
<1> HIDE DEF r, t
<1>8. ASSUME NEW i \in 1 .. Len(t)
      PROVE  \/ i \in 1 .. Len(s) /\ t[i] = s[i] /\ i \in 1 .. k
             \/ i = Len(t) /\ t[i] = Disconnected
  <2>1. Len(s) \in Nat
    BY DEF Streams
  <2> QED
    BY <1>5, <2>1
<1>9. t # <<>> /\ Len(t) \in 1 .. Len(t)
  BY <1>5
<1>10. LinkOK(f, t, "none", NoPeer)
  <2>1. ASSUME NEW i \in 1 .. Len(s) PROVE s[i].type # "disconnected"
    BY <2>1 DEF ClientOK, LinkOK
  <2> QED
    BY <1>1, <1>8, <2>1 DEF LinkOK
<1>11. SignOK(f, t, NoPeer)
  BY <1>2, <1>5, <1>9 DEF SignOK
<1>12. c \in Callers => None(t, "call")
  BY <1>2, <1>8 DEF ClientOK, None
<1>13. ~f.crashed => PartnerOK(f, t, NoPeer)
  BY <1>6 DEF PartnerOK
<1>14. ASSUME ~f.crashed, c \in Callers PROVE CallerOK(f, t, NoPeer)
  <2>1. CallerOK(e, s, p)
    BY <1>1, <1>14 DEF ClientOK
  <2>2. Unstarted(s, p) => Unstarted(t, NoPeer)
    BY <1>2, <1>8 DEF Unstarted, Ends
  <2> QED
    BY <1>1, <2>1, <2>2 DEF CallerOK
<1>15. ~f.crashed /\ c \notin Callers => CalleeOK(f)
  BY <1>1 DEF ClientOK, CalleeOK
<1>16. ClientOK(c, f, t, "none", NoPeer, NoPeer)
  BY <1>10, <1>11, <1>12, <1>13, <1>14, <1>15 DEF ClientOK
<1> QED
  BY <1>5, <1>7, <1>16

-----------------------------------------------------------------------------
(***************************************************************************)
(* The server's steps, as the clients see them.                            *)
(***************************************************************************)

\* Sequences of one and of two elements.
LEMMA ShortSeqs ==
  ASSUME NEW S, NEW u \in Seq(S)
  PROVE  /\ Len(u) = 1 => u = <<u[1]>>
         /\ Len(u) = 2 => u = <<u[1], u[2]>>
<1>1. ASSUME Len(u) = 1 PROVE u = <<u[1]>>
  <2>1. PICK v : v = <<u[1]>>
    OBVIOUS
  <2>2. v \in Seq(S) /\ Len(v) = 1 /\ v[1] = u[1]
    BY <1>1, <2>1
  <2>3. \A i \in 1 .. Len(u) : u[i] = v[i]
    BY <1>1, <2>2
  <2> QED
    BY <1>1, <2>1, <2>2, <2>3, SeqEqual
<1>2. ASSUME Len(u) = 2 PROVE u = <<u[1], u[2]>>
  <2>1. PICK v : v = <<u[1], u[2]>>
    OBVIOUS
  <2>2. v \in Seq(S) /\ Len(v) = 2 /\ v[1] = u[1] /\ v[2] = u[2]
    BY <1>2, <2>1
  <2>3. \A i \in 1 .. Len(u) : u[i] = v[i]
    BY <1>2, <2>2
  <2> QED
    BY <1>2, <2>1, <2>2, <2>3, SeqEqual
<1> QED
  BY <1>1, <1>2

\* A roster at the end is not passed on, anything else is.
LEMMA Related ==
  ASSUME NEW msg, msg.type # "roster", NEW m
  PROVE  /\ CallRelated(<<>>) = <<>>
         /\ CallRelated(<<msg>>) = <<msg>>
         /\ CallRelated(<<RosterMsg(m)>>) = <<>>
         /\ CallRelated(<<msg, RosterMsg(m)>>) = <<msg>>
<1> DEFINE r == RosterMsg(m)
<1>1. r.type = "roster"
  BY DEF RosterMsg
<1> HIDE DEF r
<1>2. CallRelated(<<>>) = <<>>
  BY DEF CallRelated
<1>3. CallRelated(<<msg>>) = <<msg>>
  BY DEF CallRelated
<1>4. CallRelated(<<r>>) = <<>>
  <2>1. <<r>> # <<>> /\ <<r>>[1] = r /\ Len(<<r>>) = 1 /\ SubSeq(<<r>>, 1, 0) = <<>>
    OBVIOUS
  <2> QED
    BY <1>1, <2>1 DEF CallRelated
<1>5. CallRelated(<<msg, r>>) = <<msg>>
  <2> DEFINE s == <<msg, r>>
  <2>1. s # <<>> /\ s[2] = r /\ Len(s) = 2 /\ s[1] = msg /\ s \in Seq({msg, r})
    OBVIOUS
  <2> HIDE DEF s
  <2>2. CallRelated(s) = SubSeq(s, 1, 1)
    BY <1>1, <2>1 DEF CallRelated
  <2>3. CallRelated(s) = <<msg>>
    <3>1. /\ SubSeq(s, 1, 1) \in Seq({msg, r}) /\ Len(SubSeq(s, 1, 1)) = 1
          /\ SubSeq(s, 1, 1)[1] = msg
      BY <2>1
    <3> QED
      BY <2>2, <3>1, ShortSeqs
  <2> QED
    BY <2>3 DEF s
<1> QED
  BY <1>2, <1>3, <1>4, <1>5 DEF r

\* The concatenations that sending one message or two gives rise to.
LEMMA ShortConcat ==
  ASSUME NEW a, NEW b
  PROVE  /\ <<>> \o <<>> = <<>> /\ <<>> \o <<b>> = <<b>> /\ <<a>> \o <<>> = <<a>>
         /\ <<a>> \o <<b>> = <<a, b>>
<1>1. /\ <<>> \in Seq({a, b}) /\ <<a>> \in Seq({a, b}) /\ <<b>> \in Seq({a, b})
      /\ <<a, b>> \in Seq({a, b})
  OBVIOUS
<1>2. /\ <<>> \o <<>> = <<>> /\ <<>> \o <<b>> = <<b>> /\ <<a>> \o <<>> = <<a>>
  BY <1>1, ConcatEmptySeq
<1>3. <<a>> \o <<b>> = <<a, b>>
  <2>1. /\ <<a>> \o <<b>> \in Seq({a, b}) /\ Len(<<a>> \o <<b>>) = 2
        /\ (<<a>> \o <<b>>)[1] = a /\ (<<a>> \o <<b>>)[2] = b
    BY <1>1
  <2> QED
    BY <2>1, ShortSeqs
<1> QED
  BY <1>2, <1>3

\* What a client is given of a message, whether a roster follows or not.
LEMMA GivenAt ==
  ASSUME NEW h \in Handles, NEW hs, NEW msg, msg.type # "roster"
  PROVE  /\ CallRelated(Silence[h]) = <<>>
         /\ CallRelated(Send(hs, msg)[h]) =
              IF h \in hs /\ conn[h] = "open" THEN <<msg>> ELSE <<>>
         /\ \A i2h, m :
              CallRelated((Send(hs, msg) ++ BroadcastRoster(i2h, m))[h]) =
                IF h \in hs /\ conn[h] = "open" THEN <<msg>> ELSE <<>>
<1>1. Silence[h] = <<>>
  BY DEF Silence
<1>2. Send(hs, msg)[h] = IF h \in hs /\ conn[h] = "open" THEN <<msg>> ELSE <<>>
  BY DEF Send
<1>3. ASSUME NEW i2h, NEW m
      PROVE  CallRelated((Send(hs, msg) ++ BroadcastRoster(i2h, m))[h]) =
               IF h \in hs /\ conn[h] = "open" THEN <<msg>> ELSE <<>>
  <2> DEFINE s == Send(hs, msg)[h]
             r == RosterMsg(m)
             t == BroadcastRoster(i2h, m)[h]
  <2>1. (Send(hs, msg) ++ BroadcastRoster(i2h, m))[h] = s \o t
    BY DEF ++
  <2>2. t = <<r>> \/ t = <<>>
    BY DEF BroadcastRoster, Send
  <2>3. /\ <<>> \o <<>> = <<>> /\ <<>> \o <<r>> = <<r>> /\ <<msg>> \o <<>> = <<msg>>
        /\ <<msg>> \o <<r>> = <<msg, r>>
    BY ShortConcat
  <2>4. /\ CallRelated(<<>>) = <<>> /\ CallRelated(<<msg>>) = <<msg>>
        /\ CallRelated(<<r>>) = <<>> /\ CallRelated(<<msg, r>>) = <<msg>>
    BY Related
  <2>5. s = IF h \in hs /\ conn[h] = "open" THEN <<msg>> ELSE <<>>
    BY <1>2
  <2> HIDE DEF s, t, r
  <2>6. CASE h \in hs /\ conn[h] = "open"
    BY <2>1, <2>2, <2>3, <2>4, <2>5, <2>6
  <2>7. CASE ~(h \in hs /\ conn[h] = "open")
    BY <2>1, <2>2, <2>3, <2>4, <2>5, <2>7
  <2> QED
    BY <2>6, <2>7
<1> QED
  BY <1>1, <1>2, <1>3, Related

\* A client's id, its handle and its partner.
LEMMA IdFacts ==
  ASSUME RegistryInv, NEW d \in Handles
  PROVE  /\ d \in DOMAIN hdl_to_id =>
              /\ IdOf(d) = hdl_to_id[d] /\ IdOf(d) \in Ids
              /\ IdOf(d) \in DOMAIN members /\ conn[d] # "none"
              /\ PartnerOf(d) = members[IdOf(d)].peer_id
         /\ d \notin DOMAIN hdl_to_id => IdOf(d) = NoPeer /\ PartnerOf(d) = NoPeer
         /\ PartnerOf(d) \in Ids \cup {NoPeer}
         /\ NoPeer \notin Ids
         /\ \A i \in DOMAIN members : id_to_hdl[i] = d <=> IdOf(d) = i
<1>1. NoPeer \notin Ids /\ DOMAIN members \subseteq Ids
  BY DEF NoPeer, Ids, RegistryInv, MembersOK
<1>2. /\ DOMAIN id_to_hdl = DOMAIN members
      /\ DOMAIN hdl_to_id = Range(id_to_hdl)
      /\ \A i \in DOMAIN id_to_hdl : hdl_to_id[id_to_hdl[i]] = i
      /\ \A h \in DOMAIN hdl_to_id : conn[h] # "none"
  BY DEF RegistryInv, MapsConsistent
<1>3. \A i \in DOMAIN members : members[i].peer_id \in Ids \cup {NoPeer}
  BY DEF RegistryInv, MembersOK, MemberRec
<1>4. CASE d \in DOMAIN hdl_to_id
  <2>1. PICK i \in DOMAIN id_to_hdl : id_to_hdl[i] = d
    BY <1>2, <1>4 DEF Range
  <2>2. IdOf(d) = i /\ i \in DOMAIN members
    BY <1>2, <1>4, <2>1 DEF IdOf
  <2>3. PartnerOf(d) = members[i].peer_id
    BY <2>2 DEF PartnerOf, GetPeer, Has
  <2> QED
    BY <1>1, <1>2, <1>3, <1>4, <2>1, <2>2, <2>3 DEF IdOf
<1>5. CASE d \notin DOMAIN hdl_to_id
  <2>1. IdOf(d) = NoPeer /\ PartnerOf(d) = NoPeer
    BY <1>1, <1>5 DEF IdOf, PartnerOf, GetPeer, Has
  <2>2. \A i \in DOMAIN id_to_hdl : id_to_hdl[i] # d
    BY <1>2, <1>5 DEF Range
  <2> QED
    BY <1>1, <1>2, <1>5, <2>1, <2>2
<1> QED
  BY <1>4, <1>5

\* The stream of client d with what this step adds to it.
Fed(d) == down[d] \o CallRelated(sent'[d])

\* The step sends d nothing about calls, or one message of such a type.
Gets(d, types) ==
  \/ CallRelated(sent'[d]) = <<>>
  \/ \E m \in DownMsg : m.type \in types /\ CallRelated(sent'[d]) = <<m>>

\* The step leaves d its connection and its id and tells it what it should.
Served(d) ==
  /\ conn'[d] = conn[d] /\ IdOf(d)' = IdOf(d)
  /\ Fed(d) # down[d] => IdOf(d) # NoPeer
  /\ Hears(d, down[d], PartnerOf(d), Fed(d), PartnerOf(d)')

\* One message, or none, joins a stream.
LEMMA FedFacts ==
  ASSUME NEW d, down[d] \in Streams
  PROVE  /\ CallRelated(sent'[d]) = <<>> => Fed(d) = down[d]
         /\ \A m \in DownMsg :
              CallRelated(sent'[d]) = <<m>> => Fed(d) = Append(down[d], m)
<1>1. down[d] \o <<>> = down[d]
  BY ConcatEmptySeq DEF Streams
<1>2. ASSUME NEW m \in DownMsg PROVE down[d] \o <<m>> = Append(down[d], m)
  BY AppendIsConcat DEF Streams
<1> QED
  BY <1>1, <1>2 DEF Fed

\* A client whose call the step leaves alone and that is told nothing.
LEMMA LeftAlone ==
  ASSUME NEW d, down[d] \in Streams, conn'[d] = conn[d], IdOf(d)' = IdOf(d),
         PartnerOf(d)' = PartnerOf(d), CallRelated(sent'[d]) = <<>>
  PROVE  Served(d) /\ Fed(d) = down[d]
  BY FedFacts DEF Served, Hears

\* The server ignores a message, or gets none.
LEMMA IdleServed ==
  ASSUME RegistryInv, ServerIdle, NEW d \in Handles, down[d] \in Streams
  PROVE  Served(d) /\ Fed(d) = down[d] /\ RegistryInv' /\ Gets(d, {})
<1>1. RegistryInv'
  BY RegistryUnchanged DEF ServerIdle, RegistryInv, MapsConsistent
<1>2. CallRelated(sent'[d]) = <<>>
  BY DEF ServerIdle, Silence, CallRelated
<1>3. /\ conn'[d] = conn[d] /\ IdOf(d)' = IdOf(d)
      /\ PartnerOf(d)' = PartnerOf(d)
  BY DEF ServerIdle, registry, maps, IdOf, PartnerOf
<1> QED
  BY <1>1, <1>2, <1>3, LeftAlone DEF Gets

\* An answer or a candidate reaches the other end of its sender's call.
LEMMA RelayServed ==
  ASSUME RegistryInv, conn \in [Handles -> {"none", "open"}], NEW c \in Handles,
         NEW type \in Partner, NEW to, NEW body \in Sdps, Relay(c, type, to, body),
         NEW d \in Handles, down[d] \in Streams
  PROVE  Served(d) /\ RegistryInv'
<1>1. CASE Ignored(c)
  BY <1>1, IdleServed DEF Ignored, ServerIdle
<1>2. CASE Relayed(c, type, to, body)
  <2> DEFINE self == hdl_to_id[c]
             m == Stamped(type, self, body)
  <2>1. /\ UNCHANGED <<registry, maps, conn>> /\ c \in DOMAIN hdl_to_id
        /\ IsPaired(members, self, to)
        /\ sent' = Send({id_to_hdl[i] : i \in {to} \cap DOMAIN id_to_hdl}, m)
    BY <1>2 DEF Relayed, FromClient, registry, SendTo
  <2>2. RegistryInv'
    BY <2>1, RegistryUnchanged DEF RegistryInv, MapsConsistent
  <2>3. /\ conn'[d] = conn[d] /\ IdOf(d)' = IdOf(d)
        /\ PartnerOf(d)' = PartnerOf(d)
    BY <2>1 DEF registry, maps, IdOf, PartnerOf
  <2>4. self \in Ids
    BY <2>1, IdFacts
  <2>5. m \in DownMsg /\ m.type = type /\ m.from = self
    BY <2>4 DEF Stamped, DownMsg, Partner
  <2>6. /\ to \in DOMAIN members /\ members[to].peer_id = self
        /\ DOMAIN id_to_hdl = DOMAIN members /\ to \in Ids
    BY <2>1 DEF IsPaired, Has, RegistryInv, MapsConsistent, MembersOK
  <2>7. m.type # "roster"
    BY <2>5 DEF Partner
  <2> HIDE DEF self, m
  <2>8. CallRelated(sent'[d]) =
          IF IdOf(d) = to /\ conn[d] = "open" THEN <<m>> ELSE <<>>
    <3>1. d \in {id_to_hdl[i] : i \in {to} \cap DOMAIN id_to_hdl} <=> IdOf(d) = to
      BY <2>6, IdFacts
    <3> QED
      BY <2>1, <2>7, <3>1, GivenAt
  <2>9. CASE IdOf(d) = to /\ conn[d] = "open"
    <3>1. PartnerOf(d) = self /\ IdOf(d) # NoPeer
      BY <2>6, <2>9, IdFacts
    <3>2. Fed(d) = Append(down[d], m)
      BY <2>5, <2>8, <2>9, FedFacts
    <3> QED
      BY <2>2, <2>3, <2>5, <3>1, <3>2 DEF Served, Hears
  <2>10. CASE ~(IdOf(d) = to /\ conn[d] = "open")
    BY <2>2, <2>3, <2>8, <2>10, LeftAlone
  <2> QED
    BY <2>9, <2>10
<1> QED
  BY <1>1, <1>2 DEF Relay

\* leave: both ends hear the end of their call, nobody else anything.
LEMMA LeaveServed ==
  ASSUME RegistryInv, conn \in [Handles -> {"none", "open"}], NEW c \in Handles,
         Leave(c), NEW d \in Handles, down[d] \in Streams
  PROVE  Served(d) /\ RegistryInv' /\ Gets(d, {"leave"})
<1>1. CASE Ignored(c)
  BY <1>1, IdleServed DEF Ignored, ServerIdle, Gets
<1>2. CASE CallLeft(c)
  <2> DEFINE self == hdl_to_id[c]
             peer == members[self].peer_id
             m == Notice("leave", self)
             others == {id_to_hdl[i] : i \in {peer} \cap DOMAIN id_to_hdl}
             ends == {c} \cup others
  <2>1. /\ c \in DOMAIN hdl_to_id /\ self \in DOMAIN members /\ self \in Ids
        /\ IdOf(c) = self
    BY <1>2, IdFacts DEF CallLeft, FromClient
  <2>2. /\ peer # NoPeer /\ members' = Hangup(members, self, peer)
        /\ UNCHANGED <<names, next_id, maps, conn>>
        /\ sent' = (Send({c}, m) ++ Send(others, m))
                     ++ BroadcastRoster(id_to_hdl, members')
    BY <1>2, <2>1 DEF CallLeft, FromClient, GetPeer, Has, SendToHdl, SendTo, maps
  <2>3. /\ peer \in DOMAIN members /\ peer # self /\ peer \in Ids
        /\ members[peer].peer_id = self /\ DOMAIN id_to_hdl = DOMAIN members
    BY <2>1, <2>2 DEF RegistryInv, OneToOne, IsPaired, Has, MembersOK, MapsConsistent
  <2>4. RegistryInv'
    BY <2>1, <2>2, HangupLemma, RegistryInvCalls DEF RegistryInv
  <2>5. m \in DownMsg /\ m.type = "leave" /\ m.type # "roster"
    BY <2>1 DEF Notice, DownMsg
  <2>6. /\ d = c <=> IdOf(d) = self
        /\ d \in others <=> IdOf(d) = peer
    BY <2>1, <2>3, IdFacts
  <2>7. conn'[d] = conn[d] /\ IdOf(d)' = IdOf(d)
    BY <2>2 DEF maps, IdOf
  <2>8. /\ DOMAIN members' = DOMAIN members
        /\ \A i \in DOMAIN members :
             members'[i].peer_id = IF i \in {self, peer} THEN NoPeer
                                   ELSE members[i].peer_id
    <3>1. \A i \in DOMAIN members : members[i] \in MemberRec
      BY DEF RegistryInv, MembersOK
    <3> QED
      BY <2>2, <3>1 DEF Hangup, Idled, MemberRec
  <2>9. PartnerOf(d)' = IF IdOf(d) \in {self, peer} THEN NoPeer ELSE PartnerOf(d)
    BY <2>1, <2>3, <2>7, <2>8 DEF PartnerOf, GetPeer, Has
  <2>10. /\ m \in DownMsg
         /\ sent'[d] = (Send(ends, m) ++ BroadcastRoster(id_to_hdl, members'))[d]
    <3>1. Send({c}, m)[d] \o Send(others, m)[d] = Send(ends, m)[d]
      <4>1. ~(d \in {c} /\ d \in others)
        BY <2>3, <2>6
      <4>2. /\ Send({c}, m)[d] = IF d \in {c} /\ conn[d] = "open" THEN <<m>> ELSE <<>>
            /\ Send(others, m)[d] =
                 IF d \in others /\ conn[d] = "open" THEN <<m>> ELSE <<>>
            /\ Send(ends, m)[d] = IF d \in ends /\ conn[d] = "open" THEN <<m>> ELSE <<>>
        BY OutputAt
      <4>3. d \in ends <=> d \in {c} \/ d \in others
        OBVIOUS
      <4>4. /\ <<>> \o <<>> = <<>> /\ <<>> \o <<m>> = <<m>>
            /\ <<m>> \o <<>> = <<m>>
        BY ShortConcat
      <4> HIDE DEF m, others, ends
      <4> QED
        BY <4>1, <4>2, <4>3, <4>4
    <3> HIDE DEF m, others, ends
    <3> DEFINE a == Send({c}, m)
               b == Send(others, m)
               r == BroadcastRoster(id_to_hdl, members')
    <3>2. sent' = (a ++ b) ++ r /\ a[d] \o b[d] = Send(ends, m)[d]
      BY <2>2, <3>1
    <3>3. sent'[d] = Send(ends, m)[d] \o r[d]
      <4> HIDE DEF a, b, r
      <4> QED
        BY <3>2 DEF ++
    <3>4. (Send(ends, m) ++ r)[d] = Send(ends, m)[d] \o r[d]
      <4> HIDE DEF r
      <4> QED
        BY DEF ++
    <3> QED
      BY <2>5, <3>3, <3>4
  <2> HIDE DEF self, peer, m, others
  <2>11. CallRelated(sent'[d]) =
           IF IdOf(d) \in {self, peer} /\ conn[d] = "open" THEN <<m>> ELSE <<>>
    <3>1. d \in ends <=> IdOf(d) \in {self, peer}
      BY <2>6
    <3> HIDE DEF ends
    <3> QED
      BY <2>5, <2>10, <3>1, GivenAt
  <2>12. Gets(d, {"leave"})
    BY <2>5, <2>11 DEF Gets
  <2>13. CASE IdOf(d) \in {self, peer}
    <3>1. d \in DOMAIN hdl_to_id
      BY <2>1, <2>3, <2>13, IdFacts
    <3>2. IdOf(d) # NoPeer /\ conn[d] = "open" /\ IdOf(d) \in DOMAIN members
      BY <3>1, IdFacts
    <3>3. PartnerOf(d) \in {self, peer}
      BY <2>3, <2>13, <3>1, IdFacts DEF peer
    <3>4. Fed(d) = Append(down[d], m)
      BY <2>5, <2>11, <2>13, <3>2, FedFacts
    <3> QED
      BY <2>1, <2>3, <2>4, <2>5, <2>7, <2>9, <2>12, <2>13, <3>2, <3>3, <3>4
         DEF Served, Hears, Ends
  <2>14. CASE IdOf(d) \notin {self, peer}
    BY <2>4, <2>7, <2>9, <2>11, <2>12, <2>14, LeftAlone
  <2> QED
    BY <2>13, <2>14
<1> QED
  BY <1>1, <1>2 DEF Leave

\* The server has taken c's call to the client to.
Calling(c, to) ==
  /\ conn'[c] = conn[c] /\ IdOf(c)' = IdOf(c) /\ IdOf(c) # NoPeer
  /\ Fed(c) = down[c] /\ PartnerOf(c) = NoPeer /\ PartnerOf(c)' = to

\* call: the callee hears the call, or the caller that it is refused.
LEMMA CallServed ==
  ASSUME RegistryInv, conn \in [Handles -> {"none", "open"}], RolesKept,
         NEW c \in Handles, c \in Callers, NEW sdp \in Sdps, NEW to,
         to = eng[c].peer_id, Call(c, to, sdp),
         NEW d \in Handles, down[d] \in Streams
  PROVE  /\ RegistryInv'
         /\ \/ Served(d)
            \/ d = c /\ Calling(c, to)
         /\ CallAccepted(c, to, sdp) => d # c \/ Calling(c, to)
<1>1. CASE CallIgnored(c, to)
  BY <1>1, IdleServed DEF CallIgnored, Ignored, ServerIdle, CallAccepted, FromClient
<1>2. CASE CallRefused(c, to)
  <2>1. PICK code \in {"busy", "offline"} :
          sent' = Send({c}, ErrorMsg(code))
    BY <1>2 DEF CallRefused, SendToHdl
  <2>2. UNCHANGED <<registry, maps, conn>> /\ c \in DOMAIN hdl_to_id
    BY <1>2 DEF CallRefused, FromClient, registry
  <2>3. RegistryInv'
    BY <2>2, RegistryUnchanged DEF RegistryInv, MapsConsistent
  <2>4. /\ conn'[d] = conn[d] /\ IdOf(d)' = IdOf(d)
        /\ PartnerOf(d)' = PartnerOf(d)
    BY <2>2 DEF registry, maps, IdOf, PartnerOf
  <2> ~CallAccepted(c, to, sdp)
    BY <1>2 DEF CallRefused, CallAccepted, FromClient
  <2> DEFINE m == ErrorMsg(code)
  <2>5. m \in DownMsg /\ m.type = "error" /\ m.type # "roster"
    BY DEF ErrorMsg, DownMsg
  <2> HIDE DEF m
  <2>6. CallRelated(sent'[d]) =
          IF d \in {c} /\ conn[d] = "open" THEN <<m>> ELSE <<>>
    BY <2>1, <2>5, GivenAt DEF m
  <2>7. CASE d = c /\ conn[d] = "open"
    <3>1. Fed(d) = Append(down[d], m) /\ IdOf(d) # NoPeer
      BY <2>2, <2>5, <2>6, <2>7, FedFacts, IdFacts
    <3> QED
      BY <2>3, <2>4, <2>5, <3>1 DEF Served, Hears
  <2>8. CASE ~(d = c /\ conn[d] = "open")
    BY <2>3, <2>4, <2>6, <2>8, LeftAlone
  <2> QED
    BY <2>7, <2>8
<1>3. CASE CallAccepted(c, to, sdp)
  <2> DEFINE self == hdl_to_id[c]
             m == Stamped("call", self, sdp)
             others == {id_to_hdl[i] : i \in {to} \cap DOMAIN id_to_hdl}
  <2>1. /\ c \in DOMAIN hdl_to_id /\ self \in DOMAIN members /\ self \in Ids
        /\ IdOf(c) = self
    BY <1>3, IdFacts DEF CallAccepted, FromClient
  <2>2. /\ CallResult(members, self, to) = "ok"
        /\ members' = Pair(members, self, to)
        /\ UNCHANGED <<names, next_id, maps, conn>>
        /\ sent' = Send(others, m) ++ BroadcastRoster(id_to_hdl, members')
    BY <1>3 DEF CallAccepted, FromClient, SendTo, maps
  <2>3. /\ to # self /\ to \in DOMAIN members /\ to \in Ids
        /\ ~Busy(members, self) /\ ~Busy(members, to)
        /\ DOMAIN id_to_hdl = DOMAIN members
    BY <2>2, CallLemma DEF RegistryInv, MembersOK, MapsConsistent
  <2>4. RegistryInv'
    BY <2>2, CallLemma, RegistryInvCalls DEF RegistryInv
  <2>5. m \in DownMsg /\ m.type = "call" /\ m.type # "roster" /\ m.from = self
    BY <2>1 DEF Stamped, DownMsg
  <2>6. /\ d = c <=> IdOf(d) = self
        /\ d \in others <=> IdOf(d) = to
    BY <2>1, <2>3, IdFacts
  <2>7. conn'[d] = conn[d] /\ IdOf(d)' = IdOf(d)
    BY <2>2 DEF maps, IdOf
  <2>8. /\ DOMAIN members' = DOMAIN members
        /\ members[self].peer_id = NoPeer
        /\ members'[self].peer_id = to /\ members'[to].peer_id = self
        /\ \A i \in DOMAIN members \ {self, to} : members'[i] = members[i]
    <3>1. members[self] \in MemberRec /\ members[to] \in MemberRec
      BY <2>1, <2>3 DEF RegistryInv, MembersOK
    <3>2. members[self].peer_id = NoPeer
      BY <2>1, <2>3 DEF RegistryInv, OneToOne
    <3> QED
      BY <2>1, <2>2, <2>3, <3>1, <3>2 DEF Pair, PairedWith, MemberRec
  <2> HIDE DEF self, m, others
  <2>9. CallRelated(sent'[d]) =
          IF IdOf(d) = to /\ conn[d] = "open" THEN <<m>> ELSE <<>>
    BY <2>2, <2>5, <2>6, GivenAt
  <2>10. CASE IdOf(d) = self
    <3>1. d = c /\ CallRelated(sent'[d]) = <<>>
      BY <2>3, <2>6, <2>9, <2>10
    <3>2. PartnerOf(c) = NoPeer /\ PartnerOf(c)' = to /\ IdOf(c) # NoPeer
      BY <2>1, <2>7, <2>8, <2>10, <3>1, IdFacts DEF PartnerOf, GetPeer, Has
    <3> QED
      BY <2>4, <2>7, <3>1, <3>2, FedFacts DEF Calling
  <2>11. CASE IdOf(d) = to
    <3>1. d \in DOMAIN hdl_to_id
      BY <2>3, <2>11, IdFacts
    <3>2. /\ IdOf(d) # NoPeer /\ conn[d] = "open" /\ d # c
          /\ hdl_to_id[d] = eng[c].peer_id
      BY <2>3, <2>6, <2>11, <3>1, IdFacts
    <3>3. d \notin Callers
      BY <3>1, <3>2 DEF RolesKept
    <3>4. PartnerOf(d)' = self
      BY <2>3, <2>7, <2>8, <2>11 DEF PartnerOf, GetPeer, Has
    <3>5. Fed(d) = Append(down[d], m)
      BY <2>5, <2>9, <2>11, <3>2, FedFacts
    <3> QED
      BY <2>4, <2>5, <2>7, <3>2, <3>3, <3>4, <3>5 DEF Served, Hears
  <2>12. CASE IdOf(d) \notin {self, to}
    <3>1. PartnerOf(d)' = PartnerOf(d)
      BY <2>7, <2>8, <2>12 DEF PartnerOf, GetPeer, Has
    <3> QED
      BY <2>4, <2>6, <2>7, <2>9, <2>12, <3>1, LeftAlone
  <2> QED
    BY <2>10, <2>11, <2>12
<1> QED
  BY <1>1, <1>2, <1>3 DEF Call

\* register: the sender hears its id or that the name is taken, nobody else
\* anything about calls.
LEMMA RegisterServed ==
  ASSUME RegistryInv, conn \in [Handles -> {"none", "open"}],
         NEW c \in Handles, IdOf(c) = NoPeer, NEW name \in Names,
         Register(c, name), NEW d \in Handles, down[d] \in Streams
  PROVE  /\ RegistryInv' /\ conn' = conn
         /\ d # c => Served(d) /\ CallRelated(sent'[d]) = <<>>
         /\ \/ /\ IdOf(c)' = NoPeer /\ PartnerOf(c)' = NoPeer
               /\ CallRelated(sent'[c]) = <<ErrorMsg("name_taken")>>
            \/ \E id \in Ids :
                 /\ IdOf(c)' = id /\ PartnerOf(c)' = NoPeer
                 /\ CallRelated(sent'[c]) = <<Welcome(id)>>
<1>1. c \notin DOMAIN hdl_to_id /\ NoPeer \notin Ids
  BY IdFacts
<1>2. CASE RegisterRefused(c, name)
  <2>1. /\ UNCHANGED <<registry, maps, conn>> /\ conn[c] = "open"
        /\ sent' = Send({c}, ErrorMsg("name_taken"))
    BY <1>2 DEF RegisterRefused, SendToHdl, Receives
  <2>2. RegistryInv'
    BY <2>1, RegistryUnchanged DEF RegistryInv, MapsConsistent
  <2>3. \A h \in Handles : /\ conn'[h] = conn[h] /\ IdOf(h)' = IdOf(h)
                           /\ PartnerOf(h)' = PartnerOf(h)
    BY <2>1 DEF registry, maps, IdOf, PartnerOf
  <2>4. ErrorMsg("name_taken").type # "roster"
    BY DEF ErrorMsg
  <2>5. d # c => CallRelated(sent'[d]) = <<>>
    BY <2>1, <2>4, GivenAt
  <2>6. CallRelated(sent'[c]) = <<ErrorMsg("name_taken")>>
    BY <2>1, <2>4, GivenAt
  <2>7. d # c => Served(d) /\ CallRelated(sent'[d]) = <<>>
    BY <2>3, <2>5, LeftAlone
  <2>8. IdOf(c)' = NoPeer /\ PartnerOf(c)' = NoPeer
    BY <1>1, <2>3, IdFacts
  <2> QED
    BY <2>1, <2>2, <2>6, <2>7, <2>8
<1>3. CASE RegisterAccepted(c, name)
  <2>1. /\ conn' = conn /\ conn[c] = "open" /\ next_id <= MaxId
        /\ members' = Put(members, next_id, Member(name))
        /\ hdl_to_id' = Put(hdl_to_id, c, next_id)
        /\ sent' = Send({c}, Welcome(next_id))
                     ++ BroadcastRoster(id_to_hdl', members')
    BY <1>3 DEF RegisterAccepted, SendToHdl, Receives
  <2>2. RegistryInv'
    BY <1>3, RegistryInvRegister
  <2>3. next_id \in Ids /\ next_id \notin DOMAIN members
    BY <2>1, IdAssumption DEF RegistryInv, Ids
  <2>4. /\ DOMAIN hdl_to_id' = DOMAIN hdl_to_id \cup {c} /\ hdl_to_id'[c] = next_id
        /\ \A h \in DOMAIN hdl_to_id \ {c} : hdl_to_id'[h] = hdl_to_id[h]
        /\ DOMAIN members' = DOMAIN members \cup {next_id}
        /\ members'[next_id] = Member(name)
        /\ \A i \in DOMAIN members \ {next_id} : members'[i] = members[i]
    <3>1. /\ DOMAIN hdl_to_id' = DOMAIN hdl_to_id \cup {c} /\ hdl_to_id'[c] = next_id
          /\ \A h \in DOMAIN hdl_to_id \ {c} : hdl_to_id'[h] = hdl_to_id[h]
      BY <2>1 DEF Put
    <3>2. /\ DOMAIN members' = DOMAIN members \cup {next_id}
          /\ members'[next_id] = Member(name)
          /\ \A i \in DOMAIN members \ {next_id} : members'[i] = members[i]
      BY <2>1 DEF Put
    <3> QED
      BY <3>1, <3>2
  <2>5. IdOf(c)' = next_id /\ PartnerOf(c)' = NoPeer
    BY <2>4 DEF IdOf, PartnerOf, GetPeer, Has, Member
  <2> DEFINE m == Welcome(next_id)
  <2>6. m.type # "roster"
    BY DEF Welcome
  <2> HIDE DEF m
  <2>7. \A h \in Handles : CallRelated(sent'[h]) =
          IF h \in {c} /\ conn[h] = "open" THEN <<m>> ELSE <<>>
    BY <2>1, <2>6, GivenAt DEF m
  <2>8. CallRelated(sent'[c]) = <<Welcome(next_id)>>
    BY <2>1, <2>7 DEF m
  <2>9. ASSUME d # c PROVE Served(d) /\ CallRelated(sent'[d]) = <<>>
    <3>1. CallRelated(sent'[d]) = <<>>
      BY <2>9, <2>7
    <3>2. IdOf(d)' = IdOf(d)
      BY <2>4, <2>9 DEF IdOf
    <3>3. IdOf(d) # next_id
      BY <1>1, <2>3, IdFacts
    <3>4. PartnerOf(d)' = PartnerOf(d)
      BY <2>4, <3>2, <3>3 DEF PartnerOf, GetPeer, Has
    <3> QED
      BY <2>1, <3>1, <3>2, <3>4, LeftAlone
  <2> QED
    BY <2>1, <2>2, <2>3, <2>5, <2>8, <2>9
<1> QED
  BY <1>1, <1>2, <1>3 DEF Register

\* A connection ends: the server forgets its client and tells the other end of
\* its call.
LEMMA CloseServed ==
  ASSUME RegistryInv, conn \in [Handles -> {"none", "open"}],
         NEW c \in Handles, OnClose(c), NEW d \in Handles, down[d] \in Streams
  PROVE  /\ RegistryInv'
         /\ d # c => Served(d) /\ Gets(d, {"peer_gone"})
         /\ conn' = [conn EXCEPT ![c] = "none"]
         /\ IdOf(c)' = NoPeer /\ PartnerOf(c)' = NoPeer
         /\ CallRelated(sent'[c]) = <<>>
<1>1. RegistryInv' /\ conn' = [conn EXCEPT ![c] = "none"]
  BY RegistryInvClose DEF OnClose
<1>2. d # c => conn'[d] = conn[d]
  BY <1>1
<1>3. CASE DropAnonymous(c)
  <2>1. /\ UNCHANGED <<registry, maps>> /\ sent' = Silence
        /\ c \notin DOMAIN hdl_to_id
    BY <1>3 DEF DropAnonymous
  <2>2. /\ IdOf(d)' = IdOf(d) /\ PartnerOf(d)' = PartnerOf(d)
        /\ IdOf(c)' = IdOf(c) /\ PartnerOf(c)' = PartnerOf(c)
    BY <2>1 DEF registry, maps, IdOf, PartnerOf
  <2>3. CallRelated(sent'[d]) = <<>> /\ CallRelated(sent'[c]) = <<>>
    BY <2>1 DEF Silence, CallRelated
  <2>4. IdOf(c) = NoPeer /\ PartnerOf(c) = NoPeer
    BY <2>1, IdFacts
  <2>5. d # c => Served(d) /\ Gets(d, {"peer_gone"})
    BY <1>2, <2>2, <2>3, LeftAlone DEF Gets
  <2> QED
    BY <1>1, <2>2, <2>3, <2>4, <2>5
<1>4. CASE DropClient(c)
  <2> DEFINE id == hdl_to_id[c]
             peer == GetPeer(members, id)
             m == Notice("peer_gone", id)
             others == {id_to_hdl'[i] : i \in {peer} \cap DOMAIN id_to_hdl'}
  <2>1. /\ c \in DOMAIN hdl_to_id
        /\ hdl_to_id' = Erase(hdl_to_id, c) /\ id_to_hdl' = Erase(id_to_hdl, id)
        /\ members' = Remove(members, id)
        /\ sent' = Send(others, m) ++ BroadcastRoster(id_to_hdl', members')
    BY <1>4 DEF DropClient, SendTo
  <2>2. /\ id \in DOMAIN members /\ id \in Ids /\ IdOf(c) = id
        /\ peer = members[id].peer_id /\ PartnerOf(c) = peer
        /\ NoPeer \notin Ids /\ DOMAIN members = DOMAIN id_to_hdl
        /\ DOMAIN members \subseteq Ids
    BY <2>1, IdFacts DEF GetPeer, Has, RegistryInv, MapsConsistent, MembersOK
  <2>3. peer # NoPeer => /\ peer \in DOMAIN members /\ peer # id
                         /\ members[peer].peer_id = id
    BY <2>2 DEF RegistryInv, OneToOne, IsPaired, Has
  <2>4. /\ DOMAIN hdl_to_id' = DOMAIN hdl_to_id \ {c}
        /\ \A h \in DOMAIN hdl_to_id \ {c} : hdl_to_id'[h] = hdl_to_id[h]
        /\ DOMAIN id_to_hdl' = DOMAIN members \ {id}
        /\ \A i \in DOMAIN members \ {id} : id_to_hdl'[i] = id_to_hdl[i]
    <3>1. /\ DOMAIN hdl_to_id' = DOMAIN hdl_to_id \ {c}
          /\ \A h \in DOMAIN hdl_to_id \ {c} : hdl_to_id'[h] = hdl_to_id[h]
      BY <2>1, EraseFacts
    <3>2. /\ DOMAIN id_to_hdl' = DOMAIN id_to_hdl \ {id}
          /\ \A i \in DOMAIN id_to_hdl \ {id} : id_to_hdl'[i] = id_to_hdl[i]
      <4> HIDE DEF id
      <4> QED
        BY <2>1, EraseFacts
    <3> QED
      BY <2>2, <3>1, <3>2
  <2>5. /\ DOMAIN members' = DOMAIN members \ {id}
        /\ \A i \in DOMAIN members \ {id} :
             members'[i].peer_id = IF i = peer THEN NoPeer ELSE members[i].peer_id
    <3>1. \A i \in DOMAIN members : members[i] \in MemberRec
      BY DEF RegistryInv, MembersOK
    <3> QED
      BY <2>1, <3>1 DEF Remove, Idled, MemberRec
  <2>6. IdOf(c)' = NoPeer /\ PartnerOf(c)' = NoPeer
    BY <2>2, <2>4, <2>5 DEF IdOf, PartnerOf, GetPeer, Has
  <2>7. m \in DownMsg /\ m.type = "peer_gone" /\ m.type # "roster"
    BY <2>2 DEF Notice, DownMsg
  <2>8. ASSUME NEW h \in Handles
        PROVE  h \in others <=> IdOf(h) = peer /\ peer # NoPeer
    <3>1. CASE peer = NoPeer
      BY <2>2, <2>4, <3>1
    <3>2. CASE peer # NoPeer
      <4>1. others = {id_to_hdl[peer]}
        BY <2>3, <2>4, <3>2
      <4> QED
        BY <2>3, <3>2, <4>1, IdFacts
    <3> QED
      BY <3>1, <3>2
  <2> HIDE DEF m, others, id, peer
  <2>9. ASSUME NEW h \in Handles
        PROVE  CallRelated(sent'[h]) =
                 IF IdOf(h) = peer /\ peer # NoPeer /\ conn[h] = "open"
                 THEN <<m>> ELSE <<>>
    BY <2>1, <2>7, <2>8, GivenAt
  <2>10. CallRelated(sent'[c]) = <<>>
    BY <2>2, <2>3, <2>9
  <2>11. ASSUME d # c PROVE Served(d)
    <3>1. IdOf(d)' = IdOf(d) /\ IdOf(d) # id
      <4>1. IdOf(d)' = IdOf(d)
        BY <2>4, <2>11 DEF IdOf
      <4>2. id_to_hdl[id] = c
        BY <2>2, IdFacts
      <4> QED
        BY <2>2, <2>11, <4>1, <4>2, IdFacts
    <3>2. CASE IdOf(d) = peer /\ peer # NoPeer
      <4>1. d \in DOMAIN hdl_to_id /\ PartnerOf(d) = id
        BY <2>3, <3>2, IdFacts
      <4>2. conn[d] = "open" /\ PartnerOf(d) \in Ids
        BY <2>2, <4>1, IdFacts
      <4>3. PartnerOf(d)' = NoPeer
        BY <2>3, <2>5, <3>1, <3>2 DEF PartnerOf, GetPeer, Has
      <4>4. Fed(d) = Append(down[d], m)
        BY <2>7, <2>9, <3>2, <4>2, FedFacts
      <4> QED
        BY <1>2, <2>7, <2>11, <3>1, <3>2, <4>2, <4>3, <4>4 DEF Served, Hears, Ends
    <3>3. CASE ~(IdOf(d) = peer /\ peer # NoPeer)
      <4>1. PartnerOf(d)' = PartnerOf(d)
        <5>1. CASE d \in DOMAIN hdl_to_id
          <6>1. IdOf(d) \in DOMAIN members \ {id} /\ IdOf(d) # NoPeer
            BY <2>2, <3>1, <5>1, IdFacts
          <6>2. IdOf(d) # peer
            BY <3>3, <6>1
          <6> QED
            BY <2>5, <3>1, <6>1, <6>2 DEF PartnerOf, GetPeer, Has
        <5>2. CASE d \notin DOMAIN hdl_to_id
          <6>1. IdOf(d) = NoPeer /\ NoPeer \notin DOMAIN members'
            BY <2>2, <2>5, <5>2, IdFacts
          <6> QED
            BY <2>2, <3>1, <6>1 DEF PartnerOf, GetPeer, Has
        <5> QED
          BY <5>1, <5>2
      <4> QED
        BY <1>2, <2>9, <2>11, <3>1, <3>3, <4>1, LeftAlone
    <3> QED
      BY <3>2, <3>3
  <2>12. Gets(d, {"peer_gone"})
    BY <2>7, <2>9 DEF Gets
  <2> QED
    BY <1>1, <2>6, <2>10, <2>11, <2>12
<1> QED
  BY <1>3, <1>4 DEF OnClose

\* A client that the step of the server concerns, or not, stays in order; its
\* engine may have done something of its own in the same step.
LEMMA ServedClient ==
  ASSUME RegistryInv, NEW d \in Handles, Served(d), down[d] \in Streams,
         NEW f \in Engines,
         ClientOK(d, f, down[d], conn[d], IdOf(d), PartnerOf(d))
  PROVE  /\ ClientOK(d, f, Fed(d), conn'[d], IdOf(d)', PartnerOf(d)')
         /\ Fed(d) \in Streams
<1>1. PartnerOf(d) \in Ids \cup {NoPeer}
  BY IdFacts
<1>2. Fed(d) # down[d] => f.link = "on"
  BY DEF Served, ClientOK, LinkOK
<1> QED
  BY <1>1, <1>2, HearsClient DEF Served

-----------------------------------------------------------------------------
(* Preservation, one action at a time.                                     *)

\* One client moves and the others stay where the server's step leaves them.
LEMMA OneMoves ==
  ASSUME SessionInv, RegistryInv', NEW c \in Handles,
         NEW f \in Engines, eng' = [eng EXCEPT ![c] = f],
         down' = [h \in Handles |-> down'[h]], down'[c] \in Streams,
         conn' \in [Handles -> {"none", "open"}], calls' \in Nat,
         \A d \in Handles \ {c} : Served(d) /\ down'[d] = Fed(d),
         ClientOK(c, f, down'[c], conn'[c], IdOf(c)', PartnerOf(c)')
  PROVE  Kept'
<1>1. eng \in [Handles -> Engines] /\ down \in [Handles -> Streams]
  BY DEF SessionInv, Kept, SessionTypes
<1>2. ASSUME NEW d \in Handles \ {c}
      PROVE  /\ ClientOK(d, eng'[d], down'[d], conn'[d], IdOf(d)', PartnerOf(d)')
             /\ down'[d] \in Streams
  <2>1. eng'[d] = eng[d] /\ eng[d] \in Engines /\ down[d] \in Streams
    BY <1>1
  <2>2. ClientOK(d, eng[d], down[d], conn[d], IdOf(d), PartnerOf(d))
    BY DEF SessionInv, Kept, ClientsOK
  <2>3. Served(d) /\ down'[d] = Fed(d) /\ RegistryInv
    BY DEF SessionInv, Kept
  <2> QED
    BY <2>1, <2>2, <2>3, ServedClient
<1>3. eng'[c] = f
  BY <1>1
<1>4. eng' \in [Handles -> Engines] /\ down' \in [Handles -> Streams]
  <2>1. eng' \in [Handles -> Engines]
    BY <1>1
  <2>2. \A d \in Handles : down'[d] \in Streams
    BY <1>2
  <2> QED
    BY <2>1, <2>2
<1>5. ClientsOK'
  BY <1>2, <1>3 DEF ClientsOK
<1> QED
  BY <1>4, <1>5 DEF Kept, SessionTypes

\* An engine does something that needs no message of its own; the server may
\* tell every client something of it.
LEMMA OwnMove ==
  ASSUME SessionInv, RegistryInv', NEW c \in Handles,
         NEW f \in Engines, eng' = [eng EXCEPT ![c] = f],
         Deliver(down), conn' = conn, calls' \in Nat,
         \A d \in Handles : Served(d),
         ClientOK(c, f, down[c], conn[c], IdOf(c), PartnerOf(c))
  PROVE  Kept'
<1>1. down' = [h \in Handles |-> Fed(h)]
  BY DEF Deliver, Fed
<1>2. /\ down[c] \in Streams /\ RegistryInv
      /\ conn \in [Handles -> {"none", "open"}]
  BY DEF SessionInv, Kept, SessionTypes
<1>3. /\ ClientOK(c, f, Fed(c), conn'[c], IdOf(c)', PartnerOf(c)')
      /\ Fed(c) \in Streams
  BY <1>2, ServedClient
<1>4. /\ down'[c] = Fed(c) /\ \A d \in Handles \ {c} : down'[d] = Fed(d)
      /\ down' = [h \in Handles |-> down'[h]]
  BY <1>1
<1>5. conn' \in [Handles -> {"none", "open"}]
  BY <1>2
<1> QED
  BY <1>3, <1>4, <1>5, OneMoves

\* What an action finds.
LEMMA Found ==
  ASSUME SessionInv, NEW c \in Handles
  PROVE  /\ eng[c] \in Engines /\ down[c] \in Streams /\ conn[c] \in {"none", "open"}
         /\ ClientOK(c, eng[c], down[c], conn[c], IdOf(c), PartnerOf(c))
         /\ eng \in [Handles -> Engines] /\ down \in [Handles -> Streams]
         /\ conn \in [Handles -> {"none", "open"}] /\ calls \in Nat
         /\ RegistryInv
         /\ PartnerOf(c) \in Ids \cup {NoPeer}
         /\ eng[c].link # "on" => IdOf(c) = NoPeer /\ PartnerOf(c) = NoPeer
<1>1. RegistryInv
  BY DEF SessionInv, Kept
<1>2. ClientOK(c, eng[c], down[c], conn[c], IdOf(c), PartnerOf(c))
  BY DEF SessionInv, Kept, ClientsOK
<1>3. eng[c].link # "on" => IdOf(c) = NoPeer
  BY <1>2 DEF ClientOK, LinkOK
<1>4. eng[c].link # "on" => PartnerOf(c) = NoPeer
  BY <1>1, <1>3, IdFacts
<1>5. PartnerOf(c) \in Ids \cup {NoPeer}
  BY <1>1, IdFacts
<1> QED
  BY <1>1, <1>2, <1>3, <1>4, <1>5 DEF SessionInv, Kept, SessionTypes

\* The server has nothing to do with it.
LEMMA AloneMove ==
  ASSUME SessionInv, NEW c \in Handles,
         NEW f \in Engines, eng' = [eng EXCEPT ![c] = f],
         ServerIdle, Deliver(down) \/ down' = down, calls' \in Nat,
         ClientOK(c, f, down[c], conn[c], IdOf(c), PartnerOf(c))
  PROVE  Kept'
<1>1. /\ \A d \in Handles : down[d] \in Streams
      /\ RegistryInv /\ conn' = conn /\ down \in [Handles -> Streams]
  BY Found DEF ServerIdle
<1>2. \A d \in Handles : Served(d) /\ Fed(d) = down[d]
  BY <1>1, IdleServed
<1>3. RegistryInv'
  BY <1>1, IdleServed
<1>4. Deliver(down)
  <2>1. CASE down' = down
    <3>1. down = [h \in Handles |-> down[h]]
      BY <1>1
    <3>2. [h \in Handles |-> down[h]] = [h \in Handles |-> Fed(h)]
      BY <1>2
    <3> QED
      BY <2>1, <3>1, <3>2 DEF Deliver, Fed
  <2> QED
    BY <2>1
<1> QED
  BY <1>1, <1>2, <1>3, <1>4, OwnMove

\* ConnectToServer keeps the invariant: the client has nothing to read yet.
LEMMA ConnectKept ==
  ASSUME SessionInv, NEW c \in Handles, ConnectToServer(c)
  PROVE  Kept'
<1> DEFINE f == [eng[c] EXCEPT !.link = "connecting"]
<1>1. /\ ~eng[c].crashed /\ eng[c].link = "off" /\ down[c] = <<>>
      /\ eng' = [eng EXCEPT ![c] = f]
      /\ conn[c] = "none" /\ conn' = [conn EXCEPT ![c] = "open"]
      /\ sent' = Silence /\ UNCHANGED <<registry, maps, down, calls>>
  BY DEF ConnectToServer, OnOpen, Alive
<1>2. f \in Engines
  BY Found DEF Engines
<1>3. ClientOK(c, f, <<>>, "open", NoPeer, NoPeer)
  BY <1>1, <1>2, Found, ConnectClient
<1>4. /\ \A d \in Handles : IdOf(d)' = IdOf(d) /\ PartnerOf(d)' = PartnerOf(d)
      /\ conn' \in [Handles -> {"none", "open"}] /\ conn'[c] = "open"
      /\ \A d \in Handles \ {c} : conn'[d] = conn[d]
  BY <1>1, Found DEF registry, maps, IdOf, PartnerOf
<1>5. RegistryInv'
  BY <1>1, <1>4, Found, RegistryUnchanged DEF RegistryInv, MapsConsistent
<1>6. ASSUME NEW d \in Handles \ {c}
      PROVE  Served(d) /\ down'[d] = Fed(d)
  <2>1. CallRelated(sent'[d]) = <<>>
    BY <1>1 DEF Silence, CallRelated
  <2> QED
    BY <1>1, <1>4, <2>1, Found, LeftAlone
<1>7. /\ down' = [h \in Handles |-> down'[h]] /\ down'[c] = <<>>
      /\ <<>> \in Streams
  BY <1>1, Found DEF Streams
<1>8. IdOf(c)' = NoPeer /\ PartnerOf(c)' = NoPeer
  BY <1>1, <1>4, Found
<1>9. calls' \in Nat
  BY <1>1, Found
<1> HIDE DEF f
<1> QED
  BY <1>1, <1>2, <1>3, <1>4, <1>5, <1>6, <1>7, <1>8, <1>9, OneMoves

\* So does SendRegister, the welcome being the first message of its reader.
LEMMA RegisterKept ==
  ASSUME SessionInv, NEW c \in Handles, SendRegister(c)
  PROVE  Kept'
<1> DEFINE f == [eng[c] EXCEPT !.link = "on"]
<1>1. PICK name \in Names : Register(c, name)
  BY DEF SendRegister
<1>2. /\ eng[c].link = "connecting" /\ eng' = [eng EXCEPT ![c] = f]
      /\ down' = [h \in Handles |-> Fed(h)] /\ UNCHANGED calls
  BY DEF SendRegister, Deliver, Fed
<1>3. f \in Engines
  BY Found DEF Engines
<1>4. /\ IdOf(c) = NoPeer /\ PartnerOf(c) = NoPeer /\ conn[c] = "open"
  BY <1>2, Found DEF ClientOK, LinkOK
<1>5. /\ down[c] = <<>>
      /\ ClientOK(c, f, <<>>, "open", NoPeer, NoPeer)
      /\ \A id \in Ids : ClientOK(c, f, <<Welcome(id)>>, "open", id, NoPeer)
  BY <1>2, <1>3, <1>4, Found, RegisterClient
<1>6. /\ RegistryInv' /\ conn' = conn
      /\ \/ /\ IdOf(c)' = NoPeer /\ PartnerOf(c)' = NoPeer
            /\ CallRelated(sent'[c]) = <<ErrorMsg("name_taken")>>
         \/ \E id \in Ids :
              /\ IdOf(c)' = id /\ PartnerOf(c)' = NoPeer
              /\ CallRelated(sent'[c]) = <<Welcome(id)>>
  BY <1>1, <1>4, Found, RegisterServed
<1>7. ASSUME NEW d \in Handles \ {c} PROVE Served(d) /\ down'[d] = Fed(d)
  BY <1>1, <1>2, <1>4, Found, RegisterServed
<1> HIDE DEF f
<1>8. /\ ClientOK(c, f, Fed(c), conn'[c], IdOf(c)', PartnerOf(c)')
      /\ Fed(c) \in Streams
  <2>1. /\ <<>> \in Streams /\ \A m \in DownMsg : <<m>> \in Streams
        /\ \A m \in DownMsg : Append(<<>>, m) = <<m>>
        /\ \A m \in DownMsg : CallRelated(sent'[c]) = <<m>> => Fed(c) = <<m>>
    <3>1. <<>> \in Streams /\ \A m \in DownMsg : <<m>> \in Streams
      BY DEF Streams
    <3>2. \A m \in DownMsg : Append(<<>>, m) = <<m>>
      OBVIOUS
    <3> QED
      BY <1>5, <3>1, <3>2, FedFacts
  <2>2. ErrorMsg("name_taken") \in DownMsg /\ \A id \in Ids : Welcome(id) \in DownMsg
    BY DEF ErrorMsg, Welcome, DownMsg
  <2>3. CASE /\ IdOf(c)' = NoPeer /\ PartnerOf(c)' = NoPeer
             /\ CallRelated(sent'[c]) = <<ErrorMsg("name_taken")>>
    <3> DEFINE m == ErrorMsg("name_taken")
    <3>1. m \in DownMsg /\ m.type = "error" /\ f.link = "on"
      BY <2>2, Found DEF ErrorMsg, f, Engines
    <3>2. CallRelated(sent'[c]) = <<m>>
      BY <2>3
    <3> HIDE DEF m
    <3>3. Fed(c) = Append(<<>>, m) /\ Fed(c) = <<m>>
      BY <2>1, <3>1, <3>2
    <3>4. Hears(c, <<>>, NoPeer, Fed(c), NoPeer)
      BY <3>1, <3>3 DEF Hears
    <3>5. ClientOK(c, f, Fed(c), "open", NoPeer, NoPeer)
      BY <1>3, <1>5, <2>1, <3>1, <3>4, HearsClient
    <3> QED
      BY <1>4, <1>6, <2>1, <2>3, <3>1, <3>3, <3>5
  <2>4. ASSUME NEW id \in Ids, IdOf(c)' = id, PartnerOf(c)' = NoPeer,
               CallRelated(sent'[c]) = <<Welcome(id)>>
        PROVE  /\ ClientOK(c, f, Fed(c), conn'[c], IdOf(c)', PartnerOf(c)')
               /\ Fed(c) \in Streams
    <3>1. Fed(c) = <<Welcome(id)>> /\ Fed(c) \in Streams
      BY <2>1, <2>2, <2>4
    <3> QED
      BY <1>4, <1>5, <1>6, <2>4, <3>1
  <2> QED
    BY <1>6, <2>3, <2>4
<1>9. /\ down' = [h \in Handles |-> down'[h]] /\ down'[c] = Fed(c)
      /\ conn' \in [Handles -> {"none", "open"}] /\ calls' \in Nat
  BY <1>2, <1>6, Found
<1> QED
  BY <1>2, <1>3, <1>6, <1>7, <1>8, <1>9, OneMoves

\* So does Disconnect: the partner is told of it in the call that it ends.
LEMMA DisconnectKept ==
  ASSUME SessionInv, NEW c \in Handles, Disconnect(c)
  PROVE  Kept'
<1> DEFINE f == [eng[c] EXCEPT !.link = "off"]
<1>1. /\ eng[c].link # "off" /\ OnClose(c) /\ eng' = [eng EXCEPT ![c] = f]
      /\ UNCHANGED calls
  BY DEF Disconnect
<1>2. PICK k \in 0 .. Len(down[c]) :
        Deliver([down EXCEPT ![c] = Append(SubSeq(@, 1, k), [type |-> "disconnected"])])
  BY DEF Disconnect
<1> DEFINE t == Append(SubSeq(down[c], 1, k), Disconnected)
<1>3. f \in Engines
  BY Found DEF Engines
<1>4. ClientOK(c, f, t, "none", NoPeer, NoPeer) /\ t \in Streams
  BY <1>1, <1>3, Found, LostClient
<1>5. /\ RegistryInv' /\ conn' = [conn EXCEPT ![c] = "none"]
      /\ IdOf(c)' = NoPeer /\ PartnerOf(c)' = NoPeer
      /\ CallRelated(sent'[c]) = <<>>
  BY <1>1, Found, CloseServed
<1>6. down' = [h \in Handles |->
                 [down EXCEPT ![c] = t][h] \o CallRelated(sent'[h])]
  BY <1>2 DEF Deliver, Disconnected
<1> HIDE DEF t, f
<1>7. ASSUME NEW d \in Handles \ {c} PROVE Served(d) /\ down'[d] = Fed(d)
  <2>1. down'[d] = down[d] \o CallRelated(sent'[d])
    BY <1>6, Found
  <2> QED
    BY <1>1, <2>1, Found, CloseServed DEF Fed
<1>8. down'[c] = t
  <2>1. down'[c] = t \o <<>>
    BY <1>5, <1>6, Found
  <2> QED
    BY <1>4, <2>1, ConcatEmptySeq DEF Streams
<1>9. /\ down' = [h \in Handles |-> down'[h]] /\ conn'[c] = "none"
      /\ conn' \in [Handles -> {"none", "open"}] /\ calls' \in Nat
  BY <1>1, <1>5, <1>6, Found
<1> QED
  BY <1>1, <1>3, <1>4, <1>5, <1>7, <1>8, <1>9, OneMoves

\* No message changes a connection.
LEMMA ConnKept ==
  ASSUME NEW c
  PROVE  /\ ServerIdle => conn' = conn
         /\ Leave(c) => conn' = conn
         /\ \A to, sdp : Call(c, to, sdp) => conn' = conn
         /\ \A type, to, sdp : Relay(c, type, to, sdp) => conn' = conn
  BY DEF ServerIdle, Leave, CallLeft, Ignored, FromClient, Call, CallAccepted,
         CallRefused, CallIgnored, Relay, Relayed

\* So does a call command: the caller is in no call, and has its offer to make.
LEMMA CmdCallKept ==
  ASSUME SessionInv, NEW c \in Handles, NEW to \in Ids, CmdCall(c, to)
  PROVE  Kept'
<1> DEFINE e == [eng[c] EXCEPT !.peer_id = to, !.is_offerer = TRUE, !.asked = TRUE]
           f == [e EXCEPT !.pc = IF @ = NoPc THEN FreshPc ELSE @]
           sdp == Sdp("offer", calls + 1)
<1>1. /\ c \in Callers /\ ~eng[c].crashed /\ calls' = calls + 1
      /\ ServerIdle /\ down' = down /\ MayCall(eng[c])
  BY DEF CmdCall, Alive
<1>2. eng[c] \in Engines /\ calls \in Nat
  BY Found
<1>3. eng[c].peer_id = NoId
  BY <1>1, <1>2 DEF MayCall, Engines, PeerIds, NoId, Ids
<1>4. sdp \in Sdps /\ "create_offer" \in Operations /\ to \in PeerIds
  BY <1>2 DEF Sdp, Sdps, Operations, PeerIds
<1>5. e \in Engines /\ f \in Engines
  BY <1>2, <1>4, FreshTypes DEF Engines
<1>6. \E g \in Engines :
        /\ eng' = [eng EXCEPT ![c] = g]
        /\ g.link = eng[c].link /\ g.signed_in = eng[c].signed_in
        /\ g.my_id = eng[c].my_id /\ g.crashed = eng[c].crashed
        /\ g.peer_id = to /\ g.is_offerer
        /\ \/ g.jobs = eng[c].jobs
           \/ \E d : g.jobs = Append(eng[c].jobs, [op |-> "create_offer", sdp |-> d])
  <2>1. CASE eng' = [eng EXCEPT ![c] = Queue(f, "create_offer", sdp)]
    <3> DEFINE g == Queue(f, "create_offer", sdp)
    <3>1. /\ f.link = eng[c].link /\ f.signed_in = eng[c].signed_in
          /\ f.my_id = eng[c].my_id /\ f.crashed = eng[c].crashed
          /\ f.peer_id = to /\ f.is_offerer /\ f.jobs = eng[c].jobs
      BY <1>2 DEF Engines
    <3>2. g.jobs = Append(f.jobs, [op |-> "create_offer", sdp |-> sdp])
      BY <1>5 DEF Queue, Engines
    <3> HIDE DEF f, sdp
    <3>3. g \in Engines /\ SameCall(f, g)
      BY <1>4, <1>5, QueueFacts
    <3> QED
      BY <2>1, <3>1, <3>2, <3>3 DEF SameCall
  <2>2. ASSUME NEW h \in {e, f}, eng' = [eng EXCEPT ![c] = Told(h)]
        PROVE  /\ Told(h) \in Engines
               /\ Told(h).link = eng[c].link /\ Told(h).signed_in = eng[c].signed_in
               /\ Told(h).my_id = eng[c].my_id /\ Told(h).crashed = eng[c].crashed
               /\ Told(h).peer_id = to /\ Told(h).is_offerer
               /\ Told(h).jobs = eng[c].jobs
    <3>1. /\ h \in Engines /\ h.link = eng[c].link
          /\ h.signed_in = eng[c].signed_in
          /\ h.my_id = eng[c].my_id /\ h.crashed = eng[c].crashed
          /\ h.peer_id = to /\ h.is_offerer /\ h.jobs = eng[c].jobs
      <4>1. CASE h = e
        BY <1>2, <1>5, <4>1 DEF Engines
      <4>2. CASE h = f
        <5>1. /\ e.link = eng[c].link /\ e.signed_in = eng[c].signed_in
              /\ e.my_id = eng[c].my_id /\ e.crashed = eng[c].crashed
              /\ e.peer_id = to /\ e.is_offerer /\ e.jobs = eng[c].jobs
          BY <1>2 DEF Engines
        <5> HIDE DEF e
        <5> QED
          BY <1>5, <4>2, <5>1 DEF Engines
      <4> QED
        BY <4>1, <4>2
    <3> HIDE DEF e, f
    <3> QED
      BY <3>1 DEF Told, Engines
  <2>3. \/ eng' = [eng EXCEPT ![c] = Queue(f, "create_offer", sdp)]
        \/ \E h \in {e, f} : eng' = [eng EXCEPT ![c] = Told(h)]
    BY DEF CmdCall
  <2> QED
    BY <2>1, <2>2, <2>3
<1>7. PICK g \in Engines :
        /\ eng' = [eng EXCEPT ![c] = g]
        /\ g.link = eng[c].link /\ g.signed_in = eng[c].signed_in
        /\ g.my_id = eng[c].my_id /\ g.crashed = eng[c].crashed
        /\ g.peer_id = to /\ g.is_offerer
        /\ \/ g.jobs = eng[c].jobs
           \/ \E d : g.jobs = Append(eng[c].jobs, [op |-> "create_offer", sdp |-> d])
  BY <1>6
<1>8. ClientOK(c, g, down[c], conn[c], IdOf(c), PartnerOf(c))
  BY <1>1, <1>2, <1>3, <1>7, Found, StartClient
<1>9. calls' \in Nat
  BY <1>1, <1>2
<1> HIDE DEF e, f, sdp
<1> QED
  BY <1>1, <1>7, <1>8, <1>9, AloneMove

\* So does a leave: both ends are told of it in the call that it ends.
LEMMA CmdLeaveKept ==
  ASSUME SessionInv, NEW c \in Handles, CmdLeave(c)
  PROVE  Kept'
<1>1. /\ eng' = [eng EXCEPT ![c] = eng[c]] /\ Deliver(down) /\ calls' = calls
      /\ Leave(c) \/ ServerIdle
  BY DEF CmdLeave, EngineStep, ViaLink
<1>2. CASE Leave(c)
  <2>1. RegistryInv' /\ \A d \in Handles : Served(d)
    BY <1>2, Found, LeaveServed
  <2> QED
    BY <1>1, <1>2, <2>1, ConnKept, Found, OwnMove
<1>3. CASE ServerIdle
  BY <1>1, <1>3, Found, AloneMove
<1> QED
  BY <1>1, <1>2, <1>3

\* So does a message handled.
LEMMA ReceiveKept ==
  ASSUME SessionInv, NEW c \in Handles, Receive(c)
  PROVE  Kept'
<1>1. PICK f \in Handled(eng[c], Head(down[c])) : eng' = [eng EXCEPT ![c] = f]
  BY DEF Receive
<1>2. /\ ~eng[c].crashed /\ down[c] # <<>> /\ ServerIdle /\ calls' = calls
      /\ down' = [down EXCEPT ![c] = Tail(down[c])]
  BY DEF Receive, Alive
<1>3. Head(down[c]) \in DownMsg /\ Tail(down[c]) \in Streams
  BY <1>2, Found, TailFacts
<1>4. f \in Engines
  BY <1>2, <1>3, Found, HandledFacts
<1>5. ClientOK(c, f, Tail(down[c]), conn[c], IdOf(c), PartnerOf(c))
  BY <1>2, Found, ReceiveClient
<1>6. /\ \A d \in Handles : Served(d) /\ Fed(d) = down[d]
      /\ RegistryInv'
  BY <1>2, Found, IdleServed
<1>7. /\ \A d \in Handles \ {c} : down'[d] = down[d]
      /\ down'[c] = Tail(down[c]) /\ down' = [h \in Handles |-> down'[h]]
  BY <1>2, Found
<1>8. /\ conn' = conn /\ IdOf(c)' = IdOf(c) /\ PartnerOf(c)' = PartnerOf(c)
  BY <1>2 DEF ServerIdle, registry, maps, IdOf, PartnerOf
<1>9. conn' \in [Handles -> {"none", "open"}] /\ calls' \in Nat
  BY <1>2, <1>8, Found
<1> QED
  BY <1>1, <1>3, <1>4, <1>5, <1>6, <1>7, <1>8, <1>9, OneMoves

\* What applying a description makes of a PeerConnection.
LEMMA SetToFacts ==
  ASSUME NEW pc \in PeerConnections, NEW op, NEW sdp \in Sdps
  PROVE  /\ SetTo(pc, op, sdp) \in PeerConnections
         /\ SetTo(pc, op, sdp) # NoPc => SetTo(pc, op, sdp).sig # "none"
  BY FreshTypes DEF SetTo, PeerConnections, Signals

\* An engine whose next operation is being run.
LEMMA JobTaken ==
  ASSUME SessionInv, NEW c \in Handles, ~eng[c].crashed, eng[c].jobs # <<>>,
         NEW e \in Engines, e = [eng[c] EXCEPT !.jobs = Tail(@)]
  PROVE  /\ ClientOK(c, e, down[c], conn[c], IdOf(c), PartnerOf(c))
         /\ ~e.crashed /\ e.link = eng[c].link /\ e.peer_id = eng[c].peer_id
         /\ NoOffer(e)
         /\ c \in Callers => e.peer_id # NoId /\ e.is_offerer
         /\ c \notin Callers => ~e.is_offerer
<1>1. NextTaken(eng[c], e)
  BY Found DEF NextTaken, SameCall, Engines
<1>2. /\ eng[c] \in Engines
      /\ ClientOK(c, eng[c], down[c], conn[c], IdOf(c), PartnerOf(c))
  BY Found
<1>3. /\ ClientOK(c, e, down[c], conn[c], IdOf(c), PartnerOf(c))
      /\ NoOffer(e)
      /\ c \in Callers => e.peer_id # NoId /\ e.is_offerer
  <2>1. ClientOK(c, e, down[c], conn[c], IdOf(c), PartnerOf(c))
    BY <1>1, <1>2, JobDone
  <2>2. ASSUME NEW g \in Engines, ~g.crashed, NEW f \in Engines, NextTaken(g, f),
               NEW s, NEW cn, NEW id, NEW p, ClientOK(c, g, s, cn, id, p)
        PROVE  NoOffer(f)
    BY <2>2, JobDone
  <2>3. NoOffer(e)
    BY <1>1, <1>2, <2>2
  <2>4. c \in Callers => e.peer_id # NoId /\ e.is_offerer
    BY <1>1, <1>2, JobDone
  <2> QED
    BY <2>1, <2>3, <2>4
<1>4. ~e.crashed /\ e.link = eng[c].link /\ e.peer_id = eng[c].peer_id
  BY <1>1 DEF NextTaken, SameCall
<1> QED
  BY <1>3, <1>4 DEF ClientOK, CalleeOK

\* A failed operation, or one that sets a description.
LEMMA JobAlone ==
  ASSUME SessionInv, NEW c \in Handles, ~eng[c].crashed, eng[c].jobs # <<>>,
         NEW e \in Engines, e = [eng[c] EXCEPT !.jobs = Tail(@)],
         NEW job \in Jobs, Deliver(down), calls' = calls,
         \/ CreateFails(c, e, job)
         \/ SetDescription(c, e, job)
  PROVE  Kept'
<1>1. /\ ClientOK(c, e, down[c], conn[c], IdOf(c), PartnerOf(c))
      /\ ~e.crashed
      /\ c \in Callers => e.peer_id # NoId /\ e.is_offerer
  BY JobTaken
<1>2. /\ Told(e) \in Engines
      /\ ClientOK(c, Told(e), down[c], conn[c], IdOf(c), PartnerOf(c))
  <2>1. /\ Told(e) \in Engines /\ SameCall(e, Told(e)) /\ Told(e).jobs = e.jobs
    BY DEF Told, Engines, SameCall
  <2> QED
    BY <1>1, <2>1, SameClient
<1>3. CASE CreateFails(c, e, job)
  BY <1>2, <1>3, Found, AloneMove DEF CreateFails
<1>4. CASE SetDescription(c, e, job)
  <2> DEFINE pc == SetTo(e.pc, job.op, job.sdp)
             g == [e EXCEPT !.pc = pc]
             f == IF pc = NoPc THEN Told(e) ELSE AfterSet(g, job)
  <2>1. eng' = [eng EXCEPT ![c] = f] /\ ServerIdle
    BY <1>4 DEF SetDescription
  <2>2. pc \in PeerConnections
    BY SetToFacts DEF Engines, Jobs
  <2> HIDE DEF pc
  <2>3. /\ g \in Engines /\ SameCall(e, g) /\ g.jobs = e.jobs
        /\ ~g.crashed /\ g.peer_id = e.peer_id /\ g.is_offerer = e.is_offerer
    BY <1>1, <2>2 DEF Engines, SameCall
  <2>4. ClientOK(c, g, down[c], conn[c], IdOf(c), PartnerOf(c))
    BY <1>1, <2>3, SameClient
  <2> HIDE DEF g
  <2>5. /\ AfterSet(g, job) \in Engines
        /\ ClientOK(c, AfterSet(g, job), down[c], conn[c], IdOf(c), PartnerOf(c))
    <3>1. CASE job.op # "set_local" /\ ~g.is_offerer
      <4>1. /\ AfterSet(g, job) = Queue(g, "create_answer", NoSdp)
            /\ "create_answer" \in Operations \ {"create_offer"} /\ c \notin Callers
        BY <1>1, <2>3, <3>1 DEF AfterSet, Operations
      <4> QED
        <5>1. "create_answer" \in Operations /\ NoSdp \in Sdps
          BY <4>1, FreshTypes
        <5>2. Queue(g, "create_answer", NoSdp) \in Engines
          BY <2>3, <5>1, QueueFacts
        <5>3. ClientOK(c, Queue(g, "create_answer", NoSdp), down[c], conn[c],
                       IdOf(c), PartnerOf(c))
          BY <2>3, <2>4, <4>1, <5>1, QueueClient
        <5> QED
          BY <4>1, <5>2, <5>3
    <3>2. CASE ~(job.op # "set_local" /\ ~g.is_offerer)
      BY <2>3, <2>4, <3>2 DEF AfterSet
    <3> QED
      BY <3>1, <3>2
  <2>6. /\ f \in Engines
        /\ ClientOK(c, f, down[c], conn[c], IdOf(c), PartnerOf(c))
    BY <1>2, <2>5
  <2> HIDE DEF f
  <2> QED
    BY <2>1, <2>6, Found, AloneMove
<1> QED
  BY <1>3, <1>4

\* Only StartCallImpl asks for an offer.
LEMMA QueueOffers ==
  ASSUME NEW e \in Engines, NEW op \in Operations \ {"create_offer"},
         NEW sdp \in Sdps, NoOffer(e)
  PROVE  NoOffer(Queue(e, op, sdp))
<1> DEFINE f == Queue(e, op, sdp)
<1>1. /\ Len(e.jobs) \in Nat /\ Len(f.jobs) = Len(e.jobs) + 1
      /\ f.jobs[Len(e.jobs) + 1].op = op
      /\ \A k \in 1 .. Len(e.jobs) : f.jobs[k] = e.jobs[k]
  BY QueueFacts
<1> HIDE DEF f
<1>2. ASSUME NEW k \in 1 .. Len(f.jobs) PROVE f.jobs[k].op # "create_offer"
  <2>1. k \in 1 .. Len(e.jobs) \/ k = Len(e.jobs) + 1
    BY <1>1
  <2> QED
    BY <1>1, <2>1 DEF NoOffer
<1>3. NoOffer(f)
  BY <1>2 DEF NoOffer
<1> QED
  BY <1>3 DEF f

\* A description is created and goes to the server.
LEMMA JobSends ==
  ASSUME SessionInv, NEW c \in Handles, ~eng[c].crashed, eng[c].jobs # <<>>,
         NEW e \in Engines, e = [eng[c] EXCEPT !.jobs = Tail(@)],
         NEW job \in Jobs, job = Head(eng[c].jobs),
         job.op \in {"create_offer", "create_answer"},
         Deliver(down), calls' = calls, CreateSucceeds(c, e, job)
  PROVE  Kept'
<1> DEFINE sdp == Created(e.pc, job)
           f == Queue(e, "set_local", sdp)
<1>1. /\ ClientOK(c, e, down[c], conn[c], IdOf(c), PartnerOf(c))
      /\ ~e.crashed /\ e.link = eng[c].link /\ e.peer_id = eng[c].peer_id
      /\ NoOffer(e)
      /\ c \in Callers => e.peer_id # NoId /\ e.is_offerer
      /\ c \notin Callers => ~e.is_offerer
  BY JobTaken
<1>2. sdp \in Sdps
  BY DEF Created, Sdp, Sdps, Jobs, Engines, PeerConnections
<1>3. /\ eng' = [eng EXCEPT ![c] = f]
      /\ \/ eng[c].link = "on" /\ SendLocal(c, e, sdp)
         \/ ServerIdle
  BY DEF CreateSucceeds, EngineStep, ViaLink
<1> HIDE DEF sdp
<1>4. /\ "set_local" \in Operations \ {"create_offer"}
      /\ "set_local" \in Operations
  BY DEF Operations
<1>5. f \in Engines /\ SameCall(e, f)
  BY <1>2, <1>4, QueueFacts
<1>6. ClientOK(c, f, down[c], conn[c], IdOf(c), PartnerOf(c))
  BY <1>1, <1>2, <1>4, QueueClient
<1>7. NoOffer(f)
  BY <1>1, <1>2, <1>4, QueueOffers
<1> HIDE DEF f
<1>8. CASE ServerIdle
  BY <1>3, <1>5, <1>6, <1>8, Found, AloneMove
<1>9. CASE ~e.is_offerer /\ Relay(c, "answer", e.peer_id, sdp)
  <2>1. RegistryInv' /\ \A d \in Handles : Served(d)
    BY <1>2, <1>9, Found, RelayServed DEF Partner
  <2> QED
    BY <1>3, <1>5, <1>6, <1>9, <2>1, ConnKept, Found, OwnMove
<1>10. CASE e.is_offerer /\ eng[c].link = "on" /\ Call(c, e.peer_id, sdp)
  <2>1. /\ c \in Callers /\ e.peer_id = eng[c].peer_id /\ RolesKept
        /\ f.peer_id \in Ids /\ ~f.crashed /\ f.link = "on"
    <3>1. /\ c \in Callers /\ f.peer_id = eng[c].peer_id /\ f.peer_id # NoId
          /\ ~f.crashed /\ f.link = "on"
      BY <1>1, <1>5, <1>10 DEF SameCall
    <3>2. f.peer_id \in PeerIds
      BY <1>5 DEF Engines
    <3> QED
      BY <1>1, <3>1, <3>2 DEF SessionInv, PeerIds
  <2>2. /\ RegistryInv' /\ conn' = conn
        /\ \A d \in Handles : \/ Served(d)
                              \/ d = c /\ Calling(c, e.peer_id)
    <3>1. conn' = conn
      BY <1>10, ConnKept
    <3> QED
      BY <1>2, <1>10, <2>1, <3>1, Found, CallServed
  <2>3. CASE \A d \in Handles : Served(d)
    BY <1>3, <1>5, <1>6, <2>2, <2>3, Found, OwnMove
  <2>4. CASE Calling(c, e.peer_id) /\ \A d \in Handles \ {c} : Served(d)
    <3>1. PartnerOf(c) = NoPeer /\ Unstarted(down[c], NoPeer)
      <4>1. CallerOK(eng[c], down[c], PartnerOf(c))
        BY <2>1, Found DEF ClientOK
      <4>2. /\ 1 \in 1 .. Len(eng[c].jobs) /\ job = eng[c].jobs[1]
        <5>1. eng[c].jobs \in Seq(Jobs)
          BY Found DEF Engines
        <5> QED
          BY <5>1
      <4>3. job.op = "create_offer"
        BY <4>1, <4>2 DEF CallerOK
      <4> QED
        BY <4>1, <4>2, <4>3 DEF CallerOK, Unstarted
    <3>2. ClientOK(c, f, down[c], conn[c], IdOf(c), f.peer_id)
      BY <1>5, <1>6, <1>7, <2>1, <3>1, Found, CalledClient
    <3>3. /\ conn'[c] = conn[c] /\ IdOf(c)' = IdOf(c) /\ Fed(c) = down[c]
          /\ PartnerOf(c)' = f.peer_id
      BY <1>5, <2>4 DEF Calling, SameCall
    <3>4. down' = [h \in Handles |-> Fed(h)]
      BY DEF Deliver, Fed
    <3>5. /\ down' = [h \in Handles |-> down'[h]] /\ down'[c] = Fed(c)
          /\ \A d \in Handles \ {c} : down'[d] = Fed(d)
          /\ conn' \in [Handles -> {"none", "open"}] /\ calls' \in Nat
          /\ down[c] \in Streams
      BY <2>2, <3>4, Found
    <3> QED
      BY <1>3, <1>5, <2>2, <2>4, <3>2, <3>3, <3>5, OneMoves
  <2> QED
    BY <2>2, <2>3, <2>4
<1> QED
  BY <1>3, <1>8, <1>9, <1>10 DEF SendLocal

\* So does an operation, and the description it sends to the other end.
LEMMA RunJobKept ==
  ASSUME SessionInv, NEW c \in Handles, RunJob(c)
  PROVE  Kept'
<1> DEFINE job == Head(eng[c].jobs)
           e == [eng[c] EXCEPT !.jobs = Tail(@)]
<1>1. /\ ~eng[c].crashed /\ eng[c].jobs # <<>> /\ Deliver(down) /\ calls' = calls
      /\ \/ /\ job.op \in {"create_offer", "create_answer"}
            /\ CreateSucceeds(c, e, job)
         \/ CreateFails(c, e, job)
         \/ SetDescription(c, e, job)
  BY DEF RunJob, Alive
<1>2. job \in Jobs /\ e \in Engines
  <2>1. /\ eng[c] \in Engines /\ eng[c].jobs \in Seq(Jobs)
    BY Found DEF Engines
  <2>2. job \in Jobs /\ Tail(eng[c].jobs) \in Seq(Jobs)
    BY <1>1, <2>1
  <2> QED
    BY <2>1, <2>2 DEF Engines
<1>3. job = Head(eng[c].jobs) /\ e = [eng[c] EXCEPT !.jobs = Tail(@)]
  OBVIOUS
<1> HIDE DEF job, e
<1> QED
  BY <1>1, <1>2, <1>3, JobSends, JobAlone

\* So does a candidate gathered, sent to the other end.
LEMMA CandidateKept ==
  ASSUME SessionInv, NEW c \in Handles, OnIceCandidate(c)
  PROVE  Kept'
<1> DEFINE f == [eng[c] EXCEPT !.pc.gather = FALSE]
<1>1. /\ eng' = [eng EXCEPT ![c] = f] /\ Deliver(down) /\ calls' = calls
      /\ \/ Relay(c, "candidate", eng[c].peer_id, Candidate)
         \/ ServerIdle
  BY DEF OnIceCandidate, EngineStep, ViaLink
<1>2. f \in Engines /\ SameCall(eng[c], f) /\ f.jobs = eng[c].jobs
  <2> DEFINE pc == [eng[c].pc EXCEPT !.gather = FALSE]
  <2>1. pc \in PeerConnections /\ f = [eng[c] EXCEPT !.pc = pc]
    BY Found DEF Engines, PeerConnections
  <2> HIDE DEF pc, f
  <2> QED
    BY <2>1, Found DEF Engines, SameCall
<1> HIDE DEF f
<1>3. ClientOK(c, f, down[c], conn[c], IdOf(c), PartnerOf(c))
  BY <1>2, Found, SameClient
<1>4. CASE Relay(c, "candidate", eng[c].peer_id, Candidate)
  <2>1. RegistryInv' /\ \A d \in Handles : Served(d)
    BY <1>4, Found, FreshTypes, RelayServed DEF Partner
  <2> QED
    BY <1>1, <1>2, <1>3, <1>4, <2>1, ConnKept, Found, OwnMove
<1>5. CASE ServerIdle
  BY <1>1, <1>2, <1>3, <1>5, Found, AloneMove
<1> QED
  BY <1>1, <1>4, <1>5

\* So does OnConnectionChange, which leaves all that it speaks of alone.
LEMMA ConnectionKept ==
  ASSUME SessionInv, NEW c \in Handles, OnConnectionChange(c)
  PROVE  Kept'
<1> DEFINE f == Told([eng[c] EXCEPT !.is_connected = Joined(c)])
<1>1. /\ eng' = [eng EXCEPT ![c] = f] /\ ServerIdle /\ down' = down
      /\ calls' = calls
  BY DEF OnConnectionChange
<1>2. Joined(c) \in BOOLEAN
  BY DEF Joined, Matched
<1>3. f \in Engines /\ SameCall(eng[c], f) /\ f.jobs = eng[c].jobs
  BY <1>2, Found DEF Engines, Told, SameCall
<1> HIDE DEF f
<1>4. ClientOK(c, f, down[c], conn[c], IdOf(c), PartnerOf(c))
  BY <1>3, Found, SameClient
<1> QED
  BY <1>1, <1>3, <1>4, Found, AloneMove

-----------------------------------------------------------------------------
(* The session's inductive invariant.                                      *)

\* At first nothing is connected, and nobody has anything to read.
LEMMA SessionInitInv == SessionInit => SessionInv
<1> SUFFICES ASSUME SessionInit PROVE SessionInv
  OBVIOUS
<1>1. /\ RegistryInv /\ hdl_to_id = <<>> /\ members = <<>>
      /\ conn = [h \in Handles |-> "none"]
      /\ eng = [c \in Handles |-> IdleEngine]
      /\ down = [c \in Handles |-> <<>>] /\ calls = 0
  BY InitInv DEF SessionInit, Init, IInv
<1>2. DOMAIN <<>> = {} /\ <<>> \in Streams /\ Len(<<>>) = 0 /\ <<>> \in Seq(Jobs)
  BY DEF Streams
<1>3. IdleEngine \in Engines
  BY <1>2, FreshTypes DEF IdleEngine, Engines, PeerIds
<1>4. SessionTypes
  BY <1>1, <1>2, <1>3 DEF SessionTypes
<1>5. RolesKept
  BY <1>1, <1>2 DEF RolesKept
<1>6. ASSUME NEW c \in Handles
      PROVE  ClientOK(c, eng[c], down[c], conn[c], IdOf(c), PartnerOf(c))
  <2>1. /\ eng[c] = IdleEngine /\ down[c] = <<>> /\ conn[c] = "none"
        /\ IdOf(c) = NoPeer /\ PartnerOf(c) = NoPeer
    BY <1>1, <1>2 DEF IdOf, PartnerOf, GetPeer, Has
  <2>2. /\ IdleEngine.link = "off" /\ ~IdleEngine.signed_in
        /\ IdleEngine.peer_id = NoId /\ ~IdleEngine.is_offerer
        /\ IdleEngine.jobs = <<>>
    BY DEF IdleEngine
  <2>3. ClientOK(c, IdleEngine, <<>>, "none", NoPeer, NoPeer)
    BY <1>2, <2>2 DEF ClientOK, LinkOK, SignOK, PartnerOK, StreamOK, None,
                      CallerOK, CalleeOK
  <2> QED
    BY <2>1, <2>3
<1> QED
  BY <1>1, <1>4, <1>5, <1>6 DEF SessionInv, Kept, ClientsOK

\* A step that changes nothing keeps the invariant.
LEMMA SessionStutters == SessionInv /\ UNCHANGED sessionVars => SessionInv'
<1> SUFFICES ASSUME SessionInv, UNCHANGED sessionVars PROVE SessionInv'
  OBVIOUS
<1>1. UNCHANGED <<registry, maps, conn, eng, down, calls>>
  BY DEF sessionVars, vars
<1>2. RegistryInv'
  BY <1>1, RegistryUnchanged DEF SessionInv, Kept, RegistryInv, MapsConsistent
<1>3. RolesKept' /\ SessionTypes'
  BY <1>1 DEF SessionInv, Kept, RolesKept, SessionTypes, maps
<1>4. \A c \in Handles : IdOf(c)' = IdOf(c) /\ PartnerOf(c)' = PartnerOf(c)
  BY <1>1 DEF registry, maps, IdOf, PartnerOf
<1>5. ClientsOK'
  BY <1>1, <1>4 DEF SessionInv, Kept, ClientsOK
<1> QED
  BY <1>2, <1>3, <1>5 DEF SessionInv, Kept

\* Every step keeps the invariant.
LEMMA SessionNextInv == SessionInv /\ [SessionNext]_sessionVars => SessionInv'
<1> SUFFICES ASSUME SessionInv, [SessionNext]_sessionVars PROVE SessionInv'
  OBVIOUS
<1>1. CASE SessionNext
  <2>1. PICK c \in Handles : EngineNext(c) \/ LinkNext(c)
    BY <1>1 DEF SessionNext
  <2>2. Kept'
    BY <2>1, ConnectKept, RegisterKept, DisconnectKept, CmdCallKept, CmdLeaveKept,
       ReceiveKept, RunJobKept, CandidateKept, ConnectionKept
       DEF EngineNext, LinkNext
  <2> QED
    BY <1>1, <2>2 DEF SessionNext, SessionInv
<1>2. CASE UNCHANGED sessionVars
  BY <1>2, SessionStutters
<1> QED
  BY <1>1, <1>2

\* The composition's inductive invariant.
THEOREM SessionInductive == SessionSpec => []SessionInv
  BY SessionInitInv, SessionNextInv, PTL DEF SessionSpec

\* No answer or candidate is taken for one of another call: the engine is in a
\* call with its sender by the time it handles it.
THEOREM MessagesOfTheCall == SessionSpec => []FromPeer
<1>1. SessionInv => FromPeer
  <2> SUFFICES ASSUME SessionInv, NEW c \in Handles, Alive(c), down[c] # <<>>,
                      Head(down[c]).type \in {"answer", "candidate"}
               PROVE  Head(down[c]).from = eng[c].peer_id
    BY DEF FromPeer
  <2>1. StreamOK(down[c], eng[c].peer_id) /\ down[c] \in Streams
    BY Found DEF ClientOK, PartnerOK, Alive
  <2> QED
    BY <2>1, StreamHead DEF Partner
<1> QED
  BY <1>1, SessionInductive, PTL

\* When everything has been handled, engines and server agree on who is signed
\* in under which id and on who is in a call with whom.
THEOREM EnginesAgree == SessionSpec => []SidesAgree
<1>1. ASSUME SessionInv, Quiescent, NEW c \in Handles, Alive(c)
      PROVE  /\ eng[c].signed_in <=> c \in DOMAIN hdl_to_id
             /\ eng[c].signed_in => eng[c].my_id = hdl_to_id[c]
  <2>1. SignOK(eng[c], down[c], IdOf(c)) /\ down[c] = <<>>
    BY <1>1, Found DEF ClientOK, Alive, Quiescent
  <2>2. /\ c \in DOMAIN hdl_to_id => IdOf(c) = hdl_to_id[c] /\ IdOf(c) # NoPeer
        /\ c \notin DOMAIN hdl_to_id => IdOf(c) = NoPeer
    BY <1>1, Found, IdFacts
  <2> QED
    BY <2>1, <2>2 DEF SignOK
<1>2. ASSUME SessionInv, Quiescent, NEW c \in DOMAIN hdl_to_id, Alive(c),
             Busy(members, hdl_to_id[c])
      PROVE  eng[c].peer_id = members[hdl_to_id[c]].peer_id
  <2>1. RegistryInv /\ c \in Handles
    BY <1>2 DEF SessionInv, Kept, RegistryInv, MapsConsistent, Range
  <2>2. /\ hdl_to_id[c] \in DOMAIN members
        /\ PartnerOf(c) = members[hdl_to_id[c]].peer_id
    BY <2>1, IdFacts
  <2>3. PartnerOf(c) # NoPeer
    BY <1>2, <2>1, <2>2 DEF RegistryInv, OneToOne
  <2>4. PeerAt(<<>>, eng[c].peer_id, Len(<<>>), PartnerOf(c))
    BY <1>2, <2>1, <2>3, Found DEF ClientOK, PartnerOK, Alive, Quiescent
  <2> QED
    BY <2>2, <2>4, PeerNow
<1>3. SessionInv => SidesAgree
  BY <1>1, <1>2 DEF SidesAgree, IdsAgree, CallsAgree
<1> QED
  BY <1>3, SessionInductive, PTL

-----------------------------------------------------------------------------
(* PeerConnections.                                                        *)

\* The step of one engine decides.
LEMMA PcsMove ==
  ASSUME SessionInv, PcsKept, NEW c \in Handles, NEW f,
         eng' = [eng EXCEPT ![c] = f],
         ~Faults => ~f.crashed /\ PcOK(f)
  PROVE  PcsKept'
  BY Found DEF PcsKept

\* Nothing about the PeerConnection changes.
LEMMA PcsSame ==
  ASSUME SessionInv, PcsKept, NEW c \in Handles, NEW f,
         eng' = [eng EXCEPT ![c] = f],
         f.pc = eng[c].pc, f.peer_id = eng[c].peer_id, f.crashed = eng[c].crashed
  PROVE  PcsKept'
<1>1. ~Faults => ~f.crashed /\ PcOK(f)
  BY DEF PcsKept, PcOK
<1> QED
  BY <1>1, PcsMove

\* A message handled keeps PeerConnections: what needs one comes in a call,
\* and what closes one ends the call.
LEMMA PcsReceive ==
  ASSUME SessionInv, PcsKept, NEW c \in Handles, Receive(c)
  PROVE  PcsKept'
<1>1. PICK f \in Handled(eng[c], Head(down[c])) : eng' = [eng EXCEPT ![c] = f]
  BY DEF Receive
<1> DEFINE e == eng[c]
           m == Head(down[c])
<1>2. /\ ~e.crashed /\ down[c] # <<>> /\ e \in Engines /\ down[c] \in Streams
      /\ f \in Handled(e, m)
  BY Found DEF Receive, Alive
<1>3. m \in DownMsg
  BY <1>2, TailFacts
<1>4. ~Faults /\ m.type \in Partner => e.pc # NoPc
  <2>1. StreamOK(down[c], e.peer_id)
    BY <1>2, Found DEF ClientOK, PartnerOK
  <2>2. m.type \in Partner => e.peer_id # NoId
    BY <1>2, <2>1, StreamHead DEF NoId, Ids
  <2> QED
    BY <2>2, FreshTypes DEF PcsKept, PcOK
<1>5. ~Faults => PcOK(e)
  BY DEF PcsKept
<1> HIDE DEF e, m
<1>6. ASSUME ~Faults PROVE ~f.crashed /\ PcOK(f)
  <2>1. CASE m.type \in Partner
    <3>1. f = e \/ f = Queue(e, "set_remote_answer", m.body)
      BY <1>2, <1>4, <1>6, <2>1 DEF Handled, NeedsPc, Partner
    <3>2. f.pc = e.pc /\ f.peer_id = e.peer_id /\ f.crashed = e.crashed
      BY <1>2, <3>1 DEF Queue, Engines
    <3> QED
      BY <1>2, <1>5, <1>6, <3>2 DEF PcOK
  <2>2. CASE m.type = "call"
    <3> DEFINE pc == IF e.pc = NoPc THEN FreshPc ELSE e.pc
               g == [[e EXCEPT !.peer_id = m.from, !.is_offerer = FALSE]
                        EXCEPT !.pc = pc]
    <3>1. f = Queue(g, "set_remote_offer", m.body)
      BY <1>2, <1>6, <2>2 DEF Handled, Called, Engines
    <3>2. pc.sig # "none"
      BY <1>5, <1>6, FreshTypes DEF PcOK
    <3> HIDE DEF pc
    <3>3. f.pc = pc /\ f.crashed = e.crashed
      BY <1>2, <3>1 DEF Queue, Engines
    <3> QED
      BY <1>2, <3>2, <3>3 DEF PcOK
  <2>3. CASE m.type \in Ends \cup {"disconnected"}
    <3>1. f.pc = NoPc /\ f.peer_id = NoId /\ f.crashed = e.crashed
      BY <1>2, <2>3 DEF Handled, Told, Closed, Engines, Ends
    <3> QED
      BY <1>2, <3>1 DEF PcOK
  <2>4. CASE m.type \in {"welcome", "error"}
    <3>1. f.pc = e.pc /\ f.peer_id = e.peer_id /\ f.crashed = e.crashed
      BY <1>2, <2>4 DEF Handled, Told, Engines
    <3> QED
      BY <1>2, <1>5, <1>6, <3>1 DEF PcOK
  <2> QED
    BY <1>3, <2>1, <2>2, <2>3, <2>4, DownMsgFacts DEF Partner, Ends
<1> QED
  BY <1>1, <1>6, PcsMove

\* So does an operation: none closes one.
LEMMA PcsRunJob ==
  ASSUME SessionInv, PcsKept, NEW c \in Handles, RunJob(c)
  PROVE  PcsKept'
<1> DEFINE job == Head(eng[c].jobs)
           e == [eng[c] EXCEPT !.jobs = Tail(@)]
           sdp == Created(e.pc, job)
           pc == SetTo(e.pc, job.op, job.sdp)
           g == [e EXCEPT !.pc = pc]
<1>1. \/ eng' = [eng EXCEPT ![c] = Queue(e, "set_local", sdp)]
      \/ eng' = [eng EXCEPT ![c] = Told(e)]
      \/ pc # NoPc /\ eng' = [eng EXCEPT ![c] = AfterSet(g, job)]
  BY DEF RunJob, CreateSucceeds, EngineStep, CreateFails, SetDescription
<1>2. /\ eng[c] \in Engines /\ eng[c].jobs # <<>> /\ eng[c].jobs \in Seq(Jobs)
  BY Found DEF Engines, RunJob
<1>3. job \in Jobs /\ Tail(eng[c].jobs) \in Seq(Jobs)
  BY <1>2
<1>4. /\ e \in Engines /\ e.pc = eng[c].pc /\ e.peer_id = eng[c].peer_id
      /\ e.crashed = eng[c].crashed
  BY <1>2, <1>3 DEF Engines
<1>5. pc \in PeerConnections /\ (pc # NoPc => pc.sig # "none")
  BY <1>3, <1>4, SetToFacts DEF Engines, Jobs
<1> HIDE DEF e, job, sdp, pc
<1>6. CASE eng' = [eng EXCEPT ![c] = Queue(e, "set_local", sdp)]
  <2> DEFINE f == Queue(e, "set_local", sdp)
  <2>1. f.pc = e.pc /\ f.peer_id = e.peer_id /\ f.crashed = e.crashed
    BY <1>4 DEF Queue, Engines
  <2> HIDE DEF f
  <2> QED
    BY <1>4, <1>6, <2>1, PcsSame DEF f
<1>7. CASE eng' = [eng EXCEPT ![c] = Told(e)]
  <2>1. /\ Told(e).pc = e.pc /\ Told(e).peer_id = e.peer_id
        /\ Told(e).crashed = e.crashed
    BY <1>4 DEF Told, Engines
  <2> QED
    BY <1>4, <1>7, <2>1, PcsSame
<1>8. CASE pc # NoPc /\ eng' = [eng EXCEPT ![c] = AfterSet(g, job)]
  <2>1. g \in Engines /\ g.pc = pc /\ g.crashed = e.crashed
    BY <1>4, <1>5 DEF Engines
  <2> HIDE DEF g
  <2>2. AfterSet(g, job).pc = g.pc /\ AfterSet(g, job).crashed = g.crashed
    BY <2>1 DEF AfterSet, Queue, Engines
  <2>3. ~Faults => ~AfterSet(g, job).crashed /\ PcOK(AfterSet(g, job))
    BY <1>4, <1>5, <1>8, <2>1, <2>2 DEF PcsKept, PcOK
  <2> QED
    BY <1>8, <2>3, PcsMove
<1> QED
  BY <1>1, <1>6, <1>7, <1>8

\* So does a call, which makes one.
LEMMA PcsCmdCall ==
  ASSUME SessionInv, PcsKept, NEW c \in Handles, NEW to \in Ids, CmdCall(c, to)
  PROVE  PcsKept'
<1> DEFINE pc == IF eng[c].pc = NoPc THEN FreshPc ELSE eng[c].pc
           e == [eng[c] EXCEPT !.peer_id = to, !.is_offerer = TRUE, !.asked = TRUE]
           f == [e EXCEPT !.pc = IF @ = NoPc THEN FreshPc ELSE @]
           g == Queue(f, "create_offer", Sdp("offer", calls + 1))
<1>1. Faults \/ eng' = [eng EXCEPT ![c] = g]
  BY DEF CmdCall
<1>2. eng[c] \in Engines
  BY Found
<1>3. e \in Engines /\ e.pc = eng[c].pc /\ e.crashed = eng[c].crashed
  BY <1>2 DEF Engines, PeerIds
<1>4. f \in Engines /\ f.pc = pc /\ f.crashed = eng[c].crashed
  <2> HIDE DEF e
  <2> QED
    BY <1>3, FreshTypes DEF Engines
<1> HIDE DEF f, pc
<1>5. g.pc = pc /\ g.crashed = eng[c].crashed
  BY <1>4 DEF Queue, Engines
<1>6. CASE ~Faults
  <2>1. ~eng[c].crashed /\ PcOK(eng[c])
    BY <1>6 DEF PcsKept
  <2>2. pc.sig # "none"
    BY <2>1, FreshTypes DEF PcOK, pc
  <2> HIDE DEF g
  <2>3. ~g.crashed /\ PcOK(g)
    BY <1>5, <2>1, <2>2 DEF PcOK
  <2> QED
    BY <1>1, <1>6, <2>3, PcsMove
<1> QED
  BY <1>6 DEF PcsKept

\* Every step keeps the PeerConnections.
LEMMA PcsNext == SessionInv /\ PcsKept /\ [SessionNext]_sessionVars => PcsKept'
<1> SUFFICES ASSUME SessionInv, PcsKept, [SessionNext]_sessionVars PROVE PcsKept'
  OBVIOUS
<1>1. ASSUME NEW c \in Handles, NEW link,
             eng' = [eng EXCEPT ![c] = [eng[c] EXCEPT !.link = link]]
      PROVE  PcsKept'
  <2> DEFINE f == [eng[c] EXCEPT !.link = link]
  <2>1. f.pc = eng[c].pc /\ f.peer_id = eng[c].peer_id /\ f.crashed = eng[c].crashed
    BY Found DEF Engines
  <2> HIDE DEF f
  <2> QED
    BY <1>1, <2>1, PcsSame DEF f
<1>2. ASSUME NEW c \in Handles, LinkNext(c) PROVE PcsKept'
  <2>1. \E link \in {"connecting", "on", "off"} :
          eng' = [eng EXCEPT ![c] = [eng[c] EXCEPT !.link = link]]
    BY <1>2 DEF LinkNext, ConnectToServer, SendRegister, Disconnect
  <2> QED
    BY <1>1, <2>1
<1>3. ASSUME NEW c \in Handles, CmdLeave(c) PROVE PcsKept'
  BY <1>3, PcsSame DEF CmdLeave, EngineStep
<1>4. ASSUME NEW c \in Handles, OnConnectionChange(c) PROVE PcsKept'
  <2> DEFINE f == Told([eng[c] EXCEPT !.is_connected = Joined(c)])
  <2>1. f.pc = eng[c].pc /\ f.peer_id = eng[c].peer_id /\ f.crashed = eng[c].crashed
    BY Found DEF Engines, Told
  <2>2. eng' = [eng EXCEPT ![c] = f]
    BY <1>4 DEF OnConnectionChange
  <2> HIDE DEF f
  <2> QED
    BY <2>1, <2>2, PcsSame
<1>5. ASSUME NEW c \in Handles, OnIceCandidate(c) PROVE PcsKept'
  <2> DEFINE pc == [eng[c].pc EXCEPT !.gather = FALSE]
             f == [eng[c] EXCEPT !.pc = pc]
  <2>1. eng' = [eng EXCEPT ![c] = f] /\ eng[c].pc.gather /\ eng[c] \in Engines
    BY <1>5, Found DEF OnIceCandidate, EngineStep
  <2>2. eng[c].pc # NoPc /\ pc.sig = eng[c].pc.sig
    BY <2>1 DEF NoPc, FreshPc, Engines, PeerConnections
  <2> HIDE DEF pc
  <2>3. f.pc = pc /\ f.peer_id = eng[c].peer_id /\ f.crashed = eng[c].crashed
    BY <2>1 DEF Engines
  <2> HIDE DEF f
  <2>4. ~Faults => ~f.crashed /\ PcOK(f)
    BY <2>2, <2>3 DEF PcsKept, PcOK
  <2> QED
    BY <2>1, <2>4, PcsMove
<1>6. CASE SessionNext
  BY <1>2, <1>3, <1>4, <1>5, <1>6, PcsReceive, PcsRunJob, PcsCmdCall
     DEF SessionNext, EngineNext
<1>7. CASE UNCHANGED sessionVars
  BY <1>7 DEF sessionVars, PcsKept
<1> QED
  BY <1>6, <1>7

\* No engine has crashed and every one has the PeerConnection its state needs.
LEMMA PcsInductive == SessionSpec => []PcsKept
<1>1. SessionInit => PcsKept
  <2> SUFFICES ASSUME SessionInit, NEW c \in Handles
               PROVE  ~eng[c].crashed /\ PcOK(eng[c])
    BY DEF PcsKept
  <2>1. eng[c] = IdleEngine
    BY DEF SessionInit
  <2> QED
    BY <2>1 DEF IdleEngine, PcOK
<1> QED
  BY <1>1, PcsNext, SessionInductive, PTL DEF SessionSpec

\* If creating a PeerConnection never fails, no handler ever calls into one
\* that is not there.
THEOREM PcsThere == ~Faults => (SessionSpec => []NoCrash)
<1>1. CASE Faults
  BY <1>1
<1>2. CASE ~Faults
  <2>1. PcsKept => NoCrash
    BY <1>2 DEF PcsKept, NoCrash
  <2> QED
    BY <2>1, PcsInductive, PTL
<1> QED
  BY <1>1, <1>2

-----------------------------------------------------------------------------
(***************************************************************************)
(* How every call command ends.  OutcomeInv, together with SessionInv and  *)
(* PcsKept, is inductive if creating and describing a PeerConnection never *)
(* fails.  A caller that waits always has something under way that tells   *)
(* it: a message still to be read, an operation of its own still to be     *)
(* run, a session negotiated, or a partner that has its answer to make.    *)
(***************************************************************************)

\* Handling the first k messages of s leaves the engine in no call, given whom
\* it is in a call with now.
Rests(s, peer, k) ==
  \/ peer = NoId /\ \A i \in 1 .. k : s[i].type # "call"
  \/ \E j \in 1 .. k : /\ s[j].type \in Ends \cup {"disconnected"}
                       /\ \A i \in j + 1 .. k : s[i].type # "call"

\* A callee waits for nothing, hears no answers, and is called with an offer
\* when it is in no call. Outside a call it has nothing to do.
CalleeReady(e, s, p) ==
  /\ ~e.asked /\ None(s, "answer")
  /\ e.peer_id = NoId => e.jobs = <<>>
  /\ p = NoPeer => Rests(s, e.peer_id, Len(s))
  /\ \A k \in 1 .. Len(s) : s[k].type = "call" =>
       s[k].body.kind = "offer" /\ Rests(s, e.peer_id, k - 1)

\* A caller makes its offer, applies it and then the answers, in this order.
CallerReady(e, s) ==
  /\ e.peer_id # NoId => e.signed_in
  /\ \A k \in 1 .. Len(e.jobs) :
       /\ e.jobs[k].op \in {"create_offer", "set_local", "set_remote_answer"}
       /\ e.jobs[k].op # "set_remote_answer" => k = 1 /\ ~Negotiated(e.pc)
       /\ e.jobs[k].op = "create_offer" =>
            Len(e.jobs) = 1 /\ e.jobs[k].sdp.kind = "offer" /\ None(s, "answer")

ClientReady(c, e, s, p) ==
  /\ e.peer_id = NoId => e.pc = NoPc
  /\ IF c \in Callers THEN CallerReady(e, s) ELSE CalleeReady(e, s, p)

Ready == \A c \in Handles : ClientReady(c, eng[c], down[c], PartnerOf(c))

\* Every call is between a caller and a callee.
PairRoles ==
  \A c, d \in Handles :
    IdOf(c) # NoPeer /\ PartnerOf(d) = IdOf(c) => (c \in Callers <=> d \notin Callers)

\* An engine that is to make an answer to the client i, or is to read its call.
WillAnswer(e, s, i) ==
  \/ \E k \in 1 .. Len(s) : /\ s[k].type = "call" /\ s[k].from = i
                            /\ \A j \in k + 1 .. Len(s) : s[j].type \notin Turns
  \/ /\ \A j \in 1 .. Len(s) : s[j].type \notin Turns
     /\ e.peer_id = i /\ Len(e.jobs) = 1
     /\ \/ /\ e.pc.sig = "stable" /\ e.jobs[1].op = "set_remote_offer"
           /\ e.jobs[1].sdp.kind = "offer"
        \/ e.pc.sig = "have_remote_offer" /\ e.jobs[1].op = "create_answer"

\* Messages after which the caller knows, or will once an operation is run.
Verdicts == Ends \cup {"error", "disconnected", "answer"}

\* What is still to come tells the client c how its call command ended.
Decided(e, s) ==
  \/ \E k \in 1 .. Len(s) : s[k].type \in Verdicts
  \/ \E k \in 1 .. Len(e.jobs) :
       e.jobs[k].op \in {"create_offer", "set_remote_answer"}
  \/ Negotiated(e.pc)

Awaited(c) ==
  \E d \in Handles : /\ IdOf(d) # NoPeer /\ IdOf(d) = PartnerOf(c)
                     /\ WillAnswer(eng[d], down[d], IdOf(c))

Outcome(c) == Decided(eng[c], down[c]) \/ Awaited(c)

AskedOK == \A c \in Handles : eng[c].asked => Outcome(c)

OutcomeInv == PairRoles /\ Ready /\ AskedOK

\* All that holds of a state besides.
Sound == ~Faults /\ SessionInv /\ PcsKept /\ PairRoles /\ Ready

-----------------------------------------------------------------------------
(* Streams.                                                                *)

\* The first messages of a stream decide whether they leave it in no call.
LEMMA RestsPrefix ==
  ASSUME NEW s, NEW t, NEW k \in Nat, \A i \in 1 .. k : t[i] = s[i], NEW peer,
         Rests(s, peer, k)
  PROVE  Rests(t, peer, k)
<1>1. CASE peer = NoId /\ \A i \in 1 .. k : s[i].type # "call"
  BY <1>1 DEF Rests
<1>2. ASSUME NEW j \in 1 .. k, s[j].type \in Ends \cup {"disconnected"},
             \A i \in j + 1 .. k : s[i].type # "call"
      PROVE  Rests(t, peer, k)
  <2>1. \A i \in j + 1 .. k : t[i].type # "call"
    BY <1>2
  <2> QED
    BY <1>2, <2>1 DEF Rests
<1> QED
  BY <1>1, <1>2 DEF Rests

\* One message more that is no call, or that ends one.
LEMMA RestsAppend ==
  ASSUME NEW s \in Streams, NEW m \in DownMsg, NEW peer,
         \/ m.type # "call" /\ Rests(s, peer, Len(s))
         \/ m.type \in Ends \cup {"disconnected"}
  PROVE  Rests(Append(s, m), peer, Len(s) + 1)
<1> DEFINE t == Append(s, m)
           n == Len(s)
<1>1. /\ n \in Nat /\ Len(t) = n + 1 /\ t[n + 1] = m
      /\ \A i \in 1 .. n : t[i] = s[i]
  BY AppendFacts
<1> HIDE DEF t, n
<1>2. CASE m.type \in Ends \cup {"disconnected"}
  BY <1>1, <1>2 DEF Rests
<1>3. CASE m.type # "call" /\ Rests(s, peer, n)
  <2>1. CASE peer = NoId /\ \A i \in 1 .. n : s[i].type # "call"
    BY <1>1, <1>3, <2>1 DEF Rests
  <2>2. ASSUME NEW j \in 1 .. n, s[j].type \in Ends \cup {"disconnected"},
               \A i \in j + 1 .. n : s[i].type # "call"
        PROVE  Rests(t, peer, n + 1)
    <3>1. j \in 1 .. n + 1 /\ t[j].type \in Ends \cup {"disconnected"}
      BY <1>1, <2>2
    <3>2. \A i \in j + 1 .. n + 1 : t[i].type # "call"
      BY <1>1, <1>3, <2>2
    <3> QED
      BY <3>1, <3>2 DEF Rests
  <2> QED
    BY <1>3, <2>1, <2>2 DEF Rests
<1> QED
  BY <1>2, <1>3 DEF t, n

\* Once the first message is handled, the others still leave it in no call.
LEMMA RestsTail ==
  ASSUME NEW s \in Streams, s # <<>>, NEW peer, NEW next,
         Head(s).type \notin Turns => next = peer,
         Head(s).type \in Ends \cup {"disconnected"} => next = NoId,
         NEW k \in 1 .. Len(s), Rests(s, peer, k)
  PROVE  Rests(Tail(s), next, k - 1)
<1> DEFINE t == Tail(s)
           n == Len(s)
<1>1. /\ n \in Nat \ {0} /\ Head(s) = s[1]
      /\ \A i \in 1 .. n - 1 : t[i] = s[i + 1]
  BY TailFacts
<1> HIDE DEF t, n
<1>2. k \in 1 .. n
  BY DEF n
<1>3. ASSUME NEW j \in 0 .. k, \A i \in j + 1 .. k : s[i].type # "call"
      PROVE  \A i \in j .. k - 1 : i > 0 => t[i].type # "call"
  <2> TAKE i \in j .. k - 1
  <2> HAVE i > 0
  <2>1. i \in 1 .. n - 1 /\ i + 1 \in j + 1 .. k
    BY <1>1, <1>2
  <2> QED
    BY <1>1, <1>3, <2>1
<1>4. CASE peer = NoId /\ \A i \in 1 .. k : s[i].type # "call"
  <2>1. next = NoId
    BY <1>1, <1>2, <1>4 DEF Turns
  <2>2. \A i \in 1 .. k - 1 : t[i].type # "call"
    BY <1>2, <1>3, <1>4
  <2> QED
    BY <2>1, <2>2 DEF Rests, t
<1>5. ASSUME NEW j \in 1 .. k, s[j].type \in Ends \cup {"disconnected"},
             \A i \in j + 1 .. k : s[i].type # "call"
      PROVE  Rests(t, next, k - 1)
  <2>1. \A i \in j .. k - 1 : t[i].type # "call"
    BY <1>2, <1>3, <1>5
  <2>2. CASE j = 1
    <3>1. next = NoId
      BY <1>1, <1>5, <2>2
    <3> QED
      BY <2>1, <2>2, <3>1 DEF Rests
  <2>3. CASE j # 1
    <3>1. j - 1 \in 1 .. k - 1 /\ j - 1 \in 1 .. n - 1 /\ (j - 1) + 1 = j
      BY <1>1, <1>2, <2>3
    <3>2. t[j - 1] = s[j]
      BY <1>1, <3>1
    <3> QED
      BY <1>5, <2>1, <3>1, <3>2 DEF Rests
  <2> QED
    BY <2>2, <2>3
<1> QED
  BY <1>4, <1>5 DEF Rests, t

\* Nothing of a type is added or left out.
LEMMA NoneFacts ==
  ASSUME NEW s \in Streams, NEW type
  PROVE  /\ \A m \in DownMsg :
              None(s, type) /\ m.type # type => None(Append(s, m), type)
         /\ s # <<>> /\ None(s, type) => None(Tail(s), type) /\ Head(s).type # type
         /\ \A k \in 0 .. Len(s) : None(s, type) => None(SubSeq(s, 1, k), type)
<1>1. ASSUME NEW m \in DownMsg, None(s, type), m.type # type
      PROVE  None(Append(s, m), type)
  BY <1>1, AppendFacts DEF None
<1>2. ASSUME s # <<>>, None(s, type)
      PROVE  None(Tail(s), type) /\ Head(s).type # type
  <2>1. /\ Head(s) = s[1] /\ Len(s) \in Nat \ {0} /\ Len(Tail(s)) = Len(s) - 1
        /\ \A i \in 1 .. Len(s) - 1 : Tail(s)[i] = s[i + 1]
    BY <1>2, TailFacts
  <2>2. 1 \in 1 .. Len(s) /\ \A i \in 1 .. Len(s) - 1 : i + 1 \in 1 .. Len(s)
    BY <2>1
  <2> QED
    BY <1>2, <2>1, <2>2 DEF None
<1>3. ASSUME NEW k \in 0 .. Len(s), None(s, type)
      PROVE  None(SubSeq(s, 1, k), type)
  <2>1. /\ Len(s) \in Nat /\ Len(SubSeq(s, 1, k)) = k
        /\ \A i \in 1 .. k : SubSeq(s, 1, k)[i] = s[i]
    BY DEF Streams
  <2> QED
    BY <1>3, <2>1 DEF None
<1> QED
  BY <1>1, <1>2, <1>3

-----------------------------------------------------------------------------
(* What a client learns from a step of the server.                         *)

\* Ids are of one client each, and partners have each other.
PairsMeet ==
  /\ \A c, d \in Handles : IdOf(c) # NoPeer /\ IdOf(c) = IdOf(d) => c = d
  /\ \A d \in Handles : PartnerOf(d) # NoPeer =>
       /\ IdOf(d) # NoPeer
       /\ \E c \in Handles : IdOf(c) = PartnerOf(d) /\ PartnerOf(c) = IdOf(d)
  /\ \A d \in Handles : IdOf(d) = NoPeer => PartnerOf(d) = NoPeer

\* What the registry keeps, said of clients.
LEMMA PairFacts == RegistryInv => PairsMeet
<1> SUFFICES ASSUME RegistryInv PROVE PairsMeet
  OBVIOUS
<1>1. ASSUME NEW c \in Handles, NEW d \in Handles, IdOf(c) # NoPeer, IdOf(c) = IdOf(d)
      PROVE  c = d
  <2>1. IdOf(c) \in DOMAIN members
    BY <1>1, IdFacts
  <2>2. id_to_hdl[IdOf(c)] = c /\ id_to_hdl[IdOf(c)] = d
    BY <1>1, <2>1, IdFacts
  <2> QED
    BY <2>2
<1>2. ASSUME NEW d \in Handles, PartnerOf(d) # NoPeer
      PROVE  /\ IdOf(d) # NoPeer
             /\ \E c \in Handles : IdOf(c) = PartnerOf(d) /\ PartnerOf(c) = IdOf(d)
  <2>1. /\ d \in DOMAIN hdl_to_id /\ IdOf(d) \in DOMAIN members
        /\ IdOf(d) # NoPeer /\ PartnerOf(d) = members[IdOf(d)].peer_id
    BY <1>2, IdFacts
  <2>2. /\ PartnerOf(d) \in DOMAIN members
        /\ members[PartnerOf(d)].peer_id = IdOf(d)
    BY <1>2, <2>1 DEF RegistryInv, OneToOne, IsPaired, Has
  <2>3. DOMAIN id_to_hdl = DOMAIN members /\ id_to_hdl \in [DOMAIN id_to_hdl -> Handles]
    BY DEF RegistryInv, MapsConsistent
  <2> DEFINE c == id_to_hdl[PartnerOf(d)]
  <2>4. c \in Handles /\ IdOf(c) = PartnerOf(d)
    BY <2>2, <2>3, IdFacts
  <2>5. PartnerOf(c) = IdOf(d)
    BY <1>2, <2>2, <2>4, IdFacts
  <2> QED
    BY <2>1, <2>4, <2>5
<1>3. \A d \in Handles : IdOf(d) = NoPeer => PartnerOf(d) = NoPeer
  BY <1>2
<1> QED
  BY <1>1, <1>2, <1>3 DEF PairsMeet

\* Messages fit for client d: answers go to callers, and offers to those that
\* are in no call, from callers.
Fit(d, m) ==
  /\ m.type = "answer" => d \in Callers
  /\ m.type = "call" =>
       /\ d \notin Callers /\ m.body.kind = "offer" /\ PartnerOf(d) = NoPeer
       /\ \E a \in Callers : m.from = IdOf(a)

\* Served, and what d is told is fit for it.
Learns(d) ==
  /\ IdOf(d)' = IdOf(d)
  /\ \/ Fed(d) = down[d] /\ PartnerOf(d)' = PartnerOf(d)
     \/ \E m \in DownMsg :
          /\ Fed(d) = Append(down[d], m) /\ Fit(d, m)
          /\ \/ m.type = "error" /\ PartnerOf(d)' = PartnerOf(d)
             \/ /\ m.type \in Partner /\ m.from = PartnerOf(d)
                /\ PartnerOf(d)' = PartnerOf(d)
             \/ m.type \in Ends /\ PartnerOf(d)' = NoPeer
             \/ m.type = "call" /\ m.from = PartnerOf(d)'

\* The one message that joins a stream is the one that was sent.
LEMMA OneLast ==
  ASSUME NEW s \in Streams, NEW m \in DownMsg, NEW n \in DownMsg,
         Append(s, m) = Append(s, n)
  PROVE  m = n
<1>1. /\ Append(s, m)[Len(s) + 1] = m /\ Append(s, n)[Len(s) + 1] = n
  BY AppendFacts
<1> QED
  BY <1>1

\* The last message that the step sends is all that one learns.
LEMMA Learned ==
  ASSUME NEW d \in Handles, Served(d), down[d] \in Streams,
         \/ CallRelated(sent'[d]) = <<>>
         \/ \E m \in DownMsg : CallRelated(sent'[d]) = <<m>> /\ Fit(d, m)
  PROVE  Learns(d)
<1>1. /\ IdOf(d)' = IdOf(d)
      /\ Hears(d, down[d], PartnerOf(d), Fed(d), PartnerOf(d)')
  BY DEF Served
<1>2. CASE Fed(d) = down[d] /\ PartnerOf(d)' = PartnerOf(d)
  BY <1>1, <1>2 DEF Learns
<1>3. ASSUME NEW n \in DownMsg, Fed(d) = Append(down[d], n),
             \/ n.type = "error" /\ PartnerOf(d)' = PartnerOf(d)
             \/ n.type \in Partner /\ n.from = PartnerOf(d) /\ PartnerOf(d)' = PartnerOf(d)
             \/ n.type \in Ends /\ PartnerOf(d) \in Ids /\ PartnerOf(d)' = NoPeer
             \/ n.type = "call" /\ n.from = PartnerOf(d)' /\ d \notin Callers
      PROVE  Learns(d)
  <2>1. Len(Fed(d)) # Len(down[d])
    BY <1>3, AppendFacts
  <2>2. CallRelated(sent'[d]) # <<>>
    BY <2>1, FedFacts
  <2>3. PICK m \in DownMsg : CallRelated(sent'[d]) = <<m>> /\ Fit(d, m)
    BY <2>2
  <2>4. Fed(d) = Append(down[d], m)
    BY <2>3, FedFacts
  <2>5. m = n
    BY <1>3, <2>4, OneLast
  <2> QED
    BY <1>1, <1>3, <2>3, <2>5 DEF Learns
<1> QED
  BY <1>1, <1>2, <1>3 DEF Hears

\* While the server does nothing, everybody learns all there is to learn.
LEMMA IdleLearns ==
  ASSUME RegistryInv, ServerIdle, NEW d \in Handles, down[d] \in Streams
  PROVE  Learns(d) /\ Fed(d) = down[d] /\ PartnerOf(d)' = PartnerOf(d)
<1>1. Served(d) /\ Fed(d) = down[d]
  BY IdleServed
<1>2. CallRelated(sent'[d]) = <<>>
  BY DEF ServerIdle, Silence, CallRelated
<1>3. PartnerOf(d)' = PartnerOf(d)
  BY DEF ServerIdle, registry, maps, IdOf, PartnerOf
<1> QED
  BY <1>1, <1>2, <1>3, Learned

\* Of answers, only those of callees are relayed.
LEMMA RelayLearns ==
  ASSUME RegistryInv, conn \in [Handles -> {"none", "open"}], PairRoles,
         NEW c \in Handles, NEW type \in Partner, type = "answer" => c \notin Callers,
         NEW to, NEW body \in Sdps, Relay(c, type, to, body),
         NEW d \in Handles, down[d] \in Streams
  PROVE  Learns(d)
<1>1. CASE Ignored(c)
  BY <1>1, IdleLearns DEF Ignored, ServerIdle
<1>2. CASE Relayed(c, type, to, body)
  <2> DEFINE m == Stamped(type, hdl_to_id[c], body)
             hs == {id_to_hdl[i] : i \in {to} \cap DOMAIN id_to_hdl}
  <2>1. /\ c \in DOMAIN hdl_to_id /\ IsPaired(members, hdl_to_id[c], to)
        /\ sent' = Send(hs, m)
    BY <1>2 DEF Relayed, FromClient, SendTo
  <2>2. /\ IdOf(c) = hdl_to_id[c] /\ IdOf(c) \in Ids /\ IdOf(c) # NoPeer
        /\ to \in DOMAIN members /\ members[to].peer_id = IdOf(c)
        /\ DOMAIN id_to_hdl = DOMAIN members /\ to \in Ids
    BY <2>1, IdFacts DEF IsPaired, Has, RegistryInv, MapsConsistent, MembersOK
  <2>3. m \in DownMsg /\ m.type = type /\ m.type # "roster"
    BY <2>2 DEF Stamped, DownMsg, Partner
  <2> HIDE DEF m, hs
  <2>4. CallRelated(sent'[d]) = IF d \in hs /\ conn[d] = "open" THEN <<m>> ELSE <<>>
    BY <2>1, <2>3, GivenAt
  <2>5. ASSUME d \in hs PROVE Fit(d, m)
    <3>1. IdOf(d) = to /\ d \in DOMAIN hdl_to_id
      BY <2>2, <2>5, IdFacts DEF hs
    <3>2. PartnerOf(d) = IdOf(c)
      BY <2>2, <3>1, IdFacts
    <3>3. type = "answer" => d \in Callers
      BY <2>2, <3>2 DEF PairRoles
    <3> QED
      BY <2>3, <3>3 DEF Fit, Partner
  <2>6. Served(d)
    BY RelayServed
  <2> QED
    BY <2>3, <2>4, <2>5, <2>6, Learned
<1> QED
  BY <1>1, <1>2 DEF Relay

\* Most of what the server sends is fit for everyone.
LEMMA PlainLearns ==
  ASSUME NEW d \in Handles, Served(d), down[d] \in Streams,
         NEW types, "answer" \notin types, "call" \notin types, Gets(d, types)
  PROVE  Learns(d)
<1>1. \/ CallRelated(sent'[d]) = <<>>
      \/ \E m \in DownMsg : CallRelated(sent'[d]) = <<m>> /\ Fit(d, m)
  BY DEF Gets, Fit
<1> QED
  BY <1>1, Learned

\* The step tells d of a call from c.
Rung(d, c) ==
  \E m \in DownMsg :
    Fed(d) = Append(down[d], m) /\ m.type = "call" /\ m.from = IdOf(c)

\* The step tells c that something is wrong.
Refused(c) == \E m \in DownMsg : Fed(c) = Append(down[c], m) /\ m.type = "error"

\* An offer goes to a callee in no call, or its caller is told; the server is
\* silent only to a client it does not know and to one that is in a call.
LEMMA CallLearns ==
  ASSUME RegistryInv, conn \in [Handles -> {"none", "open"}], RolesKept,
         \A d \in Handles : down[d] \in Streams,
         NEW c \in Handles, c \in Callers, NEW sdp \in Sdps, sdp.kind = "offer",
         NEW to, to = eng[c].peer_id, Call(c, to, sdp)
  PROVE  \/ /\ \A d \in Handles : Learns(d)
            /\ IdOf(c) = NoPeer \/ PartnerOf(c) # NoPeer \/ Refused(c)
         \/ /\ \A d \in Handles \ {c} : Learns(d)
            /\ Calling(c, to)
            /\ \E x \in Handles \ Callers : IdOf(x) = to /\ Rung(x, c)
<1>1. CASE CallIgnored(c, to)
  <2>1. IdOf(c) = NoPeer \/ PartnerOf(c) # NoPeer
    <3>1. CASE c \notin DOMAIN hdl_to_id
      BY <3>1, IdFacts
    <3>2. CASE c \in DOMAIN hdl_to_id
      <4>1. Busy(members, IdOf(c)) /\ IdOf(c) \in DOMAIN members
        BY <1>1, <3>2, IdFacts DEF CallIgnored, CallResult, Has
      <4> QED
        BY <3>2, <4>1, IdFacts DEF RegistryInv, OneToOne
    <3> QED
      BY <3>1, <3>2
  <2>2. \A d \in Handles : Learns(d)
    BY <1>1, IdleLearns DEF CallIgnored, Ignored, ServerIdle
  <2> QED
    BY <2>1, <2>2
<1>2. CASE CallRefused(c, to)
  <2>1. PICK code \in {"busy", "offline"} : sent' = Send({c}, ErrorMsg(code))
    BY <1>2 DEF CallRefused, SendToHdl
  <2> DEFINE m == ErrorMsg(code)
  <2>2. m \in DownMsg /\ m.type = "error" /\ m.type # "roster"
    BY DEF ErrorMsg, DownMsg
  <2> HIDE DEF m
  <2>3. \A d \in Handles : CallRelated(sent'[d]) =
          IF d \in {c} /\ conn[d] = "open" THEN <<m>> ELSE <<>>
    BY <2>1, <2>2, GivenAt DEF m
  <2>4. ASSUME NEW d \in Handles PROVE Learns(d)
    <3>1. Served(d)
      <4>1. Served(d) \/ (d = c /\ Calling(c, to))
        BY CallServed
      <4>2. members' = members /\ c \in DOMAIN hdl_to_id /\ UNCHANGED hdl_to_id
        BY <1>2 DEF CallRefused, FromClient, maps
      <4>3. conn[c] = "open"
        BY <4>2, IdFacts
      <4>4. Fed(c) = Append(down[c], m)
        BY <2>2, <2>3, <4>3, FedFacts
      <4>5. Fed(c) # down[c]
        <5>1. Len(Append(down[c], m)) # Len(down[c])
          BY <2>2, AppendFacts
        <5> QED
          BY <4>4, <5>1
      <4> QED
        BY <4>1, <4>5 DEF Calling
    <3>2. Gets(d, {"error"})
      BY <2>2, <2>3 DEF Gets
    <3> QED
      BY <3>1, <3>2, PlainLearns
  <2>5. Refused(c)
    <3>1. conn[c] = "open"
      BY <1>2, IdFacts DEF CallRefused, FromClient
    <3> QED
      BY <2>2, <2>3, <3>1, FedFacts DEF Refused
  <2> QED
    BY <2>4, <2>5
<1>3. CASE CallAccepted(c, to, sdp)
  <2> DEFINE m == Stamped("call", hdl_to_id[c], sdp)
             hs == {id_to_hdl[i] : i \in {to} \cap DOMAIN id_to_hdl}
  <2>1. /\ c \in DOMAIN hdl_to_id /\ CallResult(members, hdl_to_id[c], to) = "ok"
        /\ sent' = Send(hs, m) ++ BroadcastRoster(id_to_hdl, members')
    BY <1>3 DEF CallAccepted, FromClient, SendTo
  <2>2. IdOf(c) = hdl_to_id[c] /\ IdOf(c) \in Ids /\ IdOf(c) \in DOMAIN members
    BY <2>1, IdFacts
  <2>3. /\ to \in DOMAIN members /\ to # IdOf(c) /\ ~Busy(members, to)
        /\ DOMAIN id_to_hdl = DOMAIN members /\ to \in Ids
        /\ id_to_hdl \in [DOMAIN id_to_hdl -> Handles]
    BY <2>1, <2>2, CallLemma DEF RegistryInv, MembersOK, MapsConsistent
  <2>4. /\ m \in DownMsg /\ m.type = "call" /\ m.type # "roster"
        /\ m.from = IdOf(c) /\ m.body = sdp
    BY <2>2 DEF Stamped, DownMsg
  <2> HIDE DEF m
  <2>5. \A d \in Handles : CallRelated(sent'[d]) =
          IF d \in hs /\ conn[d] = "open" THEN <<m>> ELSE <<>>
    <3> HIDE DEF hs
    <3> QED
      BY <2>1, <2>4, GivenAt
  <2>6. ASSUME NEW d \in Handles, d \in hs
        PROVE  /\ IdOf(d) = to /\ d # c /\ conn[d] = "open" /\ d \notin Callers
               /\ PartnerOf(d) = NoPeer
    <3>1. IdOf(d) = to
      BY <2>3, <2>6, IdFacts
    <3>2. d \in DOMAIN hdl_to_id /\ hdl_to_id[d] = to /\ conn[d] = "open" /\ d # c
      BY <2>3, <3>1, IdFacts
    <3>3. d \notin Callers
      BY <3>2 DEF RolesKept
    <3>4. PartnerOf(d) = NoPeer
      BY <2>3, <3>1, <3>2, IdFacts DEF RegistryInv, OneToOne
    <3> QED
      BY <3>1, <3>2, <3>3, <3>4
  <2>7. ASSUME NEW d \in Handles \ {c} PROVE Learns(d)
    <3>1. Served(d)
      BY CallServed
    <3>2. d \in hs => Fit(d, m)
      BY <2>4, <2>6 DEF Fit
    <3> HIDE DEF hs
    <3> QED
      BY <2>4, <2>5, <3>1, <3>2, Learned
  <2>8. Calling(c, to)
    BY <1>3, CallServed
  <2>9. \E x \in Handles \ Callers : IdOf(x) = to /\ Rung(x, c)
    <3> DEFINE x == id_to_hdl[to]
    <3>1. x \in Handles /\ x \in hs
      BY <2>3
    <3> HIDE DEF x, hs
    <3>2. Fed(x) = Append(down[x], m)
      BY <2>4, <2>5, <2>6, <3>1, FedFacts
    <3> QED
      BY <2>4, <2>6, <3>1, <3>2 DEF Rung
  <2> QED
    BY <2>7, <2>8, <2>9
<1> QED
  BY <1>1, <1>2, <1>3 DEF Call

\* A client stays ready when a message fit for it joins its stream.
LEMMA ReadyAppend ==
  ASSUME NEW c, NEW e, NEW s \in Streams, NEW p, ClientReady(c, e, s, p),
         NEW m \in DownMsg, NEW q,
         m.type = "answer" => c \in Callers /\ NoOffer(e),
         m.type = "call" => m.body.kind = "offer" /\ p = NoPeer /\ q # NoPeer,
         q = NoPeer => p = NoPeer \/ m.type \in Ends \cup {"disconnected"}
  PROVE  ClientReady(c, e, Append(s, m), q)
<1> DEFINE t == Append(s, m)
           n == Len(s)
<1>1. /\ n \in Nat /\ Len(t) = n + 1 /\ t[n + 1] = m
      /\ \A i \in 1 .. n : t[i] = s[i]
  BY AppendFacts
<1>2. None(s, "answer") /\ m.type # "answer" => None(t, "answer")
  BY NoneFacts
<1>3. CASE c \in Callers
  <2>1. CallerReady(e, t)
    BY <1>2, <1>3 DEF ClientReady, CallerReady, NoOffer
  <2> QED
    BY <1>3, <2>1 DEF ClientReady
<1>4. CASE c \notin Callers
  <2>1. CalleeReady(e, s, p) /\ m.type # "answer"
    BY <1>4 DEF ClientReady
  <2>2. ASSUME q = NoPeer PROVE Rests(t, e.peer_id, n + 1)
    <3>1. \/ m.type # "call" /\ Rests(s, e.peer_id, Len(s))
          \/ m.type \in Ends \cup {"disconnected"}
      BY <2>1, <2>2 DEF CalleeReady
    <3> QED
      BY <3>1, RestsAppend
  <2>3. ASSUME NEW k \in 1 .. n + 1, t[k].type = "call"
        PROVE  t[k].body.kind = "offer" /\ Rests(t, e.peer_id, k - 1)
    <3>1. t[k].body.kind = "offer" /\ Rests(s, e.peer_id, k - 1)
      <4>1. CASE k \in 1 .. n
        BY <1>1, <2>1, <2>3, <4>1 DEF CalleeReady
      <4>2. CASE k = n + 1
        <5>1. t[k] = m /\ k - 1 = Len(s)
          BY <1>1, <4>2
        <5> QED
          BY <2>1, <2>3, <5>1 DEF CalleeReady
      <4> QED
        BY <1>1, <4>1, <4>2
    <3>2. k - 1 \in Nat /\ \A i \in 1 .. k - 1 : t[i] = s[i]
      BY <1>1
    <3> QED
      BY <3>1, <3>2, RestsPrefix
  <2> HIDE DEF t, n
  <2>4. CalleeReady(e, t, q)
    BY <1>1, <1>2, <2>1, <2>2, <2>3 DEF CalleeReady
  <2> QED
    BY <1>4, <2>4 DEF ClientReady, t
<1> QED
  BY <1>3, <1>4

\* So it does through a step of the server, its engine having moved or not.
LEMMA LearnsReady ==
  ASSUME RegistryInv, NEW d \in Handles, Learns(d), down[d] \in Streams,
         NEW f \in Engines, ~f.crashed,
         ClientOK(d, f, down[d], conn[d], IdOf(d), PartnerOf(d)),
         ClientReady(d, f, down[d], PartnerOf(d))
  PROVE  ClientReady(d, f, Fed(d), PartnerOf(d)')
<1>1. CASE Fed(d) = down[d] /\ PartnerOf(d)' = PartnerOf(d)
  BY <1>1
<1>2. ASSUME NEW m \in DownMsg, Fed(d) = Append(down[d], m), Fit(d, m),
             \/ m.type = "error" /\ PartnerOf(d)' = PartnerOf(d)
             \/ /\ m.type \in Partner /\ m.from = PartnerOf(d)
                /\ PartnerOf(d)' = PartnerOf(d)
             \/ m.type \in Ends /\ PartnerOf(d)' = NoPeer
             \/ m.type = "call" /\ m.from = PartnerOf(d)'
      PROVE  ClientReady(d, f, Fed(d), PartnerOf(d)')
  <2>1. NoPeer \notin Ids
    BY IdFacts
  <2>2. m.type = "answer" => d \in Callers /\ NoOffer(f)
    <3>1. ASSUME m.type = "answer" PROVE d \in Callers /\ PartnerOf(d) # NoPeer
      BY <1>2, <2>1, <3>1, DownMsgFacts DEF Fit, Partner, Ends
    <3> QED
      BY <3>1 DEF ClientOK, CallerOK, Unstarted, NoOffer
  <2>3. m.type = "call" =>
          m.body.kind = "offer" /\ PartnerOf(d) = NoPeer /\ PartnerOf(d)' # NoPeer
    BY <1>2, <2>1, DownMsgFacts DEF Fit, Partner, Ends
  <2>4. PartnerOf(d)' = NoPeer =>
          PartnerOf(d) = NoPeer \/ m.type \in Ends \cup {"disconnected"}
    BY <1>2, <2>3
  <2> QED
    BY <1>2, <2>2, <2>3, <2>4, ReadyAppend
<1> QED
  BY <1>1, <1>2 DEF Learns

\* A stream only grows.
LEMMA FedGrows ==
  ASSUME NEW d \in Handles, Learns(d), down[d] \in Streams
  PROVE  /\ Fed(d) \in Streams /\ Len(down[d]) \in Nat /\ Len(Fed(d)) \in Nat
         /\ Len(down[d]) <= Len(Fed(d))
         /\ \A k \in 1 .. Len(down[d]) : Fed(d)[k] = down[d][k]
<1>1. CASE Fed(d) = down[d]
  <2>1. Len(down[d]) \in Nat
    BY DEF Streams
  <2> QED
    BY <1>1, <2>1
<1>2. ASSUME NEW m \in DownMsg, Fed(d) = Append(down[d], m)
      PROVE  /\ Fed(d) \in Streams /\ Len(down[d]) \in Nat /\ Len(Fed(d)) \in Nat
             /\ Len(down[d]) <= Len(Fed(d))
             /\ \A k \in 1 .. Len(down[d]) : Fed(d)[k] = down[d][k]
  BY <1>2, AppendFacts
<1> QED
  BY <1>1, <1>2 DEF Learns

-----------------------------------------------------------------------------
(* Calls between callers and callees.                                      *)

\* They stay so when one client moves.
LEMMA RolesStay ==
  ASSUME PairsMeet, PairsMeet', PairRoles, NEW c \in Handles,
         \A d \in Handles \ {c} : Learns(d),
         \/ Learns(c)
         \/ PartnerOf(c)' = NoPeer
         \/ /\ c \in Callers /\ IdOf(c)' = IdOf(c)
            /\ \E x \in Handles \ Callers : IdOf(x) = PartnerOf(c)'
  PROVE  PairRoles'
<1> SUFFICES ASSUME NEW a \in Handles, NEW b \in Handles,
                    IdOf(a)' # NoPeer, PartnerOf(b)' = IdOf(a)'
             PROVE  a \in Callers <=> b \notin Callers
  BY DEF PairRoles
<1>1. /\ \A g, h \in Handles : IdOf(g) # NoPeer /\ IdOf(g) = IdOf(h) => g = h
      /\ \A g, h \in Handles : IdOf(g)' # NoPeer /\ IdOf(g)' = IdOf(h)' => g = h
  BY DEF PairsMeet
<1>2. PartnerOf(a)' # NoPeer /\ PartnerOf(b)' # NoPeer
  <2>1. PICK h \in Handles :
          IdOf(b)' # NoPeer /\ IdOf(h)' = PartnerOf(b)' /\ PartnerOf(h)' = IdOf(b)'
    BY DEF PairsMeet
  <2>2. h = a
    BY <1>1, <2>1
  <2> QED
    BY <2>1, <2>2
<1>3. ASSUME NEW g \in Handles, g \in {a, b} PROVE IdOf(g)' = IdOf(g)
  BY <1>2, <1>3 DEF Learns
<1>4. CASE PartnerOf(b)' = PartnerOf(b)
  BY <1>3, <1>4 DEF PairRoles
<1>5. CASE PartnerOf(b)' # PartnerOf(b) /\ Learns(b)
  <2>1. PICK x \in Callers : b \notin Callers /\ PartnerOf(b)' = IdOf(x)
    BY <1>2, <1>5 DEF Learns, Fit
  <2>2. x = a
    BY <1>1, <1>3, <2>1, SessionAssumption
  <2> QED
    BY <2>1, <2>2
<1>6. ASSUME b = c, c \in Callers, NEW x \in Handles \ Callers, IdOf(x) = PartnerOf(c)'
      PROVE  a \in Callers <=> b \notin Callers
  <2>1. x = a
    BY <1>1, <1>3, <1>6
  <2> QED
    BY <1>6, <2>1
<1> QED
  BY <1>2, <1>4, <1>5, <1>6

-----------------------------------------------------------------------------
(* What a waiting caller is told by.                                       *)

\* If a callee has an answer to make to the caller x, it still has afterwards,
\* or has made it.
Replies(d, x) ==
  /\ IdOf(x) # NoPeer /\ PartnerOf(d) = IdOf(x) /\ PartnerOf(d)' = IdOf(x)
  /\ WillAnswer(eng[d], down[d], IdOf(x))
  => \/ WillAnswer(eng'[d], down'[d], IdOf(x))
     \/ \E k \in 1 .. Len(Fed(x)) : Fed(x)[k].type = "answer"

\* The parts of an engine its answer depends on.
SameAnswer(e, f) == f.peer_id = e.peer_id /\ f.jobs = e.jobs /\ f.pc.sig = e.pc.sig

\* No message but a turn changes what the engine will answer.
LEMMA AnswerAppend ==
  ASSUME NEW e, NEW s \in Streams, NEW i, WillAnswer(e, s, i),
         NEW m \in DownMsg, m.type \notin Turns
  PROVE  WillAnswer(e, Append(s, m), i)
<1> DEFINE t == Append(s, m)
           n == Len(s)
<1>1. /\ n \in Nat /\ Len(t) = n + 1 /\ t[n + 1] = m
      /\ \A j \in 1 .. n : t[j] = s[j]
  BY AppendFacts
<1> HIDE DEF t, n
<1>2. ASSUME NEW k \in 0 .. n, \A j \in k + 1 .. n : s[j].type \notin Turns
      PROVE  \A j \in k + 1 .. n + 1 : t[j].type \notin Turns
  BY <1>1, <1>2
<1>3. ASSUME NEW k \in 1 .. n, s[k].type = "call", s[k].from = i,
             \A j \in k + 1 .. n : s[j].type \notin Turns
      PROVE  WillAnswer(e, t, i)
  <2>1. k \in 1 .. n + 1 /\ k \in 0 .. n /\ t[k] = s[k]
    BY <1>1
  <2>2. \A j \in k + 1 .. n + 1 : t[j].type \notin Turns
    BY <1>2, <1>3, <2>1
  <2> QED
    BY <1>1, <1>3, <2>1, <2>2 DEF WillAnswer
<1>4. ASSUME \A j \in 1 .. n : s[j].type \notin Turns
      PROVE  \A j \in 1 .. Len(t) : t[j].type \notin Turns
  BY <1>1, <1>4
<1>5. CASE \A j \in 1 .. n : s[j].type \notin Turns
  BY <1>3, <1>4, <1>5 DEF WillAnswer, n
<1>6. CASE ~(\A j \in 1 .. n : s[j].type \notin Turns)
  <2>1. PICK k \in 1 .. n : /\ s[k].type = "call" /\ s[k].from = i
                            /\ \A j \in k + 1 .. n : s[j].type \notin Turns
    BY <1>6 DEF WillAnswer, n
  <2> QED
    BY <1>3, <2>1 DEF t
<1> QED
  BY <1>5, <1>6 DEF t

\* Only the end of its call makes a callee drop its answer, unless its engine
\* itself does something about it.
LEMMA KeepsReplies ==
  ASSUME RegistryInv, NEW d \in Handles, Learns(d), down[d] \in Streams,
         down'[d] = Fed(d), NEW x,
         /\ IdOf(x) # NoPeer /\ PartnerOf(d) = IdOf(x)
         /\ WillAnswer(eng[d], down[d], IdOf(x))
         => \/ WillAnswer(eng'[d], down[d], IdOf(x))
            \/ \E k \in 1 .. Len(Fed(x)) : Fed(x)[k].type = "answer"
  PROVE  Replies(d, x)
<1> SUFFICES ASSUME IdOf(x) # NoPeer, PartnerOf(d) = IdOf(x), PartnerOf(d)' = IdOf(x),
                    WillAnswer(eng'[d], down[d], IdOf(x))
             PROVE  WillAnswer(eng'[d], down'[d], IdOf(x))
  BY DEF Replies
<1>1. CASE Fed(d) = down[d]
  BY <1>1
<1>2. ASSUME NEW m \in DownMsg, Fed(d) = Append(down[d], m), m.type \notin Turns
      PROVE  WillAnswer(eng'[d], down'[d], IdOf(x))
  BY <1>2, AnswerAppend
<1> QED
  BY <1>1, <1>2 DEF Learns, Fit, Turns, Ends, Partner

\* A callee that learns of the step what it should keeps every reply it owes.
LEMMA LearnsReplies ==
  ASSUME RegistryInv, NEW d \in Handles, Learns(d), down[d] \in Streams,
         down'[d] = Fed(d), SameAnswer(eng[d], eng'[d]), NEW x
  PROVE  Replies(d, x)
<1>1. WillAnswer(eng[d], down[d], IdOf(x)) => WillAnswer(eng'[d], down[d], IdOf(x))
  BY DEF WillAnswer, SameAnswer
<1> QED
  BY <1>1, KeepsReplies

\* What decides how the call command ends is still there.
LEMMA DecidedGrows ==
  ASSUME NEW d \in Handles, Learns(d), down[d] \in Streams, NEW e,
         Decided(e, down[d])
  PROVE  Decided(e, Fed(d))
<1>1. \A k \in 1 .. Len(down[d]) : k \in 1 .. Len(Fed(d)) /\ Fed(d)[k] = down[d][k]
  BY FedGrows
<1> QED
  BY <1>1 DEF Decided

\* A caller that waits keeps something to wait for: its answer does not get
\* lost but for a message that tells it so.
LEMMA OutcomeStays ==
  ASSUME RegistryInv, PairsMeet, PairsMeet', PairRoles, NEW c \in Handles,
         \A d \in Handles \ {c} : Learns(d),
         NEW x \in Callers, Learns(x), down[x] \in Streams, down'[x] = Fed(x),
         Outcome(x), Decided(eng[x], down[x]) => Decided(eng'[x], down[x]),
         \A d \in Handles \ {x} : Replies(d, x)
  PROVE  Outcome(x)'
<1>1. x \in Handles
  BY SessionAssumption
<1>2. CASE Decided(eng[x], down[x])
  BY <1>1, <1>2, DecidedGrows DEF Outcome
<1>3. ASSUME NEW d \in Handles, IdOf(d) # NoPeer, IdOf(d) = PartnerOf(x),
             WillAnswer(eng[d], down[d], IdOf(x))
      PROVE  Outcome(x)'
  <2>1. ASSUME NEW k \in 1 .. Len(Fed(x)), Fed(x)[k].type \in Verdicts
        PROVE  Outcome(x)'
    BY <2>1 DEF Outcome, Decided
  <2>2. CASE PartnerOf(x)' # PartnerOf(x)
    <3>1. PICK m \in DownMsg : Fed(x) = Append(down[x], m) /\ m.type \in Ends
      BY <2>2 DEF Learns, Fit
    <3>2. Len(down[x]) + 1 \in 1 .. Len(Fed(x)) /\ Fed(x)[Len(down[x]) + 1] = m
      BY <3>1, AppendFacts
    <3> QED
      BY <2>1, <3>1, <3>2 DEF Verdicts
  <2>3. CASE PartnerOf(x)' = PartnerOf(x)
    <3>1. /\ IdOf(x)' = IdOf(x) /\ IdOf(x) # NoPeer /\ PartnerOf(d) = IdOf(x)
      <4>1. PICK h \in Handles : /\ IdOf(x) # NoPeer /\ IdOf(h) = PartnerOf(x)
                                 /\ PartnerOf(h) = IdOf(x)
        BY <1>1, <1>3 DEF PairsMeet
      <4>2. h = d
        BY <1>3, <4>1 DEF PairsMeet
      <4> QED
        BY <4>1, <4>2 DEF Learns
    <3>2. PICK h \in Handles : IdOf(h)' = PartnerOf(x)' /\ PartnerOf(h)' = IdOf(x)'
      BY <1>1, <1>3, <2>3 DEF PairsMeet
    <3>3. h = d
      <4>1. CASE h # c
        BY <1>3, <2>3, <3>2, <4>1 DEF PairsMeet, Learns
      <4>2. CASE d # c
        BY <1>3, <2>3, <3>2, <4>2 DEF PairsMeet, Learns
      <4> QED
        BY <4>1, <4>2
    <3>4. d # x
      BY <1>1, <1>3, <3>1 DEF PairRoles
    <3>5. \/ WillAnswer(eng'[d], down'[d], IdOf(x))
          \/ \E k \in 1 .. Len(Fed(x)) : Fed(x)[k].type = "answer"
      BY <1>3, <3>1, <3>2, <3>3, <3>4 DEF Replies
    <3>6. CASE WillAnswer(eng'[d], down'[d], IdOf(x))
      BY <1>3, <2>3, <3>1, <3>2, <3>3, <3>6 DEF Outcome, Awaited
    <3> QED
      BY <2>1, <3>5, <3>6 DEF Verdicts
  <2> QED
    BY <2>2, <2>3
<1> QED
  BY <1>2, <1>3 DEF Outcome, Awaited

-----------------------------------------------------------------------------
(* Preservation, one action at a time.                                     *)

\* What an action finds of a client.
LEMMA FoundReady ==
  ASSUME Sound, NEW c \in Handles
  PROVE  /\ ~eng[c].crashed /\ PcOK(eng[c]) /\ SessionInv /\ RegistryInv /\ PairsMeet
         /\ ClientReady(c, eng[c], down[c], PartnerOf(c))
         /\ c \in Callers => CallerReady(eng[c], down[c])
         /\ c \notin Callers => CalleeReady(eng[c], down[c], PartnerOf(c))
         /\ eng[c].peer_id = NoId => eng[c].pc = NoPc
<1>1. SessionInv /\ RegistryInv /\ PairsMeet
  BY PairFacts DEF Sound, SessionInv, Kept
<1> QED
  BY <1>1 DEF Sound, PcsKept, Ready, ClientReady

\* One client moves, and the others learn of it what they should.
LEMMA OneSettles ==
  ASSUME Sound, AskedOK, SessionInv', NEW c \in Handles,
         \A d \in Handles \ {c} : Learns(d) /\ down'[d] = Fed(d) /\ eng'[d] = eng[d],
         \/ Learns(c)
         \/ PartnerOf(c)' = NoPeer
         \/ /\ c \in Callers /\ IdOf(c)' = IdOf(c)
            /\ \E x \in Handles \ Callers : IdOf(x) = PartnerOf(c)',
         ClientReady(c, eng'[c], down'[c], PartnerOf(c)'),
         c \in Callers /\ eng'[c].asked => Outcome(c)',
         \A x \in Callers \ {c} : Replies(c, x)
  PROVE  OutcomeInv'
<1>1. PairsMeet /\ PairsMeet' /\ RegistryInv /\ PairRoles
  <2>1. RegistryInv /\ RegistryInv' /\ PairRoles
    BY DEF Sound, SessionInv, Kept
  <2> QED
    BY <2>1, PairFacts, PTL
<1>2. PairRoles'
  BY <1>1, RolesStay
<1>3. ASSUME NEW d \in Handles \ {c}
      PROVE  /\ ClientReady(d, eng'[d], down'[d], PartnerOf(d)')
             /\ eng[d] \in Engines /\ down[d] \in Streams
  <2>1. /\ eng[d] \in Engines /\ down[d] \in Streams /\ ~eng[d].crashed
        /\ ClientOK(d, eng[d], down[d], conn[d], IdOf(d), PartnerOf(d))
        /\ ClientReady(d, eng[d], down[d], PartnerOf(d))
    BY Found, FoundReady
  <2> QED
    BY <1>1, <2>1, LearnsReady
<1>4. Ready'
  BY <1>3 DEF Ready
<1>5. ASSUME NEW x \in Handles, eng'[x].asked PROVE Outcome(x)'
  <2>1. x \in Callers
    BY <1>4, <1>5 DEF Ready, ClientReady, CalleeReady
  <2>2. CASE x # c
    <3>1. Outcome(x) /\ Learns(x) /\ down[x] \in Streams /\ down'[x] = Fed(x)
      BY <1>3, <1>5, <2>2 DEF AskedOK
    <3>2. Decided(eng[x], down[x]) => Decided(eng'[x], down[x])
      BY <2>2
    <3>3. ASSUME NEW d \in Handles \ {x} PROVE Replies(d, x)
      <4>1. CASE d = c
        BY <2>1, <2>2, <4>1
      <4>2. CASE d # c
        BY <1>1, <1>3, <4>2, LearnsReplies DEF SameAnswer
      <4> QED
        BY <4>1, <4>2
    <3> QED
      BY <1>1, <2>1, <3>1, <3>2, <3>3, OutcomeStays
  <2> QED
    BY <1>5, <2>1, <2>2
<1> QED
  BY <1>2, <1>4, <1>5 DEF OutcomeInv, AskedOK

\* Two callers have no answer to make to each other.
LEMMA CallersReply ==
  ASSUME Sound, NEW c \in Callers, NEW x \in Callers
  PROVE  Replies(c, x)
  BY SessionAssumption DEF Sound, PairRoles, Replies

\* The outcome of a caller's own call stays to be told when it moves itself.
LEMMA OwnOutcome ==
  ASSUME Sound, SessionInv', NEW c \in Callers, Outcome(c),
         \A d \in Handles \ {c} : Learns(d) /\ down'[d] = Fed(d) /\ eng'[d] = eng[d],
         Learns(c), down'[c] = Fed(c),
         Decided(eng[c], down[c]) => Decided(eng'[c], down[c])
  PROVE  Outcome(c)'
<1>1. PairsMeet /\ PairsMeet' /\ RegistryInv /\ PairRoles
  <2>1. RegistryInv /\ RegistryInv' /\ PairRoles
    BY DEF Sound, SessionInv, Kept
  <2> QED
    BY <2>1, PairFacts, PTL
<1>2. c \in Handles
  BY SessionAssumption
<1>3. \A d \in Handles : down[d] \in Streams
  BY Found DEF Sound
<1>4. \A d \in Handles \ {c} : Replies(d, c)
  BY <1>1, <1>3, LearnsReplies DEF SameAnswer
<1> QED
  BY <1>1, <1>2, <1>3, <1>4, OutcomeStays

\* An engine does something that needs no message of its own, and the server
\* tells everyone what it should.
LEMMA OwnSettles ==
  ASSUME Sound, AskedOK, SessionInv', NEW c \in Handles, NEW f \in Engines,
         eng' = [eng EXCEPT ![c] = f], Deliver(down), \A d \in Handles : Learns(d),
         ~f.crashed, ClientOK(c, f, down[c], conn[c], IdOf(c), PartnerOf(c)),
         ClientReady(c, f, down[c], PartnerOf(c)),
         c \in Callers /\ f.asked =>
           \/ eng[c].asked /\ (Decided(eng[c], down[c]) => Decided(f, down[c]))
           \/ Decided(f, Fed(c)),
         c \notin Callers => \A x \in Callers : Replies(c, x)
  PROVE  OutcomeInv'
<1>1. /\ eng \in [Handles -> Engines] /\ down[c] \in Streams /\ RegistryInv
      /\ down' = [h \in Handles |-> Fed(h)]
  BY Found DEF Sound, Deliver, Fed
<1>2. eng'[c] = f /\ down'[c] = Fed(c)
  BY <1>1
<1>3. \A d \in Handles \ {c} : Learns(d) /\ down'[d] = Fed(d) /\ eng'[d] = eng[d]
  BY <1>1
<1>4. ClientReady(c, eng'[c], down'[c], PartnerOf(c)')
  BY <1>1, <1>2, LearnsReady
<1>5. ASSUME c \in Callers, f.asked PROVE Outcome(c)'
  <2>1. CASE eng[c].asked /\ (Decided(eng[c], down[c]) => Decided(f, down[c]))
    <3>1. Outcome(c)
      BY <2>1 DEF AskedOK
    <3> QED
      BY <1>2, <1>3, <1>5, <2>1, <3>1, OwnOutcome
  <2>2. CASE Decided(f, Fed(c))
    BY <1>2, <2>2 DEF Outcome
  <2> QED
    BY <1>5, <2>1, <2>2
<1>6. \A x \in Callers \ {c} : Replies(c, x)
  BY CallersReply
<1> QED
  BY <1>2, <1>3, <1>4, <1>5, <1>6, OneSettles

\* The server has nothing to do with it.
LEMMA AloneSettles ==
  ASSUME Sound, AskedOK, SessionInv', NEW c \in Handles, NEW f \in Engines,
         eng' = [eng EXCEPT ![c] = f], ServerIdle, Deliver(down) \/ down' = down,
         ~f.crashed, ClientOK(c, f, down[c], conn[c], IdOf(c), PartnerOf(c)),
         ClientReady(c, f, down[c], PartnerOf(c)),
         c \in Callers /\ f.asked =>
           \/ eng[c].asked /\ (Decided(eng[c], down[c]) => Decided(f, down[c]))
           \/ Decided(f, down[c]),
         c \notin Callers =>
           SameAnswer(eng[c], f) \/ \A x \in Callers : Replies(c, x)
  PROVE  OutcomeInv'
<1>1. /\ \A d \in Handles : down[d] \in Streams
      /\ RegistryInv /\ down \in [Handles -> Streams] /\ eng \in [Handles -> Engines]
  BY Found DEF Sound
<1>2. \A d \in Handles : Learns(d) /\ Fed(d) = down[d]
  BY <1>1, IdleLearns
<1>3. Deliver(down) /\ down'[c] = Fed(c) /\ eng'[c] = f
  <2>1. CASE down' = down
    <3>1. down = [h \in Handles |-> down[h]]
      BY <1>1
    <3>2. [h \in Handles |-> down[h]] = [h \in Handles |-> Fed(h)]
      BY <1>2
    <3> QED
      BY <1>1, <1>2, <2>1, <3>1, <3>2 DEF Deliver, Fed
  <2>2. CASE Deliver(down)
    BY <1>1, <2>2 DEF Deliver, Fed
  <2> QED
    BY <2>1, <2>2
<1>4. ASSUME c \notin Callers PROVE \A x \in Callers : Replies(c, x)
  BY <1>1, <1>2, <1>3, <1>4, LearnsReplies
<1> QED
  BY <1>2, <1>3, <1>4, OwnSettles

\* The parts of an engine that tell how ready it is, and how its call ends.
SameReady(e, f) ==
  /\ f.peer_id = e.peer_id /\ f.signed_in = e.signed_in /\ f.jobs = e.jobs
  /\ f.asked => e.asked
  /\ f.pc = e.pc \/ (f.pc.sig = e.pc.sig /\ f.pc.remote = e.pc.remote /\ e.pc # NoPc)

\* An engine that only changes in other parts is as ready, and its call as decided.
LEMMA ReadySame ==
  ASSUME Sound, NEW c \in Handles, NEW f, SameReady(eng[c], f)
  PROVE  /\ ClientReady(c, f, down[c], PartnerOf(c))
         /\ SameAnswer(eng[c], f)
         /\ \A s : Decided(eng[c], s) => Decided(f, s)
<1>1. Negotiated(f.pc) <=> Negotiated(eng[c].pc)
  BY DEF Negotiated, SameReady
<1>2. f.peer_id = NoId => f.pc = NoPc
  BY FoundReady DEF SameReady
<1>3. CASE c \in Callers
  <2>1. CallerReady(f, down[c])
    BY <1>1, <1>3, FoundReady DEF CallerReady, SameReady
  <2> QED
    BY <1>1, <1>2, <1>3, <2>1 DEF ClientReady, SameAnswer, SameReady, Decided
<1>4. CASE c \notin Callers
  <2>1. CalleeReady(f, down[c], PartnerOf(c))
    BY <1>4, FoundReady DEF CalleeReady, SameReady
  <2> QED
    BY <1>1, <1>2, <1>4, <2>1 DEF ClientReady, SameAnswer, SameReady, Decided
<1> QED
  BY <1>3, <1>4

\* An engine whose link alone has changed.
LEMMA Relinked ==
  ASSUME Sound, NEW c \in Handles, NEW link \in {"off", "connecting", "on"},
         NEW f, f = [eng[c] EXCEPT !.link = link]
  PROVE  f \in Engines /\ ~f.crashed /\ SameReady(eng[c], f)
<1>1. eng[c] \in Engines /\ ~eng[c].crashed
  BY Found, FoundReady DEF Sound
<1> QED
  BY <1>1 DEF Engines, SameReady

\* A step that tells a client nothing and leaves it its call.
LEMMA StillLearns ==
  ASSUME NEW d \in Handles, down[d] \in Streams, IdOf(d)' = IdOf(d),
         PartnerOf(d)' = PartnerOf(d), CallRelated(sent'[d]) = <<>>
  PROVE  Learns(d) /\ Fed(d) = down[d]
  BY FedFacts DEF Learns

\* ConnectToServer tells nobody anything.
LEMMA ConnectSettles ==
  ASSUME Sound, AskedOK, SessionInv', NEW c \in Handles, ConnectToServer(c)
  PROVE  OutcomeInv'
<1> DEFINE f == [eng[c] EXCEPT !.link = "connecting"]
<1>1. /\ eng' = [eng EXCEPT ![c] = f] /\ sent' = Silence
      /\ UNCHANGED <<registry, maps, down>>
  BY DEF ConnectToServer, OnOpen
<1>2. /\ \A d \in Handles : down[d] \in Streams
      /\ eng \in [Handles -> Engines] /\ RegistryInv
  BY Found DEF Sound
<1>3. f \in Engines /\ ~f.crashed /\ SameReady(eng[c], f)
  BY Relinked
<1> HIDE DEF f
<1>4. ASSUME NEW d \in Handles
      PROVE  Learns(d) /\ down'[d] = Fed(d) /\ PartnerOf(d)' = PartnerOf(d)
  <2>1. CallRelated(sent'[d]) = <<>>
    BY <1>1 DEF Silence, CallRelated
  <2>2. IdOf(d)' = IdOf(d) /\ PartnerOf(d)' = PartnerOf(d)
    BY <1>1 DEF registry, maps, IdOf, PartnerOf
  <2> QED
    BY <1>1, <1>2, <2>1, <2>2, StillLearns
<1>5. eng'[c] = f /\ \A d \in Handles \ {c} : eng'[d] = eng[d]
  BY <1>1, <1>2
<1>6. /\ ClientReady(c, f, down[c], PartnerOf(c)) /\ SameAnswer(eng[c], f)
      /\ \A s : Decided(eng[c], s) => Decided(f, s)
  BY <1>3, ReadySame
<1>7. ClientReady(c, eng'[c], down'[c], PartnerOf(c)')
  BY <1>1, <1>4, <1>5, <1>6
<1>8. ASSUME c \in Callers, eng'[c].asked PROVE Outcome(c)'
  <2>1. Outcome(c)
    BY <1>3, <1>5, <1>8 DEF AskedOK, SameReady
  <2> QED
    BY <1>4, <1>5, <1>6, <1>8, <2>1, OwnOutcome
<1>9. ASSUME NEW x \in Callers PROVE Replies(c, x)
  <2>1. CASE c \in Callers
    BY <2>1, CallersReply
  <2>2. CASE c \notin Callers
    BY <1>2, <1>4, <1>5, <1>6, LearnsReplies
  <2> QED
    BY <2>1, <2>2
<1> QED
  BY <1>4, <1>5, <1>7, <1>8, <1>9, OneSettles

\* The welcome, or the error, is the first message its reader has to read.
LEMMA RegisterSettles ==
  ASSUME Sound, AskedOK, SessionInv', NEW c \in Handles, SendRegister(c)
  PROVE  OutcomeInv'
<1> DEFINE f == [eng[c] EXCEPT !.link = "on"]
<1>1. PICK name \in Names : Register(c, name)
  BY DEF SendRegister
<1>2. /\ eng[c].link = "connecting" /\ eng' = [eng EXCEPT ![c] = f]
      /\ down' = [h \in Handles |-> Fed(h)]
  BY DEF SendRegister, Deliver, Fed
<1>3. /\ \A d \in Handles : down[d] \in Streams
      /\ eng \in [Handles -> Engines] /\ RegistryInv
      /\ conn \in [Handles -> {"none", "open"}]
      /\ IdOf(c) = NoPeer /\ PartnerOf(c) = NoPeer
      /\ LinkOK(eng[c], down[c], conn[c], IdOf(c))
  BY <1>2, Found DEF Sound, ClientOK
<1>4. f \in Engines /\ ~f.crashed /\ SameReady(eng[c], f)
  BY Relinked
<1> HIDE DEF f
<1>5. /\ PartnerOf(c)' = NoPeer
      /\ \/ CallRelated(sent'[c]) = <<ErrorMsg("name_taken")>>
         \/ \E id \in Ids : CallRelated(sent'[c]) = <<Welcome(id)>>
  BY <1>1, <1>3, RegisterServed
<1>6. PICK m \in DownMsg : /\ CallRelated(sent'[c]) = <<m>>
                           /\ m.type \in {"welcome", "error"}
  <2>1. /\ ErrorMsg("name_taken") \in DownMsg /\ ErrorMsg("name_taken").type = "error"
        /\ \A id \in Ids : Welcome(id) \in DownMsg /\ Welcome(id).type = "welcome"
    BY DEF ErrorMsg, Welcome, DownMsg
  <2> QED
    BY <1>5, <2>1
<1>7. down'[c] = Append(down[c], m)
  BY <1>2, <1>3, <1>6, FedFacts
<1>8. ASSUME NEW d \in Handles \ {c}
      PROVE  Learns(d) /\ down'[d] = Fed(d) /\ eng'[d] = eng[d]
  <2>1. Served(d) /\ CallRelated(sent'[d]) = <<>>
    BY <1>1, <1>3, RegisterServed
  <2> QED
    BY <1>2, <1>3, <2>1, Learned
<1>9. eng'[c] = f
  BY <1>2, <1>3
<1>10. /\ ClientReady(c, f, down[c], PartnerOf(c)) /\ SameAnswer(eng[c], f)
       /\ \A s : Decided(eng[c], s) => Decided(f, s)
  BY <1>4, ReadySame
<1>11. ClientReady(c, eng'[c], down'[c], PartnerOf(c)')
  BY <1>3, <1>5, <1>6, <1>7, <1>9, <1>10, ReadyAppend
<1>12. ASSUME c \in Callers, eng'[c].asked PROVE Outcome(c)'
  <2>1. Outcome(c)
    BY <1>4, <1>9, <1>12 DEF AskedOK, SameReady
  <2>2. Decided(f, down[c])
    BY <1>3, <1>10, <2>1 DEF Outcome, Awaited
  <2>3. down[c] = <<>>
    BY <1>2, <1>3 DEF LinkOK
  <2>4. Decided(f, down'[c])
    BY <2>2, <2>3 DEF Decided
  <2> QED
    BY <1>9, <2>4 DEF Outcome
<1>13. \A x \in Callers \ {c} : Replies(c, x)
  BY <1>3 DEF Replies
<1> QED
  BY <1>5, <1>8, <1>11, <1>12, <1>13, OneSettles

\* A client stays ready when it loses its connection, and with it the messages
\* still on their way.
LEMMA ReadyCut ==
  ASSUME NEW c, NEW e, NEW s \in Streams, NEW p, ClientReady(c, e, s, p),
         NEW k \in 0 .. Len(s)
  PROVE  ClientReady(c, e, Append(SubSeq(s, 1, k), Disconnected), NoPeer)
<1> DEFINE t == SubSeq(s, 1, k)
           met == NoPeer + 1
<1>1. /\ t \in Streams /\ Len(t) = k /\ k \in Nat /\ Len(s) \in Nat
      /\ \A i \in 1 .. k : t[i] = s[i]
  BY DEF Streams
<1>2. None(s, "answer") => None(t, "answer")
  BY NoneFacts
<1>3. Disconnected \in DownMsg /\ Disconnected.type = "disconnected" /\ met # NoPeer
  BY DEF Disconnected, DownMsg, NoPeer
<1> HIDE DEF t, met
<1>4. ASSUME c \in Callers PROVE ClientReady(c, e, t, met)
  <2>1. CallerReady(e, t)
    BY <1>2, <1>4 DEF ClientReady, CallerReady
  <2> QED
    BY <1>4, <2>1 DEF ClientReady
<1>5. ASSUME c \notin Callers PROVE ClientReady(c, e, t, met)
  <2>1. CalleeReady(e, s, p)
    BY <1>5 DEF ClientReady
  <2>2. ASSUME NEW i \in 1 .. k, t[i].type = "call"
        PROVE  t[i].body.kind = "offer" /\ Rests(t, e.peer_id, i - 1)
    <3>1. s[i].body.kind = "offer" /\ Rests(s, e.peer_id, i - 1)
      BY <1>1, <2>1, <2>2 DEF CalleeReady
    <3>2. i - 1 \in Nat /\ \A j \in 1 .. i - 1 : t[j] = s[j]
      BY <1>1
    <3> QED
      BY <1>1, <2>2, <3>1, <3>2, RestsPrefix
  <2>3. CalleeReady(e, t, met)
    BY <1>1, <1>2, <1>3, <2>1, <2>2 DEF CalleeReady
  <2> QED
    BY <1>5, <2>3 DEF ClientReady
<1>6. ClientReady(c, e, Append(t, Disconnected), NoPeer)
  BY <1>1, <1>3, <1>4, <1>5, ReadyAppend
<1> QED
  BY <1>6 DEF t

\* Disconnect tells the client itself what became of its call.
LEMMA DisconnectSettles ==
  ASSUME Sound, AskedOK, SessionInv', NEW c \in Handles, Disconnect(c)
  PROVE  OutcomeInv'
<1> DEFINE f == [eng[c] EXCEPT !.link = "off"]
<1>1. OnClose(c) /\ eng' = [eng EXCEPT ![c] = f]
  BY DEF Disconnect
<1>2. PICK k \in 0 .. Len(down[c]) :
        Deliver([down EXCEPT ![c] = Append(SubSeq(@, 1, k), [type |-> "disconnected"])])
  BY DEF Disconnect
<1> DEFINE r == SubSeq(down[c], 1, k)
           t == Append(r, Disconnected)
<1>3. /\ \A d \in Handles : down[d] \in Streams
      /\ eng \in [Handles -> Engines] /\ RegistryInv
      /\ conn \in [Handles -> {"none", "open"}]
      /\ down \in [Handles -> Streams]
  BY Found DEF Sound
<1>4. f \in Engines /\ ~f.crashed /\ SameReady(eng[c], f)
  BY Relinked
<1>5. /\ Len(r) \in Nat /\ Len(t) = Len(r) + 1 /\ t[Len(r) + 1] = Disconnected
      /\ t \in Streams /\ Disconnected.type = "disconnected"
  <2>1. r \in Streams
    BY <1>3, StreamCut DEF Streams
  <2>2. Disconnected \in DownMsg /\ Disconnected.type = "disconnected"
    BY DEF Disconnected, DownMsg
  <2> QED
    BY <2>1, <2>2, AppendFacts
<1>6. PartnerOf(c)' = NoPeer /\ CallRelated(sent'[c]) = <<>>
  BY <1>1, <1>3, CloseServed
<1>7. down' = [h \in Handles |->
                 [down EXCEPT ![c] = t][h] \o CallRelated(sent'[h])]
  BY <1>2 DEF Deliver, Disconnected
<1>8. ClientReady(c, f, down[c], PartnerOf(c)) /\ SameAnswer(eng[c], f)
  BY <1>4, ReadySame
<1>9. ClientReady(c, f, t, NoPeer)
  BY <1>3, <1>8, ReadyCut
<1> HIDE DEF f, r, t
<1>10. ASSUME NEW d \in Handles \ {c}
       PROVE  Learns(d) /\ down'[d] = Fed(d) /\ eng'[d] = eng[d]
  <2>1. Served(d) /\ Gets(d, {"peer_gone"})
    BY <1>1, <1>3, CloseServed
  <2>2. down'[d] = Fed(d)
    BY <1>3, <1>7 DEF Fed
  <2> QED
    BY <1>1, <1>3, <2>1, <2>2, PlainLearns
<1>11. eng'[c] = f /\ down'[c] = t
  <2>1. down'[c] = t \o <<>>
    BY <1>3, <1>6, <1>7
  <2> QED
    BY <1>1, <1>3, <1>5, <2>1, ConcatEmptySeq DEF Streams
<1>12. Outcome(c)'
  <2>1. Len(r) + 1 \in 1 .. Len(t) /\ t[Len(r) + 1].type \in Verdicts
    BY <1>5 DEF Verdicts
  <2>2. Decided(f, t)
    BY <2>1 DEF Decided
  <2> QED
    BY <1>11, <2>2 DEF Outcome
<1>13. \A x \in Callers \ {c} : Replies(c, x)
  BY <1>6 DEF Replies
<1> QED
  BY <1>6, <1>9, <1>10, <1>11, <1>12, <1>13, OneSettles

\* A leave tells everyone in the call that it ends.
LEMMA CmdLeaveSettles ==
  ASSUME Sound, AskedOK, SessionInv', NEW c \in Handles, CmdLeave(c)
  PROVE  OutcomeInv'
<1>1. /\ eng' = [eng EXCEPT ![c] = eng[c]] /\ Deliver(down)
      /\ Leave(c) \/ ServerIdle
  BY DEF CmdLeave, EngineStep, ViaLink
<1>2. /\ \A d \in Handles : down[d] \in Streams
      /\ eng \in [Handles -> Engines] /\ RegistryInv
      /\ conn \in [Handles -> {"none", "open"}]
      /\ ClientOK(c, eng[c], down[c], conn[c], IdOf(c), PartnerOf(c))
  BY Found DEF Sound
<1>3. /\ ~eng[c].crashed /\ eng[c] \in Engines
      /\ ClientReady(c, eng[c], down[c], PartnerOf(c))
  BY <1>2, FoundReady
<1>4. CASE Leave(c)
  <2>1. ASSUME NEW d \in Handles PROVE Learns(d)
    <3>1. Served(d) /\ Gets(d, {"leave"})
      BY <1>2, <1>4, LeaveServed
    <3> QED
      BY <1>2, <3>1, PlainLearns
  <2>2. down'[c] = Fed(c) /\ eng'[c] = eng[c]
    BY <1>1, <1>2 DEF Deliver, Fed
  <2>3. ASSUME NEW x \in Callers PROVE Replies(c, x)
    BY <1>2, <2>1, <2>2, LearnsReplies DEF SameAnswer
  <2>4. eng[c].asked => eng[c].asked
    OBVIOUS
  <2> QED
    BY <1>1, <1>2, <1>3, <2>1, <2>3, OwnSettles
<1>5. CASE ServerIdle
  <2>1. SameAnswer(eng[c], eng[c])
    BY DEF SameAnswer
  <2> QED
    BY <1>1, <1>2, <1>3, <1>5, <2>1, AloneSettles
<1> QED
  BY <1>1, <1>4, <1>5

\* Neither does a candidate tell the outcome of a call, nor take it away.
LEMMA CandidateSettles ==
  ASSUME Sound, AskedOK, SessionInv', NEW c \in Handles, OnIceCandidate(c)
  PROVE  OutcomeInv'
<1> DEFINE pc == [eng[c].pc EXCEPT !.gather = FALSE]
           f == [eng[c] EXCEPT !.pc = pc]
<1>1. /\ eng' = [eng EXCEPT ![c] = f] /\ Deliver(down) /\ eng[c].pc.gather
      /\ \/ Relay(c, "candidate", eng[c].peer_id, Candidate)
         \/ ServerIdle
  BY DEF OnIceCandidate, EngineStep, ViaLink
<1>2. /\ \A d \in Handles : down[d] \in Streams
      /\ eng[c] \in Engines /\ RegistryInv /\ eng \in [Handles -> Engines]
      /\ conn \in [Handles -> {"none", "open"}]
      /\ ClientOK(c, eng[c], down[c], conn[c], IdOf(c), PartnerOf(c))
      /\ ~eng[c].crashed
  BY Found, FoundReady DEF Sound
<1>3. /\ pc \in PeerConnections /\ pc.sig = eng[c].pc.sig
      /\ pc.remote = eng[c].pc.remote /\ eng[c].pc # NoPc
  BY <1>1, <1>2 DEF Engines, PeerConnections, NoPc, FreshPc
<1> HIDE DEF pc
<1>4. /\ f \in Engines /\ ~f.crashed /\ SameReady(eng[c], f) /\ SameCall(eng[c], f)
      /\ f.jobs = eng[c].jobs /\ f.asked = eng[c].asked
  BY <1>2, <1>3 DEF Engines, SameReady, SameCall
<1> HIDE DEF f
<1>5. ClientOK(c, f, down[c], conn[c], IdOf(c), PartnerOf(c))
  BY <1>2, <1>4, SameClient
<1>6. /\ ClientReady(c, f, down[c], PartnerOf(c)) /\ SameAnswer(eng[c], f)
      /\ \A s : Decided(eng[c], s) => Decided(f, s)
  BY <1>4, ReadySame
<1>7. CASE Relay(c, "candidate", eng[c].peer_id, Candidate)
  <2>1. PairRoles /\ "candidate" \in Partner
    BY DEF Sound, Partner
  <2>2. \A d \in Handles : Learns(d)
    BY <1>2, <1>7, <2>1, FreshTypes, RelayLearns
  <2>3. down'[c] = Fed(c) /\ eng'[c] = f
    BY <1>1, <1>2 DEF Deliver, Fed
  <2>4. \A x \in Callers : Replies(c, x)
    BY <1>2, <1>6, <2>2, <2>3, LearnsReplies
  <2> QED
    BY <1>1, <1>4, <1>5, <1>6, <2>2, <2>4, OwnSettles
<1>8. CASE ServerIdle
  BY <1>1, <1>4, <1>5, <1>6, <1>8, AloneSettles
<1> QED
  BY <1>1, <1>7, <1>8

\* OnConnectionChange tells the user how the call stands.
LEMMA ConnectionSettles ==
  ASSUME Sound, AskedOK, SessionInv', NEW c \in Handles, OnConnectionChange(c)
  PROVE  OutcomeInv'
<1> DEFINE f == Told([eng[c] EXCEPT !.is_connected = Joined(c)])
<1>1. eng' = [eng EXCEPT ![c] = f] /\ ServerIdle /\ down' = down
  BY DEF OnConnectionChange
<1>2. /\ eng[c] \in Engines /\ ~eng[c].crashed /\ Joined(c) \in BOOLEAN
      /\ ClientOK(c, eng[c], down[c], conn[c], IdOf(c), PartnerOf(c))
  BY Found, FoundReady DEF Sound, Joined, Matched
<1>3. /\ f \in Engines /\ ~f.crashed /\ SameReady(eng[c], f) /\ SameCall(eng[c], f)
      /\ f.jobs = eng[c].jobs /\ ~f.asked
  BY <1>2 DEF Engines, SameReady, SameCall, Told
<1> HIDE DEF f
<1>4. ClientOK(c, f, down[c], conn[c], IdOf(c), PartnerOf(c))
  BY <1>2, <1>3, SameClient
<1>5. ClientReady(c, f, down[c], PartnerOf(c)) /\ SameAnswer(eng[c], f)
  BY <1>3, ReadySame
<1> QED
  BY <1>1, <1>3, <1>4, <1>5, AloneSettles

\* A call command leaves the caller its offer to make, and that alone.
LEMMA CmdCallSettles ==
  ASSUME Sound, AskedOK, SessionInv', NEW c \in Handles, NEW to \in Ids, CmdCall(c, to)
  PROVE  OutcomeInv'
<1> DEFINE sdp == Sdp("offer", calls + 1)
           job == [op |-> "create_offer", sdp |-> sdp]
           e == [eng[c] EXCEPT !.peer_id = to, !.is_offerer = TRUE, !.asked = TRUE]
           f == [e EXCEPT !.pc = IF @ = NoPc THEN FreshPc ELSE @]
           g == Queue(f, "create_offer", sdp)
<1>1. /\ c \in Callers /\ ServerIdle /\ down' = down /\ MayCall(eng[c])
      /\ eng' = [eng EXCEPT ![c] = g]
  BY DEF CmdCall, Sound
<1>2. /\ eng[c] \in Engines /\ calls \in Nat /\ ~eng[c].crashed
      /\ down[c] \in Streams /\ PartnerOf(c) \in Ids \cup {NoPeer}
      /\ ClientOK(c, eng[c], down[c], conn[c], IdOf(c), PartnerOf(c))
      /\ eng[c].peer_id = NoId => eng[c].pc = NoPc
  BY Found, FoundReady DEF Sound
<1>3. eng[c].peer_id = NoId /\ eng[c].pc = NoPc
  BY <1>1, <1>2 DEF MayCall, Engines, PeerIds, NoId, Ids
<1>4. eng[c].jobs = <<>> /\ None(down[c], "call") /\ StreamOK(down[c], NoId)
  BY <1>1, <1>2, <1>3 DEF ClientOK, CallerOK, PartnerOK
<1>5. /\ sdp \in Sdps /\ sdp.kind = "offer" /\ "create_offer" \in Operations
      /\ to \in PeerIds /\ to # NoId
  BY <1>2 DEF Sdp, Sdps, Operations, PeerIds, NoId, Ids
<1>6. /\ job \in Jobs /\ job.op = "create_offer" /\ job.sdp.kind = "offer"
  BY <1>5 DEF Jobs
<1> HIDE DEF sdp
<1>7. /\ e \in Engines /\ e.pc = NoPc /\ e.peer_id = to /\ e.is_offerer
      /\ e.jobs = <<>> /\ e.signed_in /\ ~e.crashed /\ e.link = eng[c].link
      /\ e.my_id = eng[c].my_id /\ e.signed_in = eng[c].signed_in
      /\ e.crashed = eng[c].crashed
  BY <1>1, <1>2, <1>3, <1>4, <1>5 DEF Engines, MayCall
<1> HIDE DEF e
<1>8. /\ f \in Engines /\ f.pc = FreshPc /\ f.peer_id = to /\ f.is_offerer
      /\ f.jobs = <<>> /\ f.signed_in /\ ~f.crashed /\ f.link = eng[c].link
      /\ f.my_id = eng[c].my_id /\ f.signed_in = eng[c].signed_in
      /\ f.crashed = eng[c].crashed
  BY <1>7, FreshTypes DEF Engines
<1> HIDE DEF f
<1>9. g.jobs = <<job>> /\ g.jobs = Append(eng[c].jobs, job)
  BY <1>4, <1>8 DEF Queue, Engines
<1>10. g \in Engines /\ SameCall(f, g) /\ g.pc = FreshPc
  BY <1>5, <1>8, QueueFacts
<1> HIDE DEF g
<1>11. ClientOK(c, g, down[c], conn[c], IdOf(c), PartnerOf(c))
  <2>1. /\ g.link = eng[c].link /\ g.signed_in = eng[c].signed_in
        /\ g.my_id = eng[c].my_id /\ g.crashed = eng[c].crashed
        /\ g.peer_id = to /\ g.is_offerer
    BY <1>8, <1>10, Zenon DEF SameCall
  <2> QED
    BY <1>1, <1>2, <1>3, <1>9, <1>10, <2>1, StartClient DEF job
<1>12. None(down[c], "answer")
  BY <1>2, <1>4, StreamIdle DEF None, Partner
<1> HIDE DEF job
<1>13. Len(g.jobs) = 1 /\ g.jobs[1] = job
  BY <1>9
<1>14. CallerReady(g, down[c])
  <2>1. ~Negotiated(g.pc) /\ g.signed_in
    BY <1>8, <1>10 DEF Negotiated, FreshPc, SameCall
  <2> QED
    BY <1>6, <1>12, <1>13, <2>1 DEF CallerReady
<1>15. ClientReady(c, g, down[c], PartnerOf(c)) /\ ~g.crashed
  BY <1>1, <1>5, <1>8, <1>10, <1>14 DEF ClientReady, SameCall
<1>16. Decided(g, down[c])
  BY <1>6, <1>13 DEF Decided
<1> QED
  BY <1>1, <1>10, <1>11, <1>15, <1>16, AloneSettles

\* What a message does to the rest of the engine, if PeerConnections never fail.
RestedAs(e, m, f) ==
  /\ m.type \in {"welcome", "candidate", "error", "answer"} => f.pc = e.pc
  /\ f.asked => e.asked
  /\ m.type \in Ends \cup {"disconnected", "error"} => ~f.asked
  /\ m.type \in Ends \cup {"disconnected"} => f.pc = NoPc
  /\ m.type = "answer" =>
       f.jobs = Append(e.jobs, [op |-> "set_remote_answer", sdp |-> m.body])
  /\ m.type = "call" =>
       /\ f.pc = IF e.pc = NoPc THEN FreshPc ELSE e.pc
       /\ f.jobs = Append(e.jobs, [op |-> "set_remote_offer", sdp |-> m.body])

\* What handling a message leaves of the engine's call, PeerConnection and operations.
LEMMA HandledRest ==
  ASSUME ~Faults, NEW e \in Engines, NEW m \in DownMsg,
         NEW f \in Handled(e, m), ~f.crashed
  PROVE  RestedAs(e, m, f)
<1> USE DEF RestedAs
<1>1. CASE m.type = "welcome"
  <2>1. f = [e EXCEPT !.signed_in = TRUE, !.my_id = m.id]
    BY <1>1 DEF Handled
  <2> QED
    BY <1>1, <2>1 DEF Engines, Ends
<1>2. CASE m.type \in Ends \cup {"disconnected"}
  <2>1. f.pc = NoPc /\ ~f.asked
    BY <1>2 DEF Handled, Told, Closed, Engines, Ends
  <2> QED
    BY <1>2, <2>1 DEF Ends
<1>3. CASE m.type = "error"
  <2>1. f = Told(e)
    BY <1>3 DEF Handled
  <2> QED
    BY <1>3, <2>1 DEF Engines, Ends, Told
<1>4. CASE m.type = "candidate"
  <2>1. f = e
    BY <1>4 DEF Handled, NeedsPc, Crash, IdleEngine
  <2> QED
    BY <1>4, <2>1 DEF Ends
<1>5. CASE m.type = "answer"
  <2>1. f = Queue(e, "set_remote_answer", m.body)
    BY <1>5 DEF Handled, NeedsPc, Crash, IdleEngine
  <2> QED
    BY <1>5, <2>1 DEF Engines, Ends, Queue
<1>6. CASE m.type = "call"
  <2> DEFINE pc == IF e.pc = NoPc THEN FreshPc ELSE e.pc
             g == [[e EXCEPT !.peer_id = m.from, !.is_offerer = FALSE] EXCEPT !.pc = pc]
  <2>1. f = Queue(g, "set_remote_offer", m.body)
    BY <1>6 DEF Handled, Called, Engines
  <2> HIDE DEF pc
  <2>2. /\ f.pc = pc /\ f.asked = e.asked
        /\ f.jobs = Append(e.jobs, [op |-> "set_remote_offer", sdp |-> m.body])
    BY <2>1 DEF Queue, Engines
  <2> QED
    BY <1>6, <2>2 DEF pc, Ends
<1> QED
  BY <1>1, <1>2, <1>3, <1>4, <1>5, <1>6, DownMsgFacts DEF Ends

\* A caller that has handled its next message is ready for the others.
LEMMA ReceiveCaller ==
  ASSUME ~Faults, NEW c \in Callers, NEW e \in Engines, ~e.crashed,
         NEW s \in Streams, s # <<>>, NEW f \in Handled(e, Head(s)), ~f.crashed,
         NEW cn, NEW id, NEW p, ClientOK(c, e, s, cn, id, p), ClientReady(c, e, s, p)
  PROVE  ClientReady(c, f, Tail(s), p)
<1> DEFINE m == Head(s)
           t == Tail(s)
<1>1. m \in DownMsg /\ f \in Handled(e, m)
  BY TailFacts
<1>2. f \in Engines /\ HandledAs(e, m, f)
  BY <1>1, HandledFacts
<1>3. RestedAs(e, m, f)
  BY <1>1, HandledRest
<1>4. /\ None(s, "call") /\ CallerReady(e, s)
      /\ e.peer_id = NoId => e.pc = NoPc
  BY DEF ClientOK, ClientReady
<1>5. m.type # "call" /\ (None(s, "answer") => None(t, "answer") /\ m.type # "answer")
  BY <1>4, NoneFacts
<1> HIDE DEF m, t
<1>6. CASE m.type \in Ends \cup {"disconnected"}
  <2>1. f.peer_id = NoId /\ f.jobs = <<>> /\ f.pc = NoPc
    BY <1>3, <1>2, <1>6 DEF RestedAs, HandledAs
  <2> QED
    BY <2>1 DEF ClientReady, CallerReady, t
<1>7. CASE m.type \in {"welcome", "candidate", "error"}
  <2>1. /\ f.peer_id = e.peer_id /\ f.jobs = e.jobs /\ f.pc = e.pc
        /\ e.signed_in => f.signed_in
    <3>1. f.pc = e.pc
      BY <1>3, <1>7 DEF RestedAs
    <3>2. /\ f.peer_id = e.peer_id /\ f.jobs = e.jobs
          /\ e.signed_in => f.signed_in
      BY <1>2, <1>7 DEF HandledAs, Turns, Ends
    <3> QED
      BY <3>1, <3>2
  <2>2. CallerReady(f, t)
    BY <1>4, <1>5, <2>1 DEF CallerReady
  <2> QED
    BY <1>4, <2>1, <2>2 DEF ClientReady, t
<1>8. CASE m.type = "answer"
  <2>1. /\ f.peer_id = e.peer_id /\ f.pc = e.pc /\ f.signed_in = e.signed_in
        /\ f.jobs = Append(e.jobs, [op |-> "set_remote_answer", sdp |-> m.body])
    <3>1. /\ f.pc = e.pc
          /\ f.jobs = Append(e.jobs, [op |-> "set_remote_answer", sdp |-> m.body])
      BY <1>3, <1>8 DEF RestedAs
    <3>2. f.peer_id = e.peer_id /\ f.signed_in = e.signed_in
      BY <1>2, <1>8 DEF HandledAs, Turns, Ends
    <3> QED
      BY <3>1, <3>2
  <2>2. /\ Len(e.jobs) \in Nat /\ Len(f.jobs) = Len(e.jobs) + 1
        /\ f.jobs[Len(e.jobs) + 1].op = "set_remote_answer"
        /\ \A k \in 1 .. Len(e.jobs) : f.jobs[k] = e.jobs[k]
    <3>1. /\ m.body \in Sdps
          /\ [op |-> "set_remote_answer", sdp |-> m.body] \in Jobs
          /\ e.jobs \in Seq(Jobs)
      BY <1>1, <1>8, DownMsgFacts DEF Partner, Jobs, Operations, Engines
    <3> QED
      BY <2>1, <3>1
  <2>3. ASSUME NEW k \in 1 .. Len(f.jobs)
        PROVE  k \in 1 .. Len(e.jobs) \/ f.jobs[k].op = "set_remote_answer"
    BY <2>2
  <2>4. CallerReady(f, t)
    BY <1>4, <1>5, <1>8, <2>1, <2>2, <2>3 DEF CallerReady
  <2> QED
    BY <1>4, <2>1, <2>4 DEF ClientReady, t
<1> QED
  BY <1>1, <1>5, <1>6, <1>7, <1>8, DownMsgFacts DEF Ends

\* So is a callee.
LEMMA ReceiveCallee ==
  ASSUME ~Faults, NEW c, c \notin Callers, NEW e \in Engines, ~e.crashed,
         NEW s \in Streams, s # <<>>, NEW f \in Handled(e, Head(s)), ~f.crashed,
         NEW p, ClientReady(c, e, s, p)
  PROVE  ClientReady(c, f, Tail(s), p)
<1> DEFINE m == Head(s)
           t == Tail(s)
           n == Len(s)
<1>1. /\ m \in DownMsg /\ f \in Handled(e, m) /\ n \in Nat \ {0}
      /\ Len(t) = n - 1 /\ \A i \in 1 .. n - 1 : t[i] = s[i + 1]
  BY TailFacts
<1>2. f \in Engines /\ HandledAs(e, m, f)
  BY <1>1, HandledFacts
<1>3. RestedAs(e, m, f)
  BY <1>1, HandledRest
<1>4. CalleeReady(e, s, p) /\ (e.peer_id = NoId => e.pc = NoPc)
  BY DEF ClientReady
<1>5. None(t, "answer") /\ m.type # "answer"
  BY <1>4, NoneFacts DEF CalleeReady
<1>6. ASSUME NEW k \in 1 .. n, Rests(s, e.peer_id, k)
      PROVE  Rests(t, f.peer_id, k - 1)
  <2>1. /\ m.type \notin Turns => f.peer_id = e.peer_id
        /\ m.type \in Ends \cup {"disconnected"} => f.peer_id = NoId
    BY <1>2 DEF HandledAs
  <2> QED
    BY <1>6, <2>1, RestsTail
<1>7. n = Len(s)
  OBVIOUS
<1> HIDE DEF m, t, n
<1>8. f.peer_id = NoId => f.jobs = <<>> /\ f.pc = NoPc
  <2>1. CASE m.type \in Ends \cup {"disconnected"}
    BY <1>3, <1>2, <2>1 DEF RestedAs, HandledAs
  <2>2. CASE m.type \in {"welcome", "candidate", "error"}
    <3>1. f.peer_id = e.peer_id /\ f.jobs = e.jobs
      BY <1>2, <2>2 DEF HandledAs, Turns, Ends
    <3>2. f.pc = e.pc
      BY <1>3, <2>2 DEF RestedAs
    <3> QED
      BY <1>4, <3>1, <3>2 DEF CalleeReady
  <2>3. CASE m.type = "call"
    <3>1. f.peer_id = m.from /\ m.from \in Ids /\ NoId \notin Ids
      BY <1>1, <1>2, <2>3, DownMsgFacts DEF HandledAs, NoId, Ids
    <3> QED
      BY <3>1
  <2> QED
    BY <1>1, <1>5, <2>1, <2>2, <2>3, DownMsgFacts DEF Ends
<1>9. p = NoPeer => Rests(t, f.peer_id, Len(t))
  BY <1>1, <1>4, <1>6, <1>7 DEF CalleeReady
<1>10. ASSUME NEW k \in 1 .. Len(t), t[k].type = "call"
      PROVE  t[k].body.kind = "offer" /\ Rests(t, f.peer_id, k - 1)
  <2>1. k + 1 \in 1 .. Len(s) /\ k \in 1 .. n /\ (k + 1) - 1 = k /\ t[k] = s[k + 1]
    BY <1>1, <1>7
  <2>2. s[k + 1].body.kind = "offer" /\ Rests(s, e.peer_id, k)
    BY <1>4, <1>10, <2>1 DEF CalleeReady
  <2> QED
    BY <1>6, <2>1, <2>2
<1>11. ~f.asked
  BY <1>3, <1>4 DEF RestedAs, CalleeReady
<1>12. CalleeReady(f, t, p)
  BY <1>5, <1>8, <1>9, <1>10, <1>11 DEF CalleeReady
<1> QED
  BY <1>8, <1>12 DEF ClientReady, t

\* The call command of a caller stays decided until an event tells it.
LEMMA ReceiveDecided ==
  ASSUME ~Faults, NEW e \in Engines, ~e.crashed,
         NEW s \in Streams, s # <<>>, None(s, "call"),
         NEW f \in Handled(e, Head(s)), ~f.crashed, f.asked, Decided(e, s)
  PROVE  Decided(f, Tail(s))
<1> DEFINE m == Head(s)
           t == Tail(s)
           n == Len(s)
<1>1. /\ m \in DownMsg /\ m = s[1] /\ f \in Handled(e, m) /\ n \in Nat \ {0}
      /\ Len(t) = n - 1 /\ \A i \in 2 .. n : s[i] = t[i - 1]
  BY TailFacts
<1>2. f \in Engines /\ HandledAs(e, m, f) /\ RestedAs(e, m, f)
  BY <1>1, HandledFacts, HandledRest
<1>3. m.type # "call"
  BY NoneFacts
<1>4. n = Len(s)
  OBVIOUS
<1> HIDE DEF m, t, n
<1>5. m.type \in {"welcome", "candidate", "answer"}
  BY <1>1, <1>2, <1>3, DownMsgFacts DEF RestedAs, Ends
<1>6. CASE m.type = "answer"
  <2>1. /\ f.jobs = Append(e.jobs, [op |-> "set_remote_answer", sdp |-> m.body])
        /\ e.jobs \in Seq(Jobs)
    BY <1>2, <1>6 DEF RestedAs, Engines
  <2>2. m.body \in Sdps
    BY <1>1, <1>6, DownMsgFacts DEF Partner
  <2>3. Len(e.jobs) + 1 \in 1 .. Len(f.jobs)
        /\ f.jobs[Len(e.jobs) + 1] = [op |-> "set_remote_answer", sdp |-> m.body]
    BY <2>1, <2>2
  <2>4. f.jobs[Len(e.jobs) + 1].op = "set_remote_answer"
    BY <2>3
  <2> QED
    BY <2>3, <2>4 DEF Decided
<1>7. CASE m.type \in {"welcome", "candidate"}
  <2>1. f.jobs = e.jobs /\ f.pc = e.pc
    BY <1>2, <1>7 DEF RestedAs, HandledAs
  <2>2. ASSUME NEW k \in 1 .. n, s[k].type \in Verdicts
        PROVE  \E i \in 1 .. Len(t) : t[i].type \in Verdicts
    <3>1. k # 1
      BY <1>1, <1>7, <2>2 DEF Verdicts, Ends
    <3>2. k - 1 \in 1 .. Len(t) /\ t[k - 1] = s[k]
      BY <1>1, <3>1
    <3> QED
      BY <2>2, <3>2
  <2>3. Decided(f, t)
    BY <1>4, <2>1, <2>2 DEF Decided
  <2> QED
    BY <2>3 DEF t
<1> QED
  BY <1>5, <1>6, <1>7

\* A callee still has its answer to make, or starts to make it.
LEMMA ReceiveReplies ==
  ASSUME ~Faults, NEW c, c \notin Callers, NEW e \in Engines, ~e.crashed,
         NEW s \in Streams, s # <<>>, NEW f \in Handled(e, Head(s)), ~f.crashed,
         NEW p, ClientReady(c, e, s, p), NEW x, WillAnswer(e, s, x)
  PROVE  WillAnswer(f, Tail(s), x)
<1> DEFINE m == Head(s)
           t == Tail(s)
           n == Len(s)
<1>1. /\ m \in DownMsg /\ m = s[1] /\ f \in Handled(e, m) /\ n \in Nat \ {0}
      /\ Len(t) = n - 1
      /\ \A i \in 1 .. n - 1 : t[i] = s[i + 1]
      /\ \A i \in 2 .. n : s[i] = t[i - 1]
  BY TailFacts
<1>2. f \in Engines /\ HandledAs(e, m, f) /\ RestedAs(e, m, f)
  BY <1>1, HandledFacts, HandledRest
<1>3. CalleeReady(e, s, p) /\ (e.peer_id = NoId => e.pc = NoPc)
  BY DEF ClientReady
<1>4. m.type # "answer"
  BY <1>3, NoneFacts DEF CalleeReady
<1>5. n = Len(s)
  OBVIOUS
<1> HIDE DEF m, t, n
<1>6. ASSUME NEW k \in 0 .. n, \A j \in k + 1 .. n : s[j].type \notin Turns
      PROVE  \A j \in k .. Len(t) : j > 0 => t[j].type \notin Turns
  <2> TAKE j \in k .. Len(t)
  <2> HAVE j > 0
  <2>1. j + 1 \in k + 1 .. n /\ t[j] = s[j + 1]
    BY <1>1
  <2> QED
    BY <1>6, <2>1
<1>7. ASSUME NEW k \in 1 .. n, s[k].type = "call", s[k].from = x,
             \A j \in k + 1 .. n : s[j].type \notin Turns
      PROVE  WillAnswer(f, t, x)
  <2>1. \A j \in k .. Len(t) : t[j].type \notin Turns
    BY <1>6, <1>7
  <2>2. CASE k # 1
    <3>1. k - 1 \in 1 .. Len(t) /\ t[k - 1] = s[k] /\ (k - 1) + 1 = k
      BY <1>1, <2>2
    <3> QED
      BY <1>7, <2>1, <3>1 DEF WillAnswer
  <2>3. CASE k = 1
    <3>1. m.type = "call" /\ m.from = x /\ m.body.kind = "offer" /\ Rests(s, e.peer_id, 0)
      BY <1>1, <1>3, <1>5, <1>7, <2>3 DEF CalleeReady
    <3>2. e.peer_id = NoId /\ e.jobs = <<>> /\ e.pc = NoPc
      BY <1>3, <3>1 DEF Rests, CalleeReady
    <3>3. /\ f.peer_id = x /\ f.pc = FreshPc
          /\ f.jobs = <<[op |-> "set_remote_offer", sdp |-> m.body]>>
      BY <1>2, <3>1, <3>2 DEF HandledAs, RestedAs
    <3>4. /\ Len(f.jobs) = 1 /\ f.jobs[1].op = "set_remote_offer"
          /\ f.jobs[1].sdp.kind = "offer" /\ f.pc.sig = "stable"
      BY <3>1, <3>3, FreshTypes
    <3> QED
      BY <2>1, <2>3, <3>3, <3>4 DEF WillAnswer
  <2> QED
    BY <2>2, <2>3
<1>8. CASE \A j \in 1 .. n : s[j].type \notin Turns
  <2>1. m.type \in {"welcome", "candidate", "error"}
    BY <1>1, <1>4, <1>8, DownMsgFacts DEF Turns, Ends
  <2>2. /\ f.peer_id = e.peer_id /\ f.jobs = e.jobs
    BY <1>2, <2>1 DEF HandledAs, Turns, Ends
  <2>3. f.pc = e.pc
    BY <1>2, <2>1 DEF RestedAs
  <2>4. \A j \in 1 .. Len(t) : t[j].type \notin Turns
    <3>1. 0 \in 0 .. n /\ \A j \in 0 + 1 .. n : s[j].type \notin Turns
      BY <1>1, <1>8
    <3>2. \A j \in 0 .. Len(t) : j > 0 => t[j].type \notin Turns
      BY <1>6, <3>1
    <3> QED
      BY <3>2
  <2> QED
    BY <1>5, <1>7, <1>8, <2>2, <2>3, <2>4 DEF WillAnswer, t
<1>9. CASE ~(\A j \in 1 .. n : s[j].type \notin Turns)
  BY <1>5, <1>7, <1>9 DEF WillAnswer, t
<1> QED
  BY <1>8, <1>9

\* A message handled: an event told of the outcome, or it is yet to come.
LEMMA ReceiveSettles ==
  ASSUME Sound, AskedOK, SessionInv', PcsKept', NEW c \in Handles, Receive(c)
  PROVE  OutcomeInv'
<1>1. PICK f \in Handled(eng[c], Head(down[c])) : eng' = [eng EXCEPT ![c] = f]
  BY DEF Receive
<1>2. /\ ~Faults /\ down[c] # <<>> /\ ServerIdle
      /\ down' = [down EXCEPT ![c] = Tail(down[c])]
  BY DEF Receive, Sound
<1>3. /\ \A d \in Handles : down[d] \in Streams
      /\ eng[c] \in Engines /\ RegistryInv /\ eng \in [Handles -> Engines]
      /\ down \in [Handles -> Streams] /\ ~eng[c].crashed
      /\ ClientOK(c, eng[c], down[c], conn[c], IdOf(c), PartnerOf(c))
      /\ ClientReady(c, eng[c], down[c], PartnerOf(c)) /\ PairRoles
  BY Found, FoundReady DEF Sound
<1>4. eng'[c] = f /\ down'[c] = Tail(down[c])
  BY <1>1, <1>2, <1>3
<1>5. ~f.crashed
  BY <1>2, <1>4 DEF PcsKept
<1>6. ASSUME NEW d \in Handles
      PROVE  /\ Learns(d) /\ PartnerOf(d)' = PartnerOf(d) /\ IdOf(d)' = IdOf(d)
             /\ d # c => down'[d] = Fed(d) /\ eng'[d] = eng[d] /\ down'[d] = down[d]
  <2>1. Learns(d) /\ Fed(d) = down[d] /\ PartnerOf(d)' = PartnerOf(d)
    BY <1>2, <1>3, IdleLearns
  <2>2. IdOf(d)' = IdOf(d)
    BY <2>1 DEF Learns
  <2> QED
    BY <1>1, <1>2, <1>3, <2>1, <2>2
<1>7. ClientReady(c, eng'[c], down'[c], PartnerOf(c)')
  <2>1. CASE c \in Callers
    BY <1>2, <1>3, <1>4, <1>5, <1>6, <2>1, ReceiveCaller
  <2>2. CASE c \notin Callers
    BY <1>2, <1>3, <1>4, <1>5, <1>6, <2>2, ReceiveCallee
  <2> QED
    BY <2>1, <2>2
<1>8. ASSUME c \in Callers, eng'[c].asked PROVE Outcome(c)'
  <2>1. eng[c].asked
    <3>1. Head(down[c]) \in DownMsg
      BY <1>2, <1>3, TailFacts
    <3>2. RestedAs(eng[c], Head(down[c]), f)
      BY <1>2, <1>3, <1>5, <3>1, HandledRest
    <3> QED
      BY <1>4, <1>8, <3>2 DEF RestedAs
  <2>2. Outcome(c)
    BY <2>1 DEF AskedOK
  <2>3. CASE Decided(eng[c], down[c])
    <3>1. None(down[c], "call")
      BY <1>3, <1>8 DEF ClientOK
    <3>2. Decided(f, Tail(down[c]))
      BY <1>2, <1>3, <1>4, <1>5, <1>8, <2>3, <3>1, ReceiveDecided
    <3> QED
      BY <1>4, <3>2 DEF Outcome
  <2>4. ASSUME NEW d \in Handles, IdOf(d) # NoPeer, IdOf(d) = PartnerOf(c),
               WillAnswer(eng[d], down[d], IdOf(c))
        PROVE  Outcome(c)'
    <3>1. d # c
      BY <1>3, <1>8, <2>4 DEF PairRoles
    <3>2. /\ IdOf(d)' # NoPeer /\ IdOf(d)' = PartnerOf(c)'
          /\ WillAnswer(eng'[d], down'[d], IdOf(c)')
      BY <1>6, <2>4, <3>1
    <3>3. Awaited(c)'
      BY <3>2 DEF Awaited
    <3> QED
      BY <3>3 DEF Outcome
  <2> QED
    BY <2>2, <2>3, <2>4 DEF Outcome, Awaited
<1>9. ASSUME NEW x \in Callers \ {c} PROVE Replies(c, x)
  <2>1. CASE c \in Callers
    BY <1>9, <2>1, CallersReply
  <2>2. CASE c \notin Callers
    BY <1>2, <1>3, <1>4, <1>5, <2>2, ReceiveReplies DEF Replies
  <2> QED
    BY <2>1, <2>2
<1> QED
  BY <1>6, <1>7, <1>8, <1>9, OneSettles

\* The answer of one end of a call is in the stream to the other.
LEMMA RelayAnswers ==
  ASSUME RegistryInv, conn \in [Handles -> {"none", "open"}],
         NEW c \in Handles, NEW x \in Handles, NEW body \in Sdps,
         IdOf(x) # NoPeer, PartnerOf(c) = IdOf(x), down[x] \in Streams,
         Relay(c, "answer", IdOf(x), body)
  PROVE  \E k \in 1 .. Len(Fed(x)) : Fed(x)[k].type = "answer"
<1> DEFINE to == IdOf(x)
           m == Stamped("answer", hdl_to_id[c], body)
           hs == {id_to_hdl[i] : i \in {to} \cap DOMAIN id_to_hdl}
<1>1. /\ c \in DOMAIN hdl_to_id /\ hdl_to_id[c] \in Ids
      /\ hdl_to_id[c] \in DOMAIN members /\ members[hdl_to_id[c]].peer_id = to
      /\ x \in DOMAIN hdl_to_id /\ to \in DOMAIN members /\ conn[x] = "open"
      /\ id_to_hdl[to] = x
  BY IdFacts
<1>2. IsPaired(members, hdl_to_id[c], to)
  BY <1>1 DEF RegistryInv, OneToOne
<1>3. sent' = Send(hs, m)
  BY <1>1, <1>2 DEF Relay, Relayed, SendTo
<1>4. m \in DownMsg /\ m.type = "answer" /\ m.type # "roster"
  BY <1>1 DEF Stamped, DownMsg
<1>5. x \in hs
  BY <1>1 DEF RegistryInv, MapsConsistent
<1> HIDE DEF m, hs
<1>6. CallRelated(sent'[x]) = <<m>>
  BY <1>1, <1>3, <1>4, <1>5, GivenAt
<1>7. Fed(x) = Append(down[x], m)
  BY <1>4, <1>6, FedFacts
<1>8. Len(down[x]) + 1 \in 1 .. Len(Fed(x)) /\ Fed(x)[Len(down[x]) + 1] = m
  BY <1>4, <1>7, AppendFacts
<1> QED
  BY <1>4, <1>8

\* A callee stays ready whatever it does with its operations.
LEMMA CalleeRuns ==
  ASSUME Sound, NEW c \in Handles, c \notin Callers, eng[c].jobs # <<>>,
         NEW f, f.peer_id = eng[c].peer_id, ~f.asked
  PROVE  ClientReady(c, f, down[c], PartnerOf(c))
<1>1. CalleeReady(eng[c], down[c], PartnerOf(c))
  BY FoundReady
<1>2. f.peer_id # NoId
  BY <1>1 DEF CalleeReady
<1>3. CalleeReady(f, down[c], PartnerOf(c))
  BY <1>1, <1>2 DEF CalleeReady
<1> QED
  BY <1>2, <1>3 DEF ClientReady

\* A callee whose operation is not one of those its answer takes has yet to
\* read the call it will answer.
LEMMA OtherOperation ==
  ASSUME NEW e, NEW f, NEW s, NEW i, WillAnswer(e, s, i),
         \/ e.jobs[1].op \notin {"create_answer", "set_remote_offer"}
         \/ e.jobs[1].op = "create_answer" /\ e.pc.sig # "have_remote_offer"
  PROVE  WillAnswer(f, s, i)
<1>1. \E k \in 1 .. Len(s) : /\ s[k].type = "call" /\ s[k].from = i
                             /\ \A j \in k + 1 .. Len(s) : s[j].type \notin Turns
  BY DEF WillAnswer
<1> QED
  BY <1>1 DEF WillAnswer

\* A callee creates its answer: it reaches the caller that waits for it.
LEMMA AnswerSettles ==
  ASSUME Sound, AskedOK, SessionInv', NEW c \in Handles, c \notin Callers,
         eng[c].jobs # <<>>, NEW e \in Engines, e = [eng[c] EXCEPT !.jobs = Tail(@)],
         NEW job \in Jobs, job = Head(eng[c].jobs), job.op = "create_answer",
         Deliver(down), CreateSucceeds(c, e, job)
  PROVE  OutcomeInv'
<1> DEFINE sdp == Created(e.pc, job)
           f == Queue(e, "set_local", sdp)
<1>1. /\ ~eng[c].crashed /\ SessionInv /\ PairRoles /\ RegistryInv
      /\ \A d \in Handles : down[d] \in Streams
      /\ eng[c] \in Engines /\ eng \in [Handles -> Engines]
      /\ conn \in [Handles -> {"none", "open"}]
      /\ ~eng[c].asked
  BY Found, FoundReady DEF Sound, CalleeReady
<1>2. /\ ClientOK(c, e, down[c], conn[c], IdOf(c), PartnerOf(c))
      /\ ~e.crashed /\ e.link = eng[c].link /\ e.peer_id = eng[c].peer_id
      /\ ~e.is_offerer
  BY <1>1, JobTaken
<1>3. sdp \in Sdps
  BY DEF Created, Sdp, Sdps, Jobs, Engines, PeerConnections
<1>4. /\ eng' = [eng EXCEPT ![c] = f]
      /\ \/ Relay(c, "answer", e.peer_id, sdp)
         \/ eng[c].link # "on" /\ ServerIdle
  BY <1>2 DEF CreateSucceeds, EngineStep, ViaLink, SendLocal
<1> HIDE DEF sdp
<1>5. "set_local" \in Operations \ {"create_offer"} /\ "set_local" \in Operations
  BY DEF Operations
<1>6. f \in Engines /\ SameCall(e, f)
  BY <1>3, <1>5, QueueFacts
<1>7. ClientOK(c, f, down[c], conn[c], IdOf(c), PartnerOf(c))
  BY <1>2, <1>3, <1>5, QueueClient
<1>8. ~f.asked /\ f.peer_id = eng[c].peer_id /\ ~f.crashed
  <2>1. ~e.asked
    BY <1>1 DEF Engines
  <2>2. ~f.asked
    BY <2>1 DEF Queue, Engines
  <2> QED
    BY <1>2, <1>6, <2>2 DEF SameCall
<1> HIDE DEF f
<1>9. ClientReady(c, f, down[c], PartnerOf(c))
  BY <1>8, CalleeRuns
<1>10. CASE eng[c].link # "on" /\ ServerIdle
  <2>1. PartnerOf(c) = NoPeer
    BY <1>1, <1>10, Found
  <2>2. \A x \in Callers : Replies(c, x)
    BY <2>1 DEF Replies
  <2> QED
    BY <1>4, <1>6, <1>7, <1>8, <1>9, <1>10, <2>2, AloneSettles
<1>11. CASE Relay(c, "answer", e.peer_id, sdp)
  <2>1. \A d \in Handles : Learns(d)
    BY <1>1, <1>3, <1>11, RelayLearns DEF Partner
  <2>2. ASSUME NEW x \in Callers PROVE Replies(c, x)
    <3>1. eng[c].jobs[1].op = "create_answer" /\ x \in Handles
      <4>1. eng[c].jobs \in Seq(Jobs)
        BY <1>1 DEF Engines
      <4> QED
        BY <4>1, SessionAssumption
    <3>2. ASSUME IdOf(x) # NoPeer, PartnerOf(c) = IdOf(x),
                 WillAnswer(eng[c], down[c], IdOf(x))
          PROVE  \/ WillAnswer(eng'[c], down[c], IdOf(x))
                 \/ \E k \in 1 .. Len(Fed(x)) : Fed(x)[k].type = "answer"
      <4>1. CASE eng[c].peer_id = IdOf(x)
        BY <1>1, <1>2, <1>3, <1>11, <3>1, <3>2, <4>1, RelayAnswers
      <4>2. CASE eng[c].peer_id # IdOf(x)
        <5>1. \E k \in 1 .. Len(down[c]) :
                /\ down[c][k].type = "call" /\ down[c][k].from = IdOf(x)
                /\ \A j \in k + 1 .. Len(down[c]) : down[c][j].type \notin Turns
          BY <3>2, <4>2 DEF WillAnswer
        <5> QED
          BY <5>1 DEF WillAnswer
      <4> QED
        BY <4>1, <4>2
    <3>3. down'[c] = Fed(c)
      BY DEF Deliver, Fed
    <3> QED
      BY <1>1, <2>1, <3>2, <3>3, KeepsReplies
  <2> QED
    BY <1>4, <1>6, <1>7, <1>8, <1>9, <2>1, <2>2, OwnSettles
<1> QED
  BY <1>4, <1>10, <1>11

\* What an operation other than the making of a description does to an engine.
DescribedAs(e, job, f) ==
  LET pc == SetTo(e.pc, job.op, job.sdp) IN
    /\ SameCall(e, f)
    /\ f.asked => e.asked
    /\ pc = NoPc => ~f.asked /\ f.jobs = e.jobs /\ f.pc = e.pc
    /\ pc # NoPc =>
         /\ f.pc = pc
         /\ f.jobs = IF job.op # "set_local" /\ ~e.is_offerer
                     THEN Append(e.jobs, [op |-> "create_answer", sdp |-> NoSdp])
                     ELSE e.jobs

\* A description is applied, or is not, and the engine goes on.
LEMMA Described ==
  ASSUME NEW c, NEW e \in Engines, NEW job \in Jobs, SetDescription(c, e, job)
  PROVE  /\ ServerIdle
         /\ \E f \in Engines : eng' = [eng EXCEPT ![c] = f] /\ DescribedAs(e, job, f)
<1> DEFINE pc == SetTo(e.pc, job.op, job.sdp)
           g == [e EXCEPT !.pc = pc]
<1>1. /\ eng' = [eng EXCEPT ![c] = IF pc = NoPc THEN Told(e) ELSE AfterSet(g, job)]
      /\ ServerIdle
  BY DEF SetDescription
<1>2. pc \in PeerConnections
  BY SetToFacts DEF Engines, Jobs
<1>3. CASE pc = NoPc
  <2>1. /\ Told(e) \in Engines /\ SameCall(e, Told(e)) /\ ~Told(e).asked
        /\ Told(e).jobs = e.jobs /\ Told(e).pc = e.pc
    BY DEF Told, Engines, SameCall
  <2>2. DescribedAs(e, job, Told(e))
    BY <1>3, <2>1 DEF DescribedAs
  <2> QED
    BY <1>1, <1>3, <2>1, <2>2
<1>4. CASE pc # NoPc
  <2> HIDE DEF pc
  <2>1. /\ g \in Engines /\ SameCall(e, g) /\ g.pc = pc /\ g.jobs = e.jobs
        /\ g.asked = e.asked /\ g.is_offerer = e.is_offerer
    BY <1>2 DEF Engines, SameCall
  <2> HIDE DEF g
  <2>2. CASE job.op # "set_local" /\ ~e.is_offerer
    <3> DEFINE f == Queue(g, "create_answer", NoSdp)
    <3>1. AfterSet(g, job) = f /\ "create_answer" \in Operations
      BY <2>1, <2>2 DEF AfterSet, Operations
    <3>2. f \in Engines /\ SameCall(g, f) /\ f.pc = g.pc
      BY <2>1, <3>1, FreshTypes, QueueFacts
    <3>3. /\ f.jobs = Append(g.jobs, [op |-> "create_answer", sdp |-> NoSdp])
          /\ f.asked = g.asked
      BY <2>1 DEF Queue, Engines
    <3> HIDE DEF f
    <3>4. SameCall(e, f)
      BY <2>1, <3>2 DEF SameCall
    <3>5. f.asked => e.asked
      BY <2>1, <3>3
    <3>6. DescribedAs(e, job, f)
      BY <1>4, <2>1, <2>2, <3>2, <3>3, <3>4, <3>5 DEF DescribedAs, pc
    <3> QED
      BY <1>1, <1>4, <3>1, <3>2, <3>6
  <2>3. CASE ~(job.op # "set_local" /\ ~e.is_offerer)
    <3>1. AfterSet(g, job) = g
      BY <2>1, <2>3 DEF AfterSet
    <3>2. g.asked => e.asked
      BY <2>1
    <3>3. DescribedAs(e, job, g)
      BY <1>4, <2>1, <2>3, <3>2 DEF DescribedAs, pc
    <3> QED
      BY <1>1, <1>4, <2>1, <3>1, <3>3
  <2> QED
    BY <2>2, <2>3
<1> QED
  BY <1>3, <1>4

\* An operation of a callee that is not to send an answer.
LEMMA CalleeSettles ==
  ASSUME Sound, AskedOK, SessionInv', NEW c \in Handles, c \notin Callers,
         eng[c].jobs # <<>>, NEW e \in Engines, e = [eng[c] EXCEPT !.jobs = Tail(@)],
         NEW job \in Jobs, job = Head(eng[c].jobs), Deliver(down),
         \/ job.op = "create_answer" /\ CreateFails(c, e, job)
         \/ job.op \notin {"create_offer", "create_answer"} /\ SetDescription(c, e, job)
  PROVE  OutcomeInv'
<1>1. /\ ~eng[c].crashed /\ SessionInv /\ RegistryInv /\ ~Faults
      /\ \A d \in Handles : down[d] \in Streams
      /\ eng[c] \in Engines /\ eng \in [Handles -> Engines]
      /\ eng[c].jobs \in Seq(Jobs) /\ ~eng[c].asked
  BY Found, FoundReady DEF Sound, CalleeReady, Engines
<1>2. /\ ClientOK(c, e, down[c], conn[c], IdOf(c), PartnerOf(c))
      /\ ~e.crashed /\ e.peer_id = eng[c].peer_id /\ ~e.is_offerer
  BY <1>1, JobTaken
<1>3. e.pc = eng[c].pc /\ e.jobs = Tail(eng[c].jobs) /\ eng[c].jobs[1] = job /\ ~e.asked
  BY <1>1 DEF Engines
<1>4. \A d \in Handles : Learns(d) /\ Fed(d) = down[d]
  <2>1. ServerIdle
    BY Described DEF CreateFails
  <2> QED
    BY <1>1, <2>1, IdleLearns
<1>5. PICK f \in Engines :
        /\ eng' = [eng EXCEPT ![c] = f] /\ ServerIdle /\ SameCall(e, f) /\ ~f.asked
        /\ \A i : WillAnswer(eng[c], down[c], i) => WillAnswer(f, down[c], i)
  <2>1. CASE job.op = "create_answer" /\ CreateFails(c, e, job)
    <3>1. Told(e) \in Engines /\ SameCall(e, Told(e)) /\ ~Told(e).asked
      BY DEF Told, Engines, SameCall
    <3>2. eng[c].pc.sig # "have_remote_offer"
      BY <1>1, <1>3, <2>1 DEF CreateFails, Creatable
    <3>3. \A i : WillAnswer(eng[c], down[c], i) => WillAnswer(Told(e), down[c], i)
      BY <1>3, <2>1, <3>2, OtherOperation
    <3> QED
      BY <2>1, <3>1, <3>3 DEF CreateFails
  <2>2. CASE job.op \notin {"create_offer", "create_answer"} /\ SetDescription(c, e, job)
    <3>1. PICK f \in Engines : eng' = [eng EXCEPT ![c] = f] /\ DescribedAs(e, job, f)
      BY <2>2, Described
    <3>2. ASSUME NEW i, WillAnswer(eng[c], down[c], i) PROVE WillAnswer(f, down[c], i)
      <4>1. CASE job.op # "set_remote_offer"
        BY <1>3, <2>2, <3>2, <4>1, OtherOperation
      <4>2. CASE \E k \in 1 .. Len(down[c]) :
                   /\ down[c][k].type = "call" /\ down[c][k].from = i
                   /\ \A j \in k + 1 .. Len(down[c]) : down[c][j].type \notin Turns
        BY <4>2 DEF WillAnswer
      <4>3. CASE /\ job.op = "set_remote_offer" /\ job.sdp.kind = "offer"
                 /\ eng[c].pc.sig = "stable" /\ Len(eng[c].jobs) = 1
                 /\ eng[c].peer_id = i
                 /\ \A j \in 1 .. Len(down[c]) : down[c][j].type \notin Turns
        <5>1. SetTo(e.pc, job.op, job.sdp) =
                [e.pc EXCEPT !.sig = "have_remote_offer", !.remote = job.sdp]
          BY <1>3, <4>3 DEF SetTo
        <5>2. /\ SetTo(e.pc, job.op, job.sdp).sig = "have_remote_offer"
              /\ SetTo(e.pc, job.op, job.sdp) # NoPc
          BY <5>1, FreshTypes DEF Engines, PeerConnections
        <5>3. e.jobs = <<>>
          <6>1. e.jobs \in Seq(Jobs) /\ Len(e.jobs) = 0
            BY <1>1, <1>3, <4>3
          <6> QED
            BY <6>1, EmptySeq
        <5>4. f.jobs = <<[op |-> "create_answer", sdp |-> NoSdp]>>
          <6>1. f.jobs = Append(e.jobs, [op |-> "create_answer", sdp |-> NoSdp])
            BY <1>2, <3>1, <4>3, <5>2 DEF DescribedAs
          <6> QED
            BY <5>3, <6>1
        <5>5. Len(f.jobs) = 1 /\ f.jobs[1].op = "create_answer"
          BY <5>4
        <5>6. f.peer_id = i /\ f.pc.sig = "have_remote_offer"
          BY <1>2, <3>1, <4>3, <5>2 DEF DescribedAs, SameCall
        <5> QED
          BY <4>3, <5>5, <5>6 DEF WillAnswer
      <4> QED
        BY <1>3, <3>2, <4>1, <4>2, <4>3 DEF WillAnswer
    <3>3. ServerIdle
      BY <2>2, Described
    <3> QED
      BY <1>3, <3>1, <3>2, <3>3 DEF DescribedAs
  <2> QED
    BY <2>1, <2>2
<1>6. ~f.crashed /\ f.peer_id = eng[c].peer_id /\ SameCall(e, f)
  BY <1>2, <1>5 DEF SameCall
<1>7. ClientReady(c, f, down[c], PartnerOf(c))
  BY <1>5, <1>6, CalleeRuns
<1>8. down'[c] = Fed(c) /\ eng'[c] = f
  BY <1>1, <1>5 DEF Deliver, Fed
<1>9. \A x \in Callers : Replies(c, x)
  BY <1>1, <1>4, <1>5, <1>8, KeepsReplies
<1>10. ClientReady(c, eng'[c], down'[c], PartnerOf(c)')
  BY <1>1, <1>4, <1>5, <1>7, <1>8, IdleLearns
<1>11. \A d \in Handles \ {c} : Learns(d) /\ down'[d] = Fed(d) /\ eng'[d] = eng[d]
  BY <1>1, <1>4, <1>5 DEF Deliver, Fed
<1> QED
  BY <1>4, <1>9, <1>10, <1>11, OneSettles

\* A caller's engine that applies a description.
LEMMA CallerSettles ==
  ASSUME Sound, AskedOK, SessionInv', NEW c \in Callers,
         eng[c].jobs # <<>>, NEW e \in Engines, e = [eng[c] EXCEPT !.jobs = Tail(@)],
         NEW job \in Jobs, job = Head(eng[c].jobs), Deliver(down),
         job.op \notin {"create_offer", "create_answer"}, SetDescription(c, e, job)
  PROVE  OutcomeInv'
<1>1. c \in Handles
  BY SessionAssumption
<1>2. /\ ~eng[c].crashed /\ SessionInv /\ RegistryInv
      /\ \A d \in Handles : down[d] \in Streams
      /\ eng[c] \in Engines /\ eng \in [Handles -> Engines]
      /\ eng[c].jobs \in Seq(Jobs) /\ CallerReady(eng[c], down[c])
  BY <1>1, Found, FoundReady DEF Sound, Engines
<1>3. /\ ClientOK(c, e, down[c], conn[c], IdOf(c), PartnerOf(c))
      /\ ~e.crashed /\ e.peer_id = eng[c].peer_id
      /\ e.peer_id # NoId /\ e.is_offerer
  BY <1>1, <1>2, JobTaken
<1>4. /\ e.pc = eng[c].pc /\ eng[c].jobs[1] = job /\ e.signed_in = eng[c].signed_in
      /\ e.asked => eng[c].asked
      /\ Len(eng[c].jobs) \in Nat \ {0} /\ Len(e.jobs) = Len(eng[c].jobs) - 1
      /\ \A k \in 1 .. Len(e.jobs) : e.jobs[k] = eng[c].jobs[k + 1]
      /\ \A k \in 2 .. Len(eng[c].jobs) : eng[c].jobs[k] = e.jobs[k - 1]
  <2>1. e.jobs = Tail(eng[c].jobs)
    BY <1>2 DEF Engines
  <2>2. /\ e.pc = eng[c].pc /\ e.signed_in = eng[c].signed_in
        /\ e.asked = eng[c].asked
    BY <1>2 DEF Engines
  <2> QED
    BY <1>2, <2>1, <2>2
<1>5. \A d \in Handles : Learns(d) /\ Fed(d) = down[d]
  <2>1. ServerIdle
    BY Described
  <2> QED
    BY <1>2, <2>1, IdleLearns
<1>6. PICK f \in Engines : eng' = [eng EXCEPT ![c] = f] /\ DescribedAs(e, job, f)
  BY Described
<1>7. /\ f.jobs = e.jobs /\ f.peer_id = e.peer_id /\ f.signed_in = e.signed_in
      /\ f.asked => e.asked
  BY <1>3, <1>6 DEF DescribedAs, SameCall
<1>8. ASSUME NEW k \in 1 .. Len(e.jobs) PROVE e.jobs[k].op = "set_remote_answer"
  <2>1. k + 1 \in 1 .. Len(eng[c].jobs) /\ k + 1 # 1 /\ e.jobs[k] = eng[c].jobs[k + 1]
    BY <1>4
  <2> QED
    BY <1>2, <2>1 DEF CallerReady
<1>9. CallerReady(f, down[c])
  <2>1. f.peer_id # NoId => f.signed_in
    BY <1>2, <1>3, <1>4, <1>7 DEF CallerReady
  <2> QED
    BY <1>7, <1>8, <2>1 DEF CallerReady
<1>10. ClientReady(c, f, down[c], PartnerOf(c))
  BY <1>3, <1>7, <1>9 DEF ClientReady
<1>11. ASSUME f.asked, Decided(eng[c], down[c]) PROVE Decided(f, down[c])
  <2>1. SetTo(e.pc, job.op, job.sdp) # NoPc /\ f.pc = SetTo(e.pc, job.op, job.sdp)
    BY <1>6, <1>11 DEF DescribedAs
  <2>2. CASE job.op = "set_remote_answer"
    <3>1. /\ SetTo(e.pc, job.op, job.sdp) =
               [e.pc EXCEPT !.sig = "stable", !.remote = job.sdp]
          /\ job.sdp.kind = "answer"
      BY <2>1, <2>2 DEF SetTo
    <3>2. e.pc \in PeerConnections
      BY DEF Engines
    <3>3. f.pc.sig = "stable" /\ f.pc.remote = job.sdp
      BY <2>1, <3>1, <3>2 DEF PeerConnections
    <3>4. job.sdp # NoSdp
      BY <3>1 DEF NoSdp, Sdp
    <3> QED
      BY <3>3, <3>4 DEF Decided, Negotiated
  <2>3. CASE job.op # "set_remote_answer"
    <3>1. ~Negotiated(eng[c].pc) /\ 1 \in 1 .. Len(eng[c].jobs)
      BY <1>2, <1>4, <2>3 DEF CallerReady
    <3>2. ASSUME NEW k \in 1 .. Len(eng[c].jobs),
                 eng[c].jobs[k].op \in {"create_offer", "set_remote_answer"}
          PROVE  Decided(f, down[c])
      <4>1. k # 1
        BY <1>4, <2>3, <3>2
      <4>2. k - 1 \in 1 .. Len(f.jobs) /\ f.jobs[k - 1] = eng[c].jobs[k]
        BY <1>4, <1>7, <4>1
      <4> QED
        BY <3>2, <4>2 DEF Decided
    <3> QED
      BY <1>11, <3>1, <3>2 DEF Decided
  <2> QED
    BY <2>2, <2>3
<1>12. down'[c] = Fed(c) /\ eng'[c] = f
  BY <1>1, <1>2, <1>6 DEF Deliver, Fed
<1>13. ASSUME eng'[c].asked PROVE Outcome(c)'
  <2>1. Outcome(c)
    BY <1>1, <1>4, <1>7, <1>12, <1>13 DEF AskedOK
  <2>2. \A d \in Handles \ {c} : down'[d] = Fed(d) /\ eng'[d] = eng[d]
    BY <1>2, <1>6 DEF Deliver, Fed
  <2> QED
    BY <1>5, <1>1, <1>11, <1>12, <1>13, <2>1, <2>2, OwnOutcome
<1>14. ClientReady(c, eng'[c], down'[c], PartnerOf(c)')
  <2>1. CallerReady(f, Fed(c))
    BY <1>1, <1>5, <1>9
  <2> QED
    BY <1>3, <1>7, <1>12, <2>1 DEF ClientReady
<1>15. \A d \in Handles \ {c} : Learns(d) /\ down'[d] = Fed(d) /\ eng'[d] = eng[d]
  BY <1>2, <1>5, <1>6 DEF Deliver, Fed
<1>16. \A x \in Callers \ {c} : Replies(c, x)
  BY CallersReply
<1> QED
  BY <1>1, <1>5, <1>13, <1>14, <1>15, <1>16, OneSettles

\* A caller whose connection the server does not know any more, while it
\* believes to be signed in, has the news still to read.
LEMMA GoneDecided ==
  ASSUME NEW c, NEW e, ~e.crashed, e.signed_in, NEW s \in Streams, NEW cn, NEW p,
         ClientOK(c, e, s, cn, NoPeer, p), NEW f
  PROVE  Decided(f, s)
<1>1. s # <<>> /\ s[Len(s)].type = "disconnected"
  BY DEF ClientOK, SignOK
<1>2. Len(s) \in 1 .. Len(s)
  BY <1>1 DEF Streams
<1> QED
  BY <1>1, <1>2 DEF Decided, Verdicts

\* A caller's engine makes its offer, and it goes to the server.
LEMMA OfferSettles ==
  ASSUME Sound, AskedOK, SessionInv', NEW c \in Callers,
         eng[c].jobs # <<>>, NEW e \in Engines, e = [eng[c] EXCEPT !.jobs = Tail(@)],
         NEW job \in Jobs, job = Head(eng[c].jobs), job.op = "create_offer",
         Deliver(down), CreateSucceeds(c, e, job)
  PROVE  OutcomeInv'
<1>1. c \in Handles
  BY SessionAssumption
<1> DEFINE sdp == job.sdp
           f == Queue(e, "set_local", sdp)
           to == eng[c].peer_id
<1>2. /\ ~eng[c].crashed /\ SessionInv /\ RegistryInv /\ RolesKept
      /\ \A d \in Handles : down[d] \in Streams
      /\ eng[c] \in Engines /\ eng \in [Handles -> Engines]
      /\ conn \in [Handles -> {"none", "open"}]
      /\ eng[c].jobs \in Seq(Jobs) /\ CallerReady(eng[c], down[c])
      /\ ClientOK(c, eng[c], down[c], conn[c], IdOf(c), PartnerOf(c))
  BY <1>1, Found, FoundReady DEF Sound, SessionInv, Engines
<1>3. /\ ClientOK(c, e, down[c], conn[c], IdOf(c), PartnerOf(c))
      /\ ~e.crashed /\ e.link = eng[c].link /\ e.peer_id = to
      /\ to # NoId /\ e.is_offerer
  BY <1>1, <1>2, JobTaken
<1>4. /\ eng[c].jobs[1] = job /\ 1 \in 1 .. Len(eng[c].jobs)
      /\ Len(eng[c].jobs) = 1 /\ sdp.kind = "offer" /\ sdp \in Sdps
      /\ ~Negotiated(eng[c].pc) /\ eng[c].signed_in
      /\ Unstarted(down[c], PartnerOf(c))
  <2>1. eng[c].jobs[1] = job /\ 1 \in 1 .. Len(eng[c].jobs)
    BY <1>2
  <2>2. CallerOK(eng[c], down[c], PartnerOf(c))
    BY <1>2 DEF ClientOK
  <2> QED
    BY <1>2, <1>3, <2>1, <2>2 DEF CallerReady, CallerOK, Jobs
<1>5. /\ e.pc = eng[c].pc /\ e.jobs = <<>> /\ e.signed_in = eng[c].signed_in
  <2>1. e.jobs = Tail(eng[c].jobs) /\ e.jobs \in Seq(Jobs)
    BY <1>2 DEF Engines
  <2>2. Len(e.jobs) = 0
    BY <1>2, <1>4, <2>1
  <2>3. e.jobs = <<>>
    BY <2>1, <2>2, EmptySeq
  <2> QED
    BY <1>2, <2>3 DEF Engines
<1>6. /\ eng' = [eng EXCEPT ![c] = f]
      /\ \/ eng[c].link = "on" /\ Call(c, to, sdp)
         \/ eng[c].link # "on" /\ ServerIdle
  BY <1>3 DEF CreateSucceeds, EngineStep, ViaLink, SendLocal, Created
<1> HIDE DEF sdp, to
<1>7. "set_local" \in Operations \ {"create_offer"} /\ "set_local" \in Operations
  BY DEF Operations
<1>8. f \in Engines /\ SameCall(e, f) /\ f.pc = e.pc
  <2>1. f \in Engines /\ SameCall(e, f)
    BY <1>4, <1>7, QueueFacts
  <2>2. f.pc = e.pc
    BY DEF Queue, Engines
  <2> QED
    BY <2>1, <2>2
<1>9. ClientOK(c, f, down[c], conn[c], IdOf(c), PartnerOf(c))
  BY <1>3, <1>4, <1>7, QueueClient
<1>10. f.jobs = <<[op |-> "set_local", sdp |-> sdp]>>
  <2>1. f.jobs = Append(e.jobs, [op |-> "set_local", sdp |-> sdp])
    BY DEF Queue, Engines
  <2>2. \A x : Append(<<>>, x) = <<x>>
    OBVIOUS
  <2> HIDE DEF f
  <2> QED
    BY <1>5, <2>1, <2>2
<1> HIDE DEF f
<1>11. Len(f.jobs) = 1 /\ f.jobs[1].op = "set_local"
  BY <1>10
<1>12. ~f.crashed /\ f.peer_id = to /\ f.signed_in
  BY <1>3, <1>4, <1>5, <1>8 DEF SameCall
<1>13. \A s : CallerReady(f, s)
  BY <1>4, <1>5, <1>8, <1>11, <1>12 DEF CallerReady
<1>14. \A s, p : ClientReady(c, f, s, p)
  BY <1>3, <1>12, <1>13 DEF ClientReady
<1>15. PartnerOf(c) = NoPeer
  BY <1>4 DEF Unstarted
<1>16. ASSUME IdOf(c) = NoPeer PROVE Decided(f, down[c])
  BY <1>1, <1>2, <1>4, <1>16, GoneDecided
<1>17. CASE eng[c].link # "on" /\ ServerIdle
  <2>1. IdOf(c) = NoPeer
    BY <1>1, <1>2, <1>17, Found
  <2>2. Decided(f, down[c])
    BY <1>16, <2>1
  <2> QED
    BY <1>1, <1>6, <1>8, <1>9, <1>12, <1>14, <1>17, <2>2, AloneSettles
<1>18. CASE Call(c, to, sdp)
  <2>1. CASE /\ \A d \in Handles : Learns(d)
             /\ IdOf(c) = NoPeer \/ PartnerOf(c) # NoPeer \/ Refused(c)
    <3>1. Decided(f, Fed(c))
      <4>1. CASE IdOf(c) = NoPeer
        BY <1>1, <1>2, <1>16, <2>1, <4>1, DecidedGrows
      <4>2. CASE Refused(c)
        <5>1. PICK m \in DownMsg : Fed(c) = Append(down[c], m) /\ m.type = "error"
          BY <4>2 DEF Refused
        <5>2. Len(down[c]) + 1 \in 1 .. Len(Fed(c)) /\ Fed(c)[Len(down[c]) + 1] = m
          BY <1>1, <1>2, <5>1, AppendFacts
        <5> QED
          BY <5>1, <5>2 DEF Decided, Verdicts
      <4> QED
        BY <1>15, <2>1, <4>1, <4>2
    <3> QED
      BY <1>1, <1>6, <1>8, <1>9, <1>12, <1>14, <2>1, <3>1, OwnSettles
  <2>2. ASSUME \A d \in Handles \ {c} : Learns(d), Calling(c, to),
               NEW x \in Handles \ Callers, IdOf(x) = to, Rung(x, c)
        PROVE  OutcomeInv'
    <3>1. /\ \A d \in Handles \ {c} : Learns(d) /\ down'[d] = Fed(d) /\ eng'[d] = eng[d]
          /\ eng'[c] = f
      BY <1>1, <1>2, <1>6, <2>2 DEF Deliver, Fed
    <3>2. IdOf(c)' = IdOf(c) /\ PartnerOf(c)' = to /\ x # c
      BY <2>2 DEF Calling
    <3>3. Outcome(c)'
      <4>1. PICK m \in DownMsg :
              Fed(x) = Append(down[x], m) /\ m.type = "call" /\ m.from = IdOf(c)
        BY <2>2 DEF Rung
      <4>2. /\ Len(Fed(x)) \in 1 .. Len(Fed(x)) /\ Fed(x)[Len(Fed(x))] = m
            /\ \A j \in Len(Fed(x)) + 1 .. Len(Fed(x)) : FALSE
        BY <1>2, <4>1, AppendFacts
      <4>3. WillAnswer(eng'[x], Fed(x), IdOf(c))
        BY <4>1, <4>2 DEF WillAnswer
      <4>4. IdOf(x)' = to /\ down'[x] = Fed(x)
        BY <2>2, <3>1, <3>2 DEF Learns
      <4>5. to # NoPeer
        <5>1. to \in Ids /\ NoPeer \notin Ids
          BY <1>1, <1>2, <1>3, IdFacts DEF Engines, PeerIds, to
        <5> QED
          BY <5>1
      <4>6. Awaited(c)'
        BY <3>2, <4>3, <4>4, <4>5 DEF Awaited
      <4> QED
        BY <4>6 DEF Outcome
    <3>4. \A y \in Callers \ {c} : Replies(c, y)
      BY CallersReply
    <3>5. ClientReady(c, eng'[c], down'[c], PartnerOf(c)')
      BY <1>14, <3>1
    <3> QED
      BY <1>1, <2>2, <3>1, <3>2, <3>3, <3>4, <3>5, OneSettles
  <2> QED
    BY <1>1, <1>2, <1>4, <1>18, <2>1, <2>2, CallLearns DEF to
<1> QED
  BY <1>6, <1>17, <1>18

\* A PeerConnection's next operation.
LEMMA RunJobSettles ==
  ASSUME Sound, AskedOK, SessionInv', NEW c \in Handles, RunJob(c)
  PROVE  OutcomeInv'
<1> DEFINE job == Head(eng[c].jobs)
           e == [eng[c] EXCEPT !.jobs = Tail(@)]
<1>1. /\ eng[c].jobs # <<>> /\ Deliver(down)
      /\ job.op \in {"create_offer", "create_answer"} =>
           CreateSucceeds(c, e, job) \/ CreateFails(c, e, job)
      /\ job.op \notin {"create_offer", "create_answer"} => SetDescription(c, e, job)
  BY DEF RunJob
<1>2. /\ eng[c] \in Engines /\ eng[c].jobs \in Seq(Jobs) /\ ~Faults
      /\ ClientOK(c, eng[c], down[c], conn[c], IdOf(c), PartnerOf(c))
      /\ ~eng[c].crashed
  BY Found, FoundReady DEF Sound, Engines
<1>3. /\ job \in Jobs /\ Tail(eng[c].jobs) \in Seq(Jobs)
      /\ eng[c].jobs[1] = job /\ 1 \in 1 .. Len(eng[c].jobs)
  BY <1>1, <1>2
<1>4. e \in Engines
  BY <1>2, <1>3 DEF Engines
<1>5. job = Head(eng[c].jobs) /\ e = [eng[c] EXCEPT !.jobs = Tail(@)]
  OBVIOUS
<1> HIDE DEF job, e
<1>6. CASE c \in Callers
  <2>1. job.op # "create_answer"
    BY <1>2, <1>3, <1>6 DEF ClientOK, CallerOK
  <2>2. CASE job.op = "create_offer"
    <3>1. CreateSucceeds(c, e, job)
      BY <1>1, <1>2, <2>2 DEF CreateFails, Creatable
    <3> QED
      BY <1>1, <1>3, <1>4, <1>5, <1>6, <2>2, <3>1, OfferSettles
  <2>3. CASE job.op # "create_offer"
    <3>1. job.op \notin {"create_offer", "create_answer"} /\ SetDescription(c, e, job)
      BY <1>1, <2>1, <2>3
    <3> QED
      BY <1>1, <1>3, <1>4, <1>5, <1>6, <3>1, CallerSettles
  <2> QED
    BY <2>2, <2>3
<1>7. CASE c \notin Callers
  <2>1. job.op # "create_offer"
    BY <1>2, <1>3, <1>7 DEF ClientOK, CalleeOK
  <2>2. CASE job.op = "create_answer" /\ CreateSucceeds(c, e, job)
    BY <1>1, <1>3, <1>4, <1>5, <1>7, <2>2, AnswerSettles
  <2>3. CASE job.op = "create_answer" /\ CreateFails(c, e, job)
    BY <1>1, <1>3, <1>4, <1>5, <1>7, <2>3, CalleeSettles
  <2>4. CASE job.op # "create_answer"
    <3>1. job.op \notin {"create_offer", "create_answer"} /\ SetDescription(c, e, job)
      BY <1>1, <2>1, <2>4
    <3> QED
      BY <1>1, <1>3, <1>4, <1>5, <1>7, <3>1, CalleeSettles
  <2> QED
    BY <1>1, <2>2, <2>3, <2>4
<1> QED
  BY <1>6, <1>7

-----------------------------------------------------------------------------
(* The inductive invariant of the outcome.                                 *)

\* A step that changes nothing keeps it.
LEMMA OutcomeStutters == OutcomeInv /\ UNCHANGED sessionVars => OutcomeInv'
<1> SUFFICES ASSUME OutcomeInv, UNCHANGED sessionVars PROVE OutcomeInv'
  OBVIOUS
<1>1. UNCHANGED <<members, hdl_to_id, eng, down>>
  BY DEF sessionVars, vars, registry, maps
<1>2. \A c \in Handles : IdOf(c)' = IdOf(c) /\ PartnerOf(c)' = PartnerOf(c)
  BY <1>1 DEF IdOf, PartnerOf
<1>3. PairRoles' /\ Ready'
  BY <1>1, <1>2 DEF OutcomeInv, PairRoles, Ready
<1>4. AskedOK'
  BY <1>1, <1>2 DEF OutcomeInv, AskedOK, Outcome, Awaited
<1> QED
  BY <1>3, <1>4 DEF OutcomeInv

\* Every step keeps it.
LEMMA OutcomeNext ==
  /\ ~Faults /\ SessionInv /\ PcsKept /\ OutcomeInv
  /\ [SessionNext]_sessionVars
  => OutcomeInv'
<1> SUFFICES ASSUME ~Faults, SessionInv, PcsKept, OutcomeInv,
                    [SessionNext]_sessionVars
             PROVE  OutcomeInv'
  OBVIOUS
<1>1. Sound /\ AskedOK /\ SessionInv' /\ PcsKept'
  BY SessionNextInv, PcsNext DEF Sound, OutcomeInv
<1>2. CASE SessionNext
  <2>1. PICK c \in Handles : EngineNext(c) \/ LinkNext(c)
    BY <1>2 DEF SessionNext
  <2>2. CASE LinkNext(c)
    BY <1>1, <2>2, ConnectSettles, RegisterSettles, DisconnectSettles DEF LinkNext
  <2>3. CASE EngineNext(c)
    BY <1>1, <2>3, CmdCallSettles, CmdLeaveSettles, ReceiveSettles, RunJobSettles,
       CandidateSettles, ConnectionSettles DEF EngineNext
  <2> QED
    BY <2>1, <2>2, <2>3
<1>3. CASE UNCHANGED sessionVars
  BY <1>3, OutcomeStutters
<1> QED
  BY <1>2, <1>3

\* At first nobody waits for anything.
LEMMA OutcomeInit == SessionInit => OutcomeInv
<1> SUFFICES ASSUME SessionInit PROVE OutcomeInv
  OBVIOUS
<1>1. /\ members = <<>> /\ hdl_to_id = <<>>
      /\ eng = [c \in Handles |-> IdleEngine] /\ down = [c \in Handles |-> <<>>]
  BY InitInv DEF SessionInit, Init
<1>2. DOMAIN <<>> = {} /\ Len(<<>>) = 0
  OBVIOUS
<1>3. ASSUME NEW c \in Handles
      PROVE  /\ eng[c] = IdleEngine /\ down[c] = <<>>
             /\ IdOf(c) = NoPeer /\ PartnerOf(c) = NoPeer
  BY <1>1, <1>2 DEF IdOf, PartnerOf, GetPeer, Has
<1>4. /\ ~IdleEngine.asked /\ IdleEngine.peer_id = NoId
      /\ IdleEngine.pc = NoPc /\ IdleEngine.jobs = <<>>
  BY DEF IdleEngine
<1>5. ASSUME NEW c \in Handles
      PROVE  ClientReady(c, IdleEngine, <<>>, NoPeer)
  <2>1. CallerReady(IdleEngine, <<>>)
    BY <1>2, <1>4 DEF CallerReady
  <2>2. CalleeReady(IdleEngine, <<>>, NoPeer)
    BY <1>2, <1>4 DEF CalleeReady, None, Rests
  <2> QED
    BY <1>4, <2>1, <2>2 DEF ClientReady
<1>6. PairRoles /\ Ready /\ AskedOK
  BY <1>3, <1>4, <1>5 DEF PairRoles, Ready, AskedOK
<1> QED
  BY <1>6 DEF OutcomeInv

\* Every accepted call command ends in an event that tells its outcome, if
\* creating and describing a PeerConnection never fails: once all is handled
\* no call command is left that StartCallImpl took on and whose end no
\* callback, message or error told.
THEOREM OutcomeTold == ~Faults => (SessionSpec => []CallOutcome)
<1>1. ASSUME SessionInv, OutcomeInv PROVE CallOutcome
  <2> SUFFICES ASSUME Quiescent, NEW c \in Handles, eng[c].asked PROVE FALSE
    BY DEF CallOutcome
  <2>1. \A d \in Handles : down[d] = <<>> /\ eng[d].jobs = <<>>
    BY DEF Quiescent
  <2>2. ~Negotiated(eng[c].pc)
    BY DEF Quiescent
  <2>3. Len(<<>>) = 0
    OBVIOUS
  <2>4. ~Decided(eng[c], down[c])
    BY <2>1, <2>2, <2>3 DEF Decided
  <2>5. ~Awaited(c)
    BY <2>1, <2>3 DEF Awaited, WillAnswer
  <2> QED
    BY <1>1, <2>4, <2>5 DEF OutcomeInv, AskedOK, Outcome
<1>2. CASE Faults
  BY <1>2
<1>3. CASE ~Faults
  <2>1. SessionInv /\ PcsKept /\ OutcomeInv /\ [SessionNext]_sessionVars => OutcomeInv'
    BY <1>3, OutcomeNext
  <2>2. SessionInv /\ OutcomeInv => CallOutcome
    BY <1>1
  <2> QED
    BY <2>1, <2>2, OutcomeInit, PcsInductive, SessionInductive, PTL DEF SessionSpec
<1> QED
  BY <1>2, <1>3
=============================================================================
