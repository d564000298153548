--------------------------- MODULE WsClientProofs ---------------------------
(***************************************************************************)
(* Proofs about WsClient, for any number of connections: that there is one *)
(* live connection at most, and that the engine, once it handled the       *)
(* events under way, knows the connection it has.                          *)
(*                                                                         *)
(* An event is under way in the handler that fires it, then in the queue   *)
(* of the signalling thread.  Settles(v) says that v is the id the engine  *)
(* comes to when it has handled them all; the invariant Informed is about  *)
(* that id, so that it holds in the midst of a handler too.                *)
(***************************************************************************)
EXTENDS WsClient, TLAPS

States == {"none", "connecting", "open", "closing", "gone"}
Events == [type : {"none", "SignedIn", "Disconnected", "Error"}, id : Conns \cup {None}]
Places == {"off", "loop", "register", "close", "post", "ended"}

Types ==
  /\ link \in [Conns -> States]
  /\ registered \subseteq Conns /\ welcomed \subseteq Conns
  /\ hdl_ \in Conns \cup {None}
  /\ connected_ => hdl_ \in Conns
  /\ io \in [at : Places, event : Events]
  /\ posted \in Seq(Events)
  /\ main \in {"up", "stop"} => thread

(* Unless two attempts overlapped, the one open connection is the one that *)
(* the client holds, and Connect finds none when it makes the next.        *)
Single ==
  ~overlapped =>
    /\ \A m, n \in Live : m = n
    /\ \A n \in Conns : link[n] = "open" => connected_ /\ hdl_ = n
    /\ cmd = "connect" => Live = {}

(* The register message and the welcome come after the opening.            *)
Opened ==
  /\ welcomed \subseteq registered
  /\ \A n \in registered : link[n] \notin {"none", "connecting"}

InHandler == io.at \in {"close", "post"} /\ io.event.type \in {"SignedIn", "Disconnected"}

Settles(v) ==
  \/ InHandler /\ io.event.id = v
  \/ /\ ~InHandler
     /\ \E i \in 1 .. Len(posted) :
          /\ posted[i].type # "Error" /\ posted[i].id = v
          /\ \A j \in i + 1 .. Len(posted) : posted[j].type = "Error"
  \/ /\ ~InHandler
     /\ \A i \in 1 .. Len(posted) : posted[i].type = "Error"
     /\ engine_id = v

Fires ==
  /\ io.at = "post" => io.event.type # "none"
  /\ main = "up" /\ ~running_ => io.at = "off"
  /\ io.at = "close" => io = At("close") \/ io.event = Event("Disconnected", None)

Informed ==
  ~overlapped /\ main = "up" =>
    /\ connected_ /\ hdl_ \in welcomed => my_id_ = hdl_
    /\ \A v : Settles(v) =>
         /\ v # None => connected_
         /\ connected_ /\ hdl_ \in welcomed => v = hdl_

IInv == Types /\ Single /\ Opened /\ Fires /\ Informed

-----------------------------------------------------------------------------
LEMMA IInvInit == Init => IInv
<1> SUFFICES ASSUME Init PROVE IInv
  OBVIOUS
<1> USE DEF Init, At, Holding, Event, None
<1>1. Types
  <2>1. link \in [Conns -> States]
    BY DEF States
  <2>2. io \in [at : Places, event : Events]
    BY DEF Places, Events
  <2> QED
    BY <2>1, <2>2 DEF Types
<1>2. Single /\ Opened /\ Fires
  BY DEF Single, Opened, Fires, Live
<1>3. Informed
  BY DEF Informed, Settles, InHandler
<1> QED
  BY <1>1, <1>2, <1>3 DEF IInv

(* Closing a connection opens none.                                        *)
LEMMA CloseLemma ==
  ASSUME Types, CloseCurrent
  PROVE  /\ link' \in [Conns -> States]
         /\ \A n \in Conns :
              /\ link'[n] = link[n] \/ (link[n] = "open" /\ link'[n] = "closing")
              /\ connected_ /\ hdl_ = n => link'[n] # "open"
<1>1. CASE connected_ /\ link[hdl_] = "open"
  BY <1>1 DEF Types, CloseCurrent, CloseLink, States
<1>2. CASE ~(connected_ /\ link[hdl_] = "open")
  BY <1>2 DEF Types, CloseCurrent, CloseLink
<1> QED
  BY <1>1, <1>2

LEMMA TypeStep == Types /\ [Next]_vars => Types'
<1> SUFFICES ASSUME Types, [Next]_vars PROVE Types'
  OBVIOUS
<1> USE DEF Types
<1> USE DEF wire, client, engine
<1>1. CASE ConnectBegin
  BY <1>1, CloseLemma DEF ConnectBegin
<1>2. CASE ConnectNew
  BY <1>2 DEF ConnectNew, States, At, Holding, Event, Places, Events, None
<1>3. CASE Disconnect
  BY <1>3, CloseLemma DEF Disconnect
<1>4. ASSUME NEW n \in Conns, OnOpen(n) PROVE Types'
  BY <1>4 DEF OnOpen, States, At, Holding, Event, Places, Events, None
<1>5. ASSUME NEW n \in Conns, OnFail(n) PROVE Types'
  BY <1>5 DEF OnFail, Fire, States, At, Holding, Event, Places, Events, None
<1>6. ASSUME NEW n \in Conns, OnWelcome(n) PROVE Types'
  BY <1>6 DEF OnWelcome, Fire, States, At, Holding, Event, Places, Events, None
<1>7. ASSUME NEW n \in Conns, OnClose(n) PROVE Types'
  <2>1. link' \in [Conns -> States]
    BY <1>7 DEF OnClose, States
  <2>2. io' \in [at : Places, event : Events]
    BY <1>7 DEF OnClose, At, Holding, Event, Places, Events, None
  <2>3. connected_' => connected_
    BY <1>7 DEF OnClose
  <2> QED
    BY <1>7, <2>1, <2>2, <2>3 DEF OnClose
<1>8. CASE SendRegister
  BY <1>8 DEF SendRegister, At, Holding, Event, Places, Events, None
<1>9. CASE CloseDone
  BY <1>9 DEF CloseDone, Fire, At, Holding, Event, Places, Events, None
<1>10. CASE PostTask
  <2>1. io' \in [at : Places, event : Events] /\ io.event \in Events
    BY <1>10 DEF PostTask, At, Holding, Event, Places, Events, None
  <2>2. posted' \in Seq(Events)
    BY <1>10, <2>1 DEF PostTask
  <2> QED
    BY <1>10, <2>1, <2>2 DEF PostTask
<1>11. CASE RunReturns
  BY <1>11 DEF RunReturns, At, Holding, Event, Places, Events, None
<1>12. CASE EngineTask
  BY <1>12 DEF EngineTask
<1>13. CASE Stop
  BY <1>13 DEF Stop
<1>14. CASE Reset
  BY <1>14 DEF Reset
<1>15. CASE Close
  BY <1>15, CloseLemma DEF Close
<1>16. CASE CloseStop
  BY <1>16 DEF CloseStop
<1>17. CASE Join
  BY <1>17 DEF Join
<1>18. CASE UNCHANGED vars
  BY <1>18 DEF vars
<1> QED
  BY <1>1, <1>2, <1>3, <1>4, <1>5, <1>6, <1>7, <1>8, <1>9, <1>10, <1>11,
     <1>12, <1>13, <1>14, <1>15, <1>16, <1>17, <1>18
     DEF Next, IoStep, MainStep

-----------------------------------------------------------------------------
(* A step that opens no connection, makes no attempt and begins no Connect *)
(* keeps Single.                                                           *)
LEMMA SingleKept ==
  ASSUME Types, Single, cmd' = "connect" => cmd = "connect",
         overlapped' = overlapped,
         \A n \in Conns :
           /\ link'[n] \in {"connecting", "open"} => link'[n] = link[n]
           /\ link'[n] = "open" => connected_' = connected_ /\ hdl_' = hdl_
  PROVE  Single'
<1>1. Live' \subseteq Live
  BY DEF Live
<1> QED
  BY <1>1 DEF Single

LEMMA SingleStep == Types /\ Single /\ [Next]_vars => Single'
<1> SUFFICES ASSUME Types, Single, [Next]_vars PROVE Single'
  OBVIOUS
<1> USE DEF wire, client, engine
<1>1. CASE ConnectBegin
  <2> SUFFICES ASSUME ~overlapped' PROVE Single'
    BY DEF Single
  <2>1. ~overlapped /\ \A n \in Conns : link[n] # "connecting"
    BY <1>1 DEF ConnectBegin, Pending, Types
  <2>2. \A n \in Conns : link'[n] \notin {"connecting", "open"}
    BY <1>1, <2>1, CloseLemma DEF ConnectBegin, Single
  <2> QED
    BY <2>2 DEF Single, Live
<1>2. CASE ConnectNew
  <2>1. ASSUME NEW n \in Conns, link[n] = "none",
               link' = [link EXCEPT ![n] = "connecting"]
        PROVE  Single'
    <3> SUFFICES ASSUME ~overlapped PROVE Single'
      BY <1>2 DEF ConnectNew, Single
    <3>1. Live = {}
      BY <1>2 DEF ConnectNew, Single
    <3>2. Live' = {n}
      BY <2>1, <3>1 DEF Live, Types
    <3> QED
      BY <1>2, <2>1, <3>1, <3>2 DEF ConnectNew, Single, Live, Types
  <2>2. ASSUME UNCHANGED link PROVE Single'
    BY <1>2, <2>2, SingleKept DEF ConnectNew
  <2> QED
    BY <1>2, <2>1, <2>2 DEF ConnectNew
<1>3. CASE Disconnect
  BY <1>3, CloseLemma, SingleKept DEF Disconnect
<1>4. ASSUME NEW n \in Conns, OnOpen(n) PROVE Single'
  <2>1. Live' = Live /\ n \in Live
    BY <1>4 DEF OnOpen, Live, Types
  <2>2. \A m \in Conns : link'[m] = "open" => m \in Live'
    BY DEF Live
  <2> QED
    BY <1>4, <2>1, <2>2 DEF OnOpen, Single
<1>5. ASSUME NEW n \in Conns, OnFail(n) PROVE Single'
  BY <1>5, SingleKept DEF OnFail, Types
<1>6. ASSUME NEW n \in Conns, OnWelcome(n) PROVE Single'
  BY <1>6, SingleKept DEF OnWelcome
<1>7. ASSUME NEW n \in Conns, OnClose(n) PROVE Single'
  <2>1. Live' \subseteq Live
    BY <1>7 DEF OnClose, Live, Types
  <2>2. n # hdl_ => connected_' = connected_
    BY <1>7 DEF OnClose
  <2> QED
    BY <1>7, <2>1, <2>2 DEF OnClose, Single, Types
<1>8. CASE SendRegister
  BY <1>8, SingleKept DEF SendRegister
<1>9. CASE CloseDone
  BY <1>9, SingleKept DEF CloseDone
<1>10. CASE PostTask
  BY <1>10, SingleKept DEF PostTask
<1>11. CASE RunReturns
  BY <1>11, SingleKept DEF RunReturns
<1>12. CASE EngineTask
  BY <1>12, SingleKept DEF EngineTask
<1>13. CASE Stop
  BY <1>13, SingleKept DEF Stop
<1>14. CASE Reset
  BY <1>14, SingleKept DEF Reset
<1>15. CASE Close
  BY <1>15, CloseLemma, SingleKept DEF Close
<1>16. CASE CloseStop
  BY <1>16, SingleKept DEF CloseStop
<1>17. CASE Join
  BY <1>17, SingleKept DEF Join
<1>18. CASE UNCHANGED vars
  BY <1>18, SingleKept DEF vars
<1> QED
  BY <1>1, <1>2, <1>3, <1>4, <1>5, <1>6, <1>7, <1>8, <1>9, <1>10, <1>11,
     <1>12, <1>13, <1>14, <1>15, <1>16, <1>17, <1>18
     DEF Next, IoStep, MainStep

-----------------------------------------------------------------------------
LEMMA OpenedStep == Types /\ Opened /\ Fires /\ [Next]_vars => Opened' /\ Fires'
<1> SUFFICES ASSUME Types, Opened, Fires, [Next]_vars PROVE Opened' /\ Fires'
  OBVIOUS
<1> USE DEF wire, client, engine, Opened, Fires
<1>1. CASE ConnectBegin
  BY <1>1, CloseLemma DEF ConnectBegin, Types, At, Holding
<1>2. CASE ConnectNew
  BY <1>2 DEF ConnectNew, Types, At, Holding
<1>3. CASE Disconnect
  BY <1>3, CloseLemma DEF Disconnect, Types, At, Holding
<1>4. ASSUME NEW n \in Conns, OnOpen(n) PROVE Opened' /\ Fires'
  BY <1>4 DEF OnOpen, InLoop, Types, At, Holding
<1>5. ASSUME NEW n \in Conns, OnFail(n) PROVE Opened' /\ Fires'
  BY <1>5 DEF OnFail, InLoop, Fire, Types, At, Holding, Event
<1>6. ASSUME NEW n \in Conns, OnWelcome(n) PROVE Opened' /\ Fires'
  BY <1>6 DEF OnWelcome, InLoop, Fire, Types, At, Holding, Event
<1>7. ASSUME NEW n \in Conns, OnClose(n) PROVE Opened' /\ Fires'
  BY <1>7 DEF OnClose, InLoop, Types, At, Holding
<1>8. CASE SendRegister
  BY <1>8 DEF SendRegister, Types, At, Holding
<1>9. CASE CloseDone
  BY <1>9 DEF CloseDone, Fire, Types, At, Holding, Event
<1>10. CASE PostTask
  BY <1>10 DEF PostTask, At, Holding
<1>11. CASE RunReturns
  BY <1>11 DEF RunReturns, At, Holding
<1>12. CASE EngineTask
  BY <1>12 DEF EngineTask, At, Holding
<1>13. CASE Stop \/ Reset \/ CloseStop \/ Join
  BY <1>13 DEF Stop, Reset, CloseStop, Join, At, Holding
<1>14. CASE Close
  BY <1>14, CloseLemma DEF Close, Types, At, Holding
<1>15. CASE UNCHANGED vars
  BY <1>15 DEF vars, At, Holding
<1> QED
  BY <1>1, <1>2, <1>3, <1>4, <1>5, <1>6, <1>7, <1>8, <1>9, <1>10, <1>11,
     <1>12, <1>13, <1>14, <1>15
     DEF Next, IoStep, MainStep

-----------------------------------------------------------------------------
(* A step that leaves the events under way as they are and the client's    *)
(* state of the connection.                                                *)
LEMMA InformedKept ==
  ASSUME Informed, UNCHANGED <<hdl_, connected_, my_id_, welcomed>>,
         main' = "up" => main = "up", overlapped => overlapped',
         main' = "up" => \A v : Settles(v)' => Settles(v)
  PROVE  Informed'
  BY DEF Informed

(* A step that leaves the tasks and the event in a handler's hands alone.  *)
LEMMA SameEvents ==
  ASSUME UNCHANGED <<posted, engine_id>>, InHandler' = InHandler,
         InHandler => io'.event.id = io.event.id
  PROVE  \A v : Settles(v)' => Settles(v)
  BY DEF Settles

LEMMA InformedStep ==
  Types /\ Single /\ Opened /\ Fires /\ Informed /\ [Next]_vars => Informed'
<1> SUFFICES ASSUME Types, Single, Opened, Fires, Informed, [Next]_vars
             PROVE  Informed'
  OBVIOUS
<1> USE DEF wire, client, engine
<1> USE DEF At, Holding, Event, None
<1>1. CASE ConnectBegin \/ Disconnect
  <2>1. \A v : Settles(v)' => Settles(v)
    BY <1>1, SameEvents DEF ConnectBegin, Disconnect, InHandler
  <2>2. overlapped => overlapped'
    BY <1>1 DEF ConnectBegin, Disconnect
  <2>3. UNCHANGED <<hdl_, connected_, my_id_, welcomed, main>>
    BY <1>1 DEF ConnectBegin, Disconnect
  <2> QED
    BY <2>1, <2>2, <2>3, InformedKept
<1>2. CASE ConnectNew
  <2>1. main' = "up" => InHandler' = InHandler /\ (InHandler => io' = io)
    BY <1>2 DEF ConnectNew, InHandler, Fires
  <2> QED
    BY <1>2, <2>1, SameEvents, InformedKept DEF ConnectNew, InHandler
<1>3. ASSUME NEW n \in Conns, OnOpen(n) PROVE Informed'
  <2>1. n \notin welcomed
    BY <1>3 DEF OnOpen, Opened
  <2> QED
    BY <1>3, <2>1 DEF OnOpen, Informed
<1>4. ASSUME NEW n \in Conns, OnFail(n) PROVE Informed'
  BY <1>4, SameEvents, InformedKept DEF OnFail, InLoop, Fire, InHandler
<1>5. ASSUME NEW n \in Conns, OnWelcome(n) PROVE Informed'
  <2> SUFFICES ASSUME ~overlapped, main = "up" PROVE Informed'
    BY <1>5 DEF OnWelcome, Informed
  <2>1. connected_ /\ hdl_ = n
    BY <1>5 DEF OnWelcome, Hears, Single
  <2>2. \A v : Settles(v)' => v = n
    BY <1>5 DEF OnWelcome, Fire, Settles, InHandler, Types
  <2> QED
    BY <1>5, <2>1, <2>2 DEF OnWelcome, Informed
<1>6. ASSUME NEW n \in Conns, OnClose(n) PROVE Informed'
  <2>1. CASE n = hdl_
    <3>1. \A v : Settles(v)' => v = None
      BY <1>6, <2>1 DEF OnClose, Settles, InHandler
    <3> QED
      BY <1>6, <2>1, <3>1 DEF OnClose, Informed
  <2>2. CASE n # hdl_
    BY <1>6, <2>2, SameEvents, InformedKept DEF OnClose, InLoop, InHandler
  <2> QED
    BY <2>1, <2>2
<1>7. CASE SendRegister
  BY <1>7, SameEvents, InformedKept DEF SendRegister, InHandler
<1>8. CASE CloseDone
  <2>1. main' = "up" => InHandler' = InHandler /\ (InHandler => io'.event = io.event)
    BY <1>8 DEF CloseDone, Fire, Types, Fires, InHandler
  <2> QED
    BY <1>8, <2>1, SameEvents, InformedKept DEF CloseDone
<1>9. CASE PostTask
  <2>1. main = "up" => \A v : Settles(v)' => Settles(v)
    <3> SUFFICES ASSUME thread, NEW v, Settles(v)' PROVE Settles(v)
      BY <1>9 DEF Types
    <3>1. /\ posted' = Append(posted, io.event) /\ posted \in Seq(Events)
          /\ io.event \in Events /\ ~InHandler' /\ engine_id' = engine_id
      BY <1>9 DEF PostTask, Types, InHandler
    <3>2. /\ Len(posted') = Len(posted) + 1 /\ Len(posted) \in Nat
          /\ posted'[Len(posted) + 1] = io.event
          /\ \A i \in 1 .. Len(posted) : posted'[i] = posted[i]
      BY <3>1
    <3>3. CASE io.event.type = "Error"
      <4>1. ~InHandler
        BY <3>3 DEF InHandler
      <4> QED
        BY <3>1, <3>2, <3>3, <4>1 DEF Settles
    <3>4. CASE io.event.type # "Error"
      <4>1. InHandler
        BY <1>9, <3>1, <3>4 DEF PostTask, InHandler, Fires, Events
      <4>2. v = io.event.id
        BY <3>1, <3>2, <3>4 DEF Settles
      <4> QED
        BY <4>1, <4>2 DEF Settles
    <3> QED
      BY <3>3, <3>4
  <2> QED
    BY <1>9, <2>1, InformedKept DEF PostTask
<1>10. CASE RunReturns
  BY <1>10, SameEvents, InformedKept DEF RunReturns, InHandler
<1>11. CASE EngineTask
  <2>1. ASSUME NEW v, Settles(v)' PROVE Settles(v)
    <3>1. /\ posted' = Tail(posted) /\ posted # <<>> /\ posted \in Seq(Events)
          /\ InHandler' = InHandler /\ io' = io
          /\ engine_id' = IF Head(posted).type = "Error" THEN engine_id
                          ELSE Head(posted).id
      BY <1>11 DEF EngineTask, Types, InHandler
    <3>2. /\ Len(posted) \in Nat /\ Len(posted) > 0
          /\ Len(posted') = Len(posted) - 1 /\ Head(posted) = posted[1]
          /\ \A i \in 1 .. Len(posted') : posted'[i] = posted[i + 1]
      BY <3>1
    <3>3. CASE InHandler
      BY <2>1, <3>1, <3>3 DEF Settles
    <3>4. ASSUME ~InHandler, NEW i \in 1 .. Len(posted'),
                 posted'[i].type # "Error", posted'[i].id = v,
                 \A j \in i + 1 .. Len(posted') : posted'[j].type = "Error"
          PROVE  Settles(v)
      <4>1. /\ i + 1 \in 1 .. Len(posted)
            /\ posted[i + 1].type # "Error" /\ posted[i + 1].id = v
        BY <3>2, <3>4
      <4>2. ASSUME NEW j \in i + 2 .. Len(posted) PROVE posted[j].type = "Error"
        <5>1. j - 1 \in i + 1 .. Len(posted') /\ (j - 1) + 1 = j
          BY <3>2, <4>2
        <5>2. posted'[j - 1] = posted[j]
          BY <3>2, <5>1
        <5> QED
          BY <3>4, <5>1, <5>2
      <4> QED
        BY <3>4, <4>1, <4>2 DEF Settles
    <3>5. ASSUME ~InHandler, engine_id' = v,
                 \A i \in 1 .. Len(posted') : posted'[i].type = "Error"
          PROVE  Settles(v)
      <4>1. ASSUME NEW j \in 2 .. Len(posted) PROVE posted[j].type = "Error"
        <5>1. j - 1 \in 1 .. Len(posted') /\ (j - 1) + 1 = j
          BY <3>2, <4>1
        <5> QED
          BY <3>2, <3>5, <5>1
      <4> QED
        BY <3>1, <3>2, <3>5, <4>1 DEF Settles
    <3> QED
      BY <2>1, <3>1, <3>3, <3>4, <3>5 DEF Settles
  <2> QED
    BY <1>11, <2>1, InformedKept DEF EngineTask
<1>12. CASE Stop \/ Reset \/ Close \/ CloseStop \/ Join
  BY <1>12 DEF Stop, Reset, Close, CloseStop, Join, Informed
<1>13. CASE UNCHANGED vars
  BY <1>13, SameEvents, InformedKept DEF vars, InHandler
<1> QED
  BY <1>1, <1>2, <1>3, <1>4, <1>5, <1>6, <1>7, <1>8, <1>9, <1>10, <1>11,
     <1>12, <1>13 DEF Next, IoStep, MainStep

-----------------------------------------------------------------------------
LEMMA IInvNext == IInv /\ [Next]_vars => IInv'
  BY TypeStep, SingleStep, OpenedStep, InformedStep DEF IInv

LEMMA Inductive == Spec => []IInv
  BY IInvInit, IInvNext, PTL DEF Spec

(* There is one live connection at most, unless a Connect came while an    *)
(* attempt was pending.                                                    *)
THEOREM OneIsLive == Spec => []OneLive
<1>1. IInv => OneLive
  BY DEF IInv, Single, OneLive
<1> QED
  BY <1>1, Inductive, PTL

(* Once the events are handled the engine knows its connection.            *)
THEOREM EngineIsRight == Spec => []EngineKnows
<1>1. IInv => EngineKnows
  <2> SUFFICES ASSUME IInv, ~overlapped, main = "up", posted = <<>>,
                      io.at # "close", io.at # "post"
               PROVE  /\ engine_id # None => connected_
                      /\ connected_ /\ hdl_ \in welcomed =>
                           engine_id = hdl_ /\ my_id_ = hdl_
    BY DEF EngineKnows
  <2>1. Settles(engine_id)
    BY DEF Settles, InHandler
  <2> QED
    BY <2>1 DEF IInv, Informed
<1> QED
  BY <1>1, Inductive, PTL
=============================================================================
