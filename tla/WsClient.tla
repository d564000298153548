------------------------------ MODULE WsClient ------------------------------
(***************************************************************************)
(* The client's WebSocket to the signalling server:                        *)
(* WebSocketSignalingClient (ws_signaling_client.cc) under                 *)
(* webrtc_engine's ConnectToServer, DisconnectSignal and Stop.             *)
(*                                                                         *)
(* Four threads meet in it: the IPC server's, which runs the user's        *)
(* commands one after the other; the WebSocket's io thread, which runs     *)
(* websocketpp and its handlers; the engine's signalling thread, which     *)
(* runs the tasks the handlers post; and main, which stops it all after    *)
(* quit.  Connections are numbered as they are made, and the id that the   *)
(* server gives a connection in its welcome is that number.                *)
(***************************************************************************)
EXTENDS Integers, Sequences

CONSTANTS MaxConns  \* bound on the connections attempted

ASSUME WsAssumption == MaxConns \in Nat

VARIABLES
  link,         \* connection -> its state in websocketpp
  registered,   \* the connections that carried the register message
  welcomed,     \* those whose welcome the client has handled
  hdl_, connected_, my_id_, close_done_, running_,
  io,           \* where the io thread is
  stopped,      \* endpoint_.stop was called
  cmd,          \* where the command thread is
  main,         \* where the main thread is
  thread,       \* does signaling_thread_ point to a thread?
  posted,       \* the tasks posted to it and not run yet
  engine_id,    \* webrtc_engine's my_id_, 0 when it is not signed in
  crashed,      \* a task was posted to a thread that is gone
  overlapped    \* was Connect called while another attempt was pending?

wire   == <<link, registered, welcomed>>
client == <<hdl_, connected_, my_id_, close_done_, running_>>
engine == <<thread, posted, engine_id, crashed>>
vars   == <<wire, client, io, stopped, cmd, main, engine, overlapped>>

Conns == 1 .. MaxConns

None == 0   \* no connection and no id

(* The io thread is at "off", in run ("loop"), has "ended", or is in a     *)
(* handler, with what the rest of the handler needs.                       *)
Event(type, id)   == [type |-> type, id |-> id]
Holding(place, e) == [at |-> place, event |-> e]
At(place)         == Holding(place, Event("none", None))

Init ==
  /\ link = [n \in Conns |-> "none"] /\ registered = {} /\ welcomed = {}
  /\ hdl_ = None /\ connected_ = FALSE /\ my_id_ = None
  /\ close_done_ = FALSE /\ running_ = FALSE
  /\ io = At("off") /\ stopped = FALSE
  /\ cmd = "idle" /\ main = "up"
  /\ thread = TRUE /\ posted = <<>> /\ engine_id = None /\ crashed = FALSE
  /\ overlapped = FALSE

-----------------------------------------------------------------------------
(* The commands.                                                           *)

(* endpoint_.close: sends the close frame.  A connection that is not open  *)
(* is left alone.                                                          *)
CloseLink(n) ==
  IF n \in Conns /\ link[n] = "open" THEN [link EXCEPT ![n] = "closing"]
  ELSE link

(* Mutant of CloseCurrent: leaves the connection open.                     *)
CloseNothing == link' = link

CloseCurrent == link' = IF connected_ THEN CloseLink(hdl_) ELSE link

Pending == \E n \in Conns : link[n] = "connecting"

(* Connect, with the mutex: closes the live connection.                    *)
ConnectBegin ==
  /\ main = "up" /\ cmd = "idle"
  /\ cmd' = "connect"
  /\ CloseCurrent
  /\ overlapped' = (overlapped \/ Pending)
  /\ UNCHANGED <<registered, welcomed, client, io, stopped, main, engine>>

(* Connect then makes a new one, unless the address is no URI, and starts  *)
(* the io thread.                                                          *)
ConnectNew ==
  /\ cmd = "connect"
  /\ cmd' = "idle"
  /\ \/ \E n \in Conns :
          /\ link[n] = "none" /\ \A m \in 1 .. n - 1 : link[m] # "none"
          /\ link' = [link EXCEPT ![n] = "connecting"]
          /\ running_' = TRUE
          /\ io' = IF running_ THEN io ELSE At("loop")
     \/ UNCHANGED <<link, running_, io>>
  /\ UNCHANGED <<registered, welcomed, hdl_, connected_, my_id_, close_done_,
                 stopped, main, engine, overlapped>>

(* signal_disconnect.                                                      *)
Disconnect ==
  /\ main = "up" /\ cmd = "idle"
  /\ CloseCurrent
  /\ UNCHANGED <<registered, welcomed, client, io, stopped, cmd, main, engine,
                 overlapped>>

-----------------------------------------------------------------------------
(* The io thread.  A handler runs to its end before the next one.          *)

InLoop == io.at = "loop" /\ ~stopped /\ ~crashed

(* Fire.  The executor looks whether there is a signalling thread ...      *)
Fire(e) == io' = IF thread THEN Holding("post", e) ELSE At("loop")

(* The connection is up: OnOpen, with the mutex.                           *)
OnOpen(n) ==
  /\ InLoop /\ link[n] = "connecting"
  /\ link' = [link EXCEPT ![n] = "open"]
  /\ connected_' = TRUE /\ hdl_' = n
  /\ io' = At("register")
  /\ UNCHANGED <<registered, welcomed, my_id_, close_done_, running_, stopped,
                 cmd, main, engine, overlapped>>

(* OnOpen goes on with SendJson, which looks at the handle again.          *)
SendRegister ==
  /\ io.at = "register"
  /\ io' = At("loop")
  /\ registered' = IF connected_ /\ link[hdl_] = "open"
                   THEN registered \cup {hdl_} ELSE registered
  /\ UNCHANGED <<link, welcomed, client, stopped, cmd, main, engine, overlapped>>

(* The attempt fails: OnFail.  hdl_ is never such a connection, as OnFail's *)
(* comment says, so it reports an error.                                   *)
OnFail(n) ==
  /\ InLoop /\ link[n] = "connecting"
  /\ link' = [link EXCEPT ![n] = "gone"]
  /\ Fire(Event("Error", None))
  /\ UNCHANGED <<registered, welcomed, client, stopped, cmd, main, engine,
                 overlapped>>

(* Mutant of Hears: messages come in until the connection has ended.       *)
HearsClosing(n) == link[n] \in {"open", "closing"}

(* websocketpp hands no message of a closing connection to its handler.    *)
Hears(n) == link[n] = "open"

(* OnMessage of the welcome.                                               *)
OnWelcome(n) ==
  /\ InLoop /\ n \in registered \ welcomed /\ Hears(n)
  /\ welcomed' = welcomed \cup {n}
  /\ my_id_' = n
  /\ Fire(Event("SignedIn", n))
  /\ UNCHANGED <<link, registered, hdl_, connected_, close_done_, running_,
                 stopped, cmd, main, engine, overlapped>>

(* The connection ends, by a close of either side or because it is lost:   *)
(* OnClose, with the mutex.                                                *)
OnClose(n) ==
  /\ InLoop /\ link[n] \in {"open", "closing"}
  /\ link' = [link EXCEPT ![n] = "gone"]
  /\ \/ /\ n = hdl_ /\ connected_' = FALSE
        /\ io' = Holding("close", Event("Disconnected", None))
     \/ /\ n # hdl_ /\ UNCHANGED connected_
        /\ io' = At("close")
  /\ UNCHANGED <<registered, welcomed, hdl_, my_id_, close_done_, running_,
                 stopped, cmd, main, engine, overlapped>>

(* Mutant of CloseDone: tells no one.                                      *)
CloseDoneSilent ==
  /\ io.at = "close"
  /\ close_done_' = TRUE
  /\ io' = At("loop")
  /\ UNCHANGED <<wire, hdl_, connected_, my_id_, running_, stopped, cmd, main,
                 engine, overlapped>>

(* OnClose goes on: it wakes Close, and reports the current connection.    *)
CloseDone ==
  /\ io.at = "close"
  /\ close_done_' = TRUE
  /\ IF io = At("close") THEN io' = At("loop") ELSE Fire(io.event)
  /\ UNCHANGED <<wire, hdl_, connected_, my_id_, running_, stopped, cmd, main,
                 engine, overlapped>>

(* ... and the executor posts the task to it, if it is still there.        *)
PostTask ==
  /\ io.at = "post"
  /\ io' = At("loop")
  /\ posted' = IF thread THEN Append(posted, io.event) ELSE posted
  /\ crashed' = ~thread
  /\ UNCHANGED <<wire, client, stopped, cmd, main, thread, engine_id, overlapped>>

(* endpoint_.run returns.                                                  *)
RunReturns ==
  /\ io.at = "loop" /\ stopped
  /\ io' = At("ended")
  /\ UNCHANGED <<wire, client, stopped, cmd, main, engine, overlapped>>

IoStep == SendRegister \/ CloseDone \/ PostTask \/ RunReturns

-----------------------------------------------------------------------------
(* The signalling thread: OnSignalSignedIn, OnSignalDisconnected, and      *)
(* OnSignalError, which keeps nothing.                                     *)
EngineTask ==
  /\ main = "up" /\ posted # <<>>
  /\ posted' = Tail(posted)
  /\ engine_id' = IF Head(posted).type = "Error" THEN engine_id
                  ELSE Head(posted).id
  /\ UNCHANGED <<wire, client, io, stopped, cmd, main, thread, crashed,
                 overlapped>>

-----------------------------------------------------------------------------
(* The main thread, after quit: no more commands come.                     *)

(* webrtc_engine::Stop stops the signalling thread ...                     *)
Stop ==
  /\ main = "up" /\ cmd = "idle"
  /\ main' = "stop"
  /\ UNCHANGED <<wire, client, io, stopped, cmd, engine, overlapped>>

(* ... and lets go of it, while the io thread still runs.                  *)
Reset ==
  /\ main = "stop" /\ ~crashed
  /\ main' = "stopped"
  /\ thread' = FALSE /\ posted' = <<>>
  /\ UNCHANGED <<wire, client, io, stopped, cmd, engine_id, crashed, overlapped>>

(* The destructor calls Close.                                             *)
Close ==
  /\ main = "stopped" /\ ~crashed
  /\ IF running_ THEN main' = "wait" /\ CloseCurrent
     ELSE main' = "done" /\ UNCHANGED link
  /\ UNCHANGED <<registered, welcomed, client, io, stopped, cmd, engine,
                 overlapped>>

(* Mutant of WaitOver: waits without a limit.                              *)
WaitOverDone == close_done_

(* close_cv_.wait_for returns when close_done_ is set, or after a second.  *)
WaitOver == TRUE

CloseStop ==
  /\ main = "wait" /\ ~crashed /\ WaitOver
  /\ main' = "join"
  /\ running_' = FALSE
  /\ stopped' = TRUE
  /\ UNCHANGED <<wire, hdl_, connected_, my_id_, close_done_, io, cmd, engine,
                 overlapped>>

Join ==
  /\ main = "join" /\ ~crashed /\ io.at = "ended"
  /\ main' = "done"
  /\ UNCHANGED <<wire, client, io, stopped, cmd, engine, overlapped>>

MainStep == Reset \/ Close \/ CloseStop \/ Join

-----------------------------------------------------------------------------
Next ==
  \/ ConnectBegin \/ ConnectNew \/ Disconnect
  \/ \E n \in Conns : OnOpen(n) \/ OnFail(n) \/ OnWelcome(n) \/ OnClose(n)
  \/ IoStep \/ EngineTask \/ Stop \/ MainStep

Spec == Init /\ [][Next]_vars

(* Threads run.  The server answers, and the user acts, or they do not.    *)
Fairness ==
  /\ WF_vars(ConnectNew) /\ WF_vars(IoStep)
  /\ WF_vars(EngineTask) /\ WF_vars(MainStep)

FairSpec == Spec /\ Fairness

-----------------------------------------------------------------------------
Live == {n \in Conns : link[n] \in {"connecting", "open"}}

(* Connect closes the live connection before it makes the next, "to avoid  *)
(* that the old and the new one coexist" (ws_signaling_client.cc:80):      *)
(* there is one at most, as long as no Connect comes while an attempt is   *)
(* still pending, of which Connect knows nothing.                          *)
OneLive == ~overlapped => \A m, n \in Live : m = n

(* The engine hears of the connection in the right order, though a         *)
(* reconnect has the end of the old one and the start of the new one race: *)
(* once the events are handled, an engine that counts as signed in has a   *)
(* connection, and once this one was welcomed, its id.                     *)
EngineKnows ==
  ~overlapped /\ main = "up" /\ posted = <<>> /\ io.at # "close" /\ io.at # "post" =>
    /\ engine_id # None => connected_
    /\ connected_ /\ hdl_ \in welcomed => engine_id = hdl_ /\ my_id_ = hdl_

(* When the connection that the engine is signed in over ends, the engine  *)
(* stops counting as signed in, unless a newer connection took its place.  *)
EndReported ==
  \A n \in Conns :
    (engine_id = n /\ link[n] = "gone") ~> (engine_id # n \/ hdl_ # n \/ main # "up")

(* After quit the process ends, whatever the connection's state, unless    *)
(* an event came in just as the signalling thread was let go.              *)
CloseReturns == main = "stop" ~> main = "done" \/ crashed
=============================================================================
