--------------------------- MODULE DaemonControl ---------------------------
(***************************************************************************)
(* How the windows (qt_ui_arm64, qt_ui_x64) run their WebRTC daemon: the   *)
(* process manager (webrtc_process_manager.cpp) starts it, starts it again *)
(* when it dies, and after each call it is stopped and started afresh; the *)
(* control channel carries commands and events; the daemon is the older    *)
(* engine (webrtc_engine.cc) as far as a window sees it.                   *)
(*                                                                         *)
(* A tick is 500 ms.  The window's event loop and the daemon handle what   *)
(* is there before a tick.  A timer is what it does, the ticks left, and   *)
(* what its lambda captured.                                               *)
(***************************************************************************)
EXTENDS Integers, Sequences, SequencesExt

CONSTANTS
  kMaxRetries,
  MaxFaults,  \* bound on deaths of the daemon, failing starts, server losses
  MaxCalls    \* bound on calls

ASSUME ControlAssumption == {kMaxRetries, MaxFaults, MaxCalls} \subseteq Nat

VARIABLES
  state_, retry_count_,     \* the process manager
  proc,      \* what its QProcess says
  alive,     \* whether the process is there
  timers,    \* the QTimer::singleShots of the window
  first_connect_, is_call_active_,
  connect_enabled,          \* action_connect_; action_disconnect_ otherwise
  sock,      \* the control channel: "off", "on", or "broken" and not noticed
  cmds, events,
  daemon,    \* "off", "idle", "connecting", "on", "call", or "left" a call
  faults, calls

manager == <<state_, retry_count_, proc, alive, timers>>
window  == <<first_connect_, is_call_active_, connect_enabled>>
channel == <<sock, cmds, events>>
bounds  == <<faults, calls>>
vars == <<manager, window, channel, daemon, bounds>>

Timer(do, left, first) == [do |-> do, left |-> left, first |-> first]

(* The constructor's last line is start().                                 *)
Init ==
  /\ state_ = "Starting" /\ retry_count_ = 0
  /\ proc = "Starting" /\ alive = TRUE /\ timers = <<>>
  /\ first_connect_ = TRUE /\ is_call_active_ = FALSE /\ connect_enabled = TRUE
  /\ sock = "off" /\ cmds = <<>> /\ events = <<>>
  /\ daemon = "idle"
  /\ faults = 0 /\ calls = 0

-----------------------------------------------------------------------------
(* The process manager.                                                    *)

(* proc_.start: ignored unless the process is not running.                 *)
StartProcess ==
  IF proc = "NotRunning"
  THEN proc' = "Starting" /\ alive' = TRUE /\ daemon' = "idle"
  ELSE UNCHANGED <<proc, alive, daemon>>

Unnoticed(s) == IF s = "on" THEN "broken" ELSE s

(* The process is gone, whoever ended it.                                  *)
Gone == /\ alive' = FALSE /\ daemon' = "off"
        /\ cmds' = <<>> /\ sock' = Unnoticed(sock)

(* Mutant of Died: only an exit that is not a crash is a reason to retry.  *)
DiedQuietly(ts) ==
  /\ proc' = "NotRunning"
  /\ state_' = "Stopped" /\ is_call_active_' = FALSE
  /\ timers' = ts
  /\ UNCHANGED retry_count_

(* errorOccurred(Crashed), then finished(), which makes even an Error      *)
(* Stopped.  A daemon that is terminated dies of the signal: a crash, too. *)
Died(ts) ==
  /\ proc' = "NotRunning"
  /\ state_' = "Stopped" /\ is_call_active_' = FALSE
  /\ IF retry_count_ < kMaxRetries
     THEN /\ retry_count_' = retry_count_ + 1
          /\ timers' = Append(ts, Timer("retry", 4, FALSE))
     ELSE timers' = ts /\ UNCHANGED retry_count_

(* onProcessStarted; the window then waits 500 ms for the daemon.          *)
Started ==
  /\ proc = "Starting"
  /\ proc' = "Running" /\ state_' = "Running"
  /\ timers' = Append(timers, Timer("connect", 1, FALSE))
  /\ UNCHANGED <<retry_count_, alive, window, channel, daemon, bounds>>

FailedToStart ==
  /\ proc = "Starting" /\ alive /\ faults < MaxFaults
  /\ faults' = faults + 1
  /\ proc' = "NotRunning"
  /\ Gone
  /\ IF retry_count_ < kMaxRetries
     THEN /\ retry_count_' = retry_count_ + 1
          /\ timers' = Append(timers, Timer("retry", 4, FALSE))
          /\ UNCHANGED <<state_, is_call_active_>>
     ELSE /\ state_' = "Error" /\ is_call_active_' = FALSE
          /\ UNCHANGED <<retry_count_, timers>>
  /\ UNCHANGED <<first_connect_, connect_enabled, events, calls>>

Crash ==
  /\ alive /\ faults < MaxFaults
  /\ faults' = faults + 1
  /\ Gone
  /\ UNCHANGED <<state_, retry_count_, proc, timers, window, events, calls>>

NoticeDeath ==
  /\ proc = "Running" /\ ~alive
  /\ Died(timers)
  /\ UNCHANGED <<alive, first_connect_, connect_enabled, channel, daemon, bounds>>

-----------------------------------------------------------------------------
(* What the timers do.                                                     *)

Due(what) == {i \in DOMAIN timers : timers[i].left = 0 /\ timers[i].do = what}

Retry(i) ==
  /\ timers' = RemoveAt(timers, i)
  /\ state_' = "Starting"
  /\ StartProcess
  /\ UNCHANGED <<retry_count_, window, channel, bounds>>

(* stop: waits until the process is gone, and on the way for the start of  *)
(* one that is starting; only a change of the state is signalled.  What    *)
(* its lambda does next comes 1000 ms later.                               *)
Stop(i) ==
  LET next    == Append(RemoveAt(timers, i), Timer("start", 2, timers[i].first))
      waited  == IF proc = "Starting" THEN Append(next, Timer("connect", 1, FALSE))
                 ELSE next
  IN  /\ IF proc = "NotRunning"
         THEN /\ state_' = "Stopped" /\ timers' = next
              /\ is_call_active_' = (is_call_active_ /\ state_ = "Stopped")
              /\ UNCHANGED <<retry_count_, proc, alive, sock, cmds, daemon>>
         ELSE Died(waited) /\ Gone
      /\ UNCHANGED <<first_connect_, connect_enabled, events, bounds>>

(* start: not while the manager has it started or starting.                *)
StartAfresh(i) ==
  /\ timers' = RemoveAt(timers, i)
  /\ first_connect_' = timers[i].first
  /\ IF state_ \in {"Starting", "Running"}
     THEN UNCHANGED <<state_, retry_count_, proc, alive, daemon>>
     ELSE state_' = "Starting" /\ retry_count_' = 0 /\ StartProcess
  /\ UNCHANGED <<is_call_active_, connect_enabled, channel, bounds>>

(* Mutant of Connect: only to sign in for the first time.                  *)
ConnectOnce(i) ==
  /\ timers' = RemoveAt(timers, i)
  /\ IF alive /\ sock = "off" /\ connect_enabled
     THEN /\ sock' = "on"
          /\ cmds' = IF first_connect_ THEN Append(cmds, "connect") ELSE cmds
     ELSE UNCHANGED <<sock, cmds>>
  /\ UNCHANGED <<state_, retry_count_, proc, alive, window, events, daemon, bounds>>

(* connectToServer; onControlConnected signs in if this is the first time. *)
Connect(i) ==
  /\ timers' = RemoveAt(timers, i)
  /\ IF alive /\ sock = "off"
     THEN /\ sock' = "on"
          /\ cmds' = IF first_connect_ THEN Append(cmds, "connect") ELSE cmds
     ELSE UNCHANGED <<sock, cmds>>
  /\ UNCHANGED <<state_, retry_count_, proc, alive, window, events, daemon, bounds>>

Fires ==
  \/ \E i \in Due("retry") : Retry(i)
  \/ \E i \in Due("stop") : Stop(i)
  \/ \E i \in Due("start") : StartAfresh(i)
  \/ \E i \in Due("connect") : Connect(i)

-----------------------------------------------------------------------------
(* The window: its events, the end of the channel, its buttons.            *)

Command(c) == cmds' = IF sock = "on" THEN Append(cmds, c) ELSE cmds

NextEvent(e) == events # <<>> /\ Head(events) = e /\ events' = Tail(events)

ServerConnected ==
  /\ NextEvent("server_connected")
  /\ first_connect_' = FALSE /\ connect_enabled' = FALSE
  /\ UNCHANGED <<manager, is_call_active_, sock, cmds, daemon, bounds>>

ServerDisconnected ==
  /\ NextEvent("server_disconnected")
  /\ is_call_active_' = FALSE /\ connect_enabled' = TRUE
  /\ UNCHANGED <<manager, first_connect_, sock, cmds, daemon, bounds>>

CallConnected ==
  /\ NextEvent("call_connected")
  /\ is_call_active_' = TRUE
  /\ UNCHANGED <<manager, first_connect_, connect_enabled, sock, cmds, daemon,
                 bounds>>

(* was_first keeps the flag, and comes back with the start.                *)
CallDisconnected ==
  /\ NextEvent("call_disconnected")
  /\ is_call_active_' = FALSE
  /\ first_connect_' = TRUE
  /\ Command("disconnect")
  /\ timers' = Append(timers, Timer("stop", 1, first_connect_))
  /\ UNCHANGED <<state_, retry_count_, proc, alive, connect_enabled, sock, daemon,
                 bounds>>

(* Mutant of Disconnected: leaves the call to the end of the process.      *)
DisconnectedInCall ==
  /\ sock = "broken" /\ events = <<>>
  /\ sock' = "off"
  /\ UNCHANGED <<manager, window, cmds, events, daemon, bounds>>

(* onControlDisconnected, once what came before is read.                   *)
Disconnected ==
  /\ sock = "broken" /\ events = <<>>
  /\ sock' = "off"
  /\ is_call_active_' = FALSE
  /\ UNCHANGED <<manager, first_connect_, connect_enabled, cmds, events, daemon,
                 bounds>>

Button(c) ==
  /\ cmds = <<>>
  /\ connect_enabled <=> c = "connect"
  /\ sock = "on"
  /\ Command(c)
  /\ UNCHANGED <<manager, window, sock, events, daemon, bounds>>

-----------------------------------------------------------------------------
(* The daemon (its engine), as a window sees it.                           *)

Emit(e) == events' = IF sock = "on" THEN Append(events, e) ELSE events

Becomes(d) == daemon' = d /\ UNCHANGED <<manager, window, sock>>

(* The daemon is signed in from the server's answer until it closes.       *)
SignedIn == daemon \in {"on", "call"}

HandleCommand ==
  /\ cmds # <<>>
  /\ cmds' = Tail(cmds)
  /\ \/ /\ Head(cmds) = "connect" /\ daemon \in {"idle", "left"}
        /\ Becomes("connecting") /\ UNCHANGED events
     \/ /\ Head(cmds) = "disconnect" /\ SignedIn
        /\ Becomes("idle") /\ Emit("server_disconnected")
     \/ /\ IF Head(cmds) = "connect" THEN daemon \notin {"idle", "left"}
                                     ELSE ~SignedIn
        /\ Becomes(daemon) /\ UNCHANGED events
  /\ UNCHANGED bounds

OnSignedIn ==
  /\ daemon = "connecting"
  /\ Becomes("on") /\ Emit("server_connected")
  /\ UNCHANGED <<cmds, bounds>>

ServerLost ==
  /\ SignedIn /\ faults < MaxFaults
  /\ faults' = faults + 1
  /\ Becomes("idle") /\ Emit("server_disconnected")
  /\ UNCHANGED <<cmds, calls>>

CallBegins ==
  /\ daemon = "on" /\ calls < MaxCalls
  /\ calls' = calls + 1
  /\ Becomes("call") /\ Emit("call_connected")
  /\ UNCHANGED <<cmds, faults>>

(* OnPeerDisconnected closes the signalling; the two seconds after which   *)
(* it would sign in again are more than this window lets it live.          *)
CallEnds ==
  /\ daemon = "call"
  /\ Becomes("left") /\ Emit("call_disconnected")
  /\ UNCHANGED <<cmds, bounds>>

(* Nothing is left to do before time goes on.                              *)
Quiet == /\ cmds = <<>> /\ events = <<>> /\ sock # "broken" /\ proc # "Starting"
         /\ (proc = "Running") = alive
         /\ \A i \in DOMAIN timers : timers[i].left > 0

Tick ==
  /\ Quiet /\ timers # <<>>
  /\ timers' = [i \in DOMAIN timers |-> [timers[i] EXCEPT !.left = @ - 1]]
  /\ UNCHANGED <<state_, retry_count_, proc, alive, window, channel, daemon, bounds>>

-----------------------------------------------------------------------------
EventComes == \/ ServerConnected \/ ServerDisconnected \/ CallConnected
              \/ CallDisconnected \/ Disconnected
Process == Started \/ NoticeDeath
Engine == HandleCommand \/ OnSignedIn

Next ==
  \/ Process \/ Fires \/ EventComes \/ Engine \/ Tick
  \/ FailedToStart \/ Crash
  \/ ServerLost \/ CallBegins \/ CallEnds
  \/ \E c \in {"connect", "disconnect"} : Button(c)

Spec == Init /\ [][Next]_vars

(* The window's event loop, the daemon and time go on.                     *)
Fairness == /\ WF_vars(Process) /\ WF_vars(Fires) /\ WF_vars(EventComes)
            /\ WF_vars(HandleCommand) /\ WF_vars(OnSignedIn) /\ SF_vars(Tick)

FairSpec == Spec /\ Fairness

-----------------------------------------------------------------------------
(* A daemon that dies with retries left is started again, whenever that    *)
(* is: in a call, while the window stops or starts it, or before the timer *)
(* of the last death ran out.                                              *)
DaemonComesBack ==
  proc = "Running" /\ ~alive /\ retry_count_ < kMaxRetries ~> alive

(* The first daemon, and another one after each call, gets the control     *)
(* channel, as long as nothing fails: although the death of the one that   *)
(* was stopped has a retry start the next one, too.                        *)
ChannelFollows ==
  daemon \in {"idle", "left"} /\ faults = 0 ~>
    (sock = "on" /\ daemon # "left") \/ faults > 0

(* The window shows a call only while its daemon has one, or the end of it *)
(* is still to come: as an event, or with the end of the channel.          *)
CallShown == is_call_active_ => daemon = "call" \/ events # <<>> \/ sock = "broken"
=============================================================================
