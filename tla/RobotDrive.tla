----------------------------- MODULE RobotDrive -----------------------------
(***************************************************************************)
(* Driving the robot: the keys of the operator's window (qt_ui_x64), which *)
(* go as commands over the call's data channel to the robot's window       *)
(* (qt_ui_arm64), whose own keys and person follower command the chassis   *)
(* too, through the serial thread (serial_worker.cpp) and the              *)
(* microcontroller, which is external (MCU_SERIAL_PROTOCOL.md).            *)
(*                                                                         *)
(* A command has its name and the <<v, w>> it asks of the chassis, each as *)
(* its sign; the camera's values are left out.  A tick is the 80 ms of the *)
(* key timers.  A timer that ran out is due and fires when its event loop  *)
(* comes to it, however late.  AiSwitch has when the follower has a target *)
(* and when it is switched off: here that happens at any time.             *)
(***************************************************************************)
EXTENDS Integers, Sequences

CONSTANTS
  Drivers,          \* who may drive, one of which a behaviour keeps to: the
                    \* keys used in the operator's and in the robot's window
                    \* and the <<v, w>> the follower's target can ask for
  KnowsMovePtz,     \* whether the microcontroller acts on "move_ptz"
  WATCHDOG,         \* its 300 ms, in ticks
  PauseTicks,       \* the follower's pause after a key: 1 s
  RestartTicks,     \* from the end of a call to the next: 1.5 s and more
  MaxLink, MaxTx    \* bounds on the commands under way

(* The keys that drive in both windows: in the robot's the last four move  *)
(* the camera, in the operator's CameraKeys do.                            *)
ChassisKeys == {"W", "S", "A", "D", "Up", "Down", "Left", "Right"}
CameraKeys == {"I", "J", "K", "L"}

Signs == {-1, 0, 1}

ASSUME DriveAssumption ==
  /\ Drivers \subseteq [keys : SUBSET (ChassisKeys \cup CameraKeys),
                        robotKeys : SUBSET ChassisKeys,
                        targets : SUBSET (Signs \X Signs)]
  /\ KnowsMovePtz \in BOOLEAN
  /\ {WATCHDOG, PauseTicks, RestartTicks, MaxLink, MaxTx} \subseteq Nat \ {0}
  /\ RestartTicks > WATCHDOG /\ PauseTicks > WATCHDOG

VARIABLES
  drivers,    \* of Drivers
  call,       \* whether the data channel is open
  untold,     \* the windows still to handle the end of the call
  down,       \* ticks until there can be another call
  keys,       \* key_w_, key_s_ ... of the operator's window
  active, due,\* the timers started, and those that ran out
  link,       \* the data channel's commands
  held_key_,  \* the robot's window
  pause,      \* ticks until the follower goes on after a key
  target,     \* what the follower's target asks for: track_target_valid_
  tx_queue_,
  motors, watchdog, \* the microcontroller
  lost        \* it moves for want of a stop that the port had no room for

calls    == <<call, untold, down>>
follower == <<pause, target>>
mcu      == <<motors, watchdog, lost>>
state == <<calls, keys, active, due, link, held_key_, follower, tx_queue_, mcu>>
vars  == <<drivers, state>>

Still == <<0, 0>>
Timers == {"keepalive", "key", "track"}

Init ==
  /\ drivers \in Drivers
  /\ call = "down" /\ untold = {} /\ down = 0
  /\ keys = {} /\ active = {} /\ due = {} /\ link = <<>>
  /\ held_key_ = "none" /\ pause = 0 /\ target = Still
  /\ tx_queue_ = <<>> /\ motors = Still /\ watchdog = 0 /\ lost = FALSE

Command(c, d) == [cmd |-> c, drive |-> d]
Stop == Command("stop", Still)

StopTimer(t) == active' = active \ {t} /\ due' = due \ {t}

-----------------------------------------------------------------------------
(* The operator's window.                                                  *)

(* cmdSendData: without an open data channel the text is dropped.          *)
CanSend == call = "down" \/ Len(link) < MaxLink
Send(c) == link' = IF call = "up" THEN Append(link, c) ELSE link

Axis(ks, plus, minus) ==
  (IF ks \cap plus = {} THEN 0 ELSE 1) - (IF ks \cap minus = {} THEN 0 ELSE 1)

DriveOf(ks) == <<Axis(ks, {"W", "Up"}, {"S", "Down"}),
                 Axis(ks, {"A", "Left"}, {"D", "Right"})>>
CameraOf(ks) == <<Axis(ks, {"L"}, {"J"}), Axis(ks, {"I"}, {"K"})>>

(* updateMoveCommand: keys that cancel each other out send nothing.        *)
UpdateMove(ks) ==
  LET moving == DriveOf(ks) # Still
      gimbal == CameraOf(ks) # Still
  IN  \/ moving /\ gimbal /\ Send(Command("move_ptz", DriveOf(ks)))
      \/ moving /\ ~gimbal /\ Send(Command("move", DriveOf(ks)))
      \/ ~moving /\ gimbal /\ Send(Command("ptz", Still))
      \/ ~moving /\ ~gimbal /\ UNCHANGED link

(* The key sends at once, and from then on the timer.                      *)
KeyPress(k) ==
  /\ CanSend
  /\ k \notin keys
  /\ keys' = keys \cup {k}
  /\ UpdateMove(keys')
  /\ active' = active \cup {"keepalive"}
  /\ UNCHANGED <<calls, due, held_key_, follower, tx_queue_, mcu>>

HomeKey ==
  /\ CanSend
  /\ Send(Command("ptz_home", Still))
  /\ UNCHANGED <<calls, keys, active, due, held_key_, follower, tx_queue_, mcu>>

(* Mutant of KeyRelease: the last key stops the timer and sends nothing.   *)
KeyReleaseNoStop(k) ==
  /\ CanSend
  /\ k \in keys
  /\ keys' = keys \ {k}
  /\ \/ keys' = {} /\ StopTimer("keepalive") /\ UNCHANGED link
     \/ keys' # {} /\ UpdateMove(keys') /\ UNCHANGED <<active, due>>
  /\ UNCHANGED <<calls, held_key_, follower, tx_queue_, mcu>>

KeyRelease(k) ==
  /\ CanSend
  /\ k \in keys
  /\ keys' = keys \ {k}
  /\ \/ keys' = {} /\ Send(Stop) /\ StopTimer("keepalive")
     \/ keys' # {} /\ UpdateMove(keys') /\ UNCHANGED <<active, due>>
  /\ UNCHANGED <<calls, held_key_, follower, tx_queue_, mcu>>

Keepalive ==
  /\ CanSend
  /\ "keepalive" \in due
  /\ due' = due \ {"keepalive"}
  /\ UpdateMove(keys)
  /\ UNCHANGED <<calls, keys, active, held_key_, follower, tx_queue_, mcu>>

(* callDisconnected: the keys stay as they are.                            *)
OperatorTold ==
  /\ "operator" \in untold
  /\ untold' = untold \ {"operator"}
  /\ StopTimer("keepalive")
  /\ Send(Stop)
  /\ UNCHANGED <<call, down, keys, held_key_, follower, tx_queue_, mcu>>

-----------------------------------------------------------------------------
(* The robot's window.                                                     *)

CanEnqueue == Len(tx_queue_) < MaxTx

(* sendSerialJson *)
Enqueue(c) == tx_queue_' = Append(tx_queue_, c)

(* dataReceived, handleRemoteKey: the command goes on as it is.            *)
RemoteKey ==
  /\ CanEnqueue
  /\ link # <<>>
  /\ link' = Tail(link)
  /\ Enqueue(Head(link))
  /\ UNCHANGED <<calls, keys, active, due, held_key_, follower, mcu>>

(* A key of the robot's own pauses the follower and restarts its timer.    *)
RobotPress(k) ==
  /\ k # held_key_
  /\ held_key_' = k
  /\ pause' = PauseTicks
  /\ active' = active \cup {"key"}
  /\ due' = due \ {"key"}
  /\ UNCHANGED <<calls, keys, link, target, tx_queue_, mcu>>

(* Nothing is sent: the microcontroller's watchdog stops the chassis.      *)
RobotRelease ==
  /\ held_key_ # "none"
  /\ held_key_' = "none"
  /\ StopTimer("key")
  /\ UNCHANGED <<calls, keys, link, follower, tx_queue_, mcu>>

RobotCommand(k) ==
  IF k \in {"W", "S", "A", "D"} THEN Command("move", DriveOf({k}))
                                ELSE Command("ptz", Still)

RobotRepeat ==
  /\ CanEnqueue
  /\ "key" \in due
  /\ due' = due \ {"key"}
  /\ Enqueue(RobotCommand(held_key_))
  /\ UNCHANGED <<calls, keys, active, link, held_key_, follower, mcu>>

(* findTrackTarget, from onAiDetections: a target starts the timer, no     *)
(* target leaves it running.                                               *)
NewTarget(d) ==
  /\ target' = d
  /\ active' = IF d = Still THEN active ELSE active \cup {"track"}
  /\ UNCHANGED <<calls, keys, due, link, held_key_, pause, tx_queue_, mcu>>

(* Mutant of Track: does not look for the keys of the robot.               *)
TrackOverKeys ==
  /\ CanEnqueue
  /\ "track" \in due
  /\ due' = due \ {"track"}
  /\ IF target = Still THEN UNCHANGED tx_queue_
                       ELSE Enqueue(Command("move", target))
  /\ UNCHANGED <<calls, keys, active, link, held_key_, follower, mcu>>

(* onTrackingTimer *)
Track ==
  /\ CanEnqueue
  /\ "track" \in due
  /\ due' = due \ {"track"}
  /\ IF target = Still \/ pause > 0 THEN UNCHANGED tx_queue_
                                    ELSE Enqueue(Command("move", target))
  /\ UNCHANGED <<calls, keys, active, link, held_key_, follower, mcu>>

(* What stopAi does to the follower, for AI:OFF or a button;               *)
(* callDisconnected does it too.                                           *)
StopFollowing ==
  /\ untold' = untold \ {"robot"}
  /\ target' = Still
  /\ StopTimer("track")
  /\ UNCHANGED <<call, down, keys, link, held_key_, pause, tx_queue_, mcu>>

(* serverDisconnected or onControlDisconnected, in either window: timers,  *)
(* keys and target stay as they are.                                       *)
ToldOtherwise ==
  /\ \E w \in untold : untold' = untold \ {w}
  /\ UNCHANGED <<call, down, keys, active, due, link, held_key_, follower,
                 tx_queue_, mcu>>

-----------------------------------------------------------------------------
(* The microcontroller (external).                                         *)

Drives(c) == c.cmd = "move" \/ (KnowsMovePtz /\ c.cmd = "move_ptz")

(* Mutant of HandleFrame: only a watchdog that runs is restarted.          *)
HandleFrameUnguarded(c) ==
  /\ motors' = IF Drives(c) \/ c.cmd = "stop" THEN c.drive ELSE motors
  /\ watchdog' = IF c.cmd = "stop" THEN 0
                 ELSE IF (Drives(c) \/ c.cmd = "ptz") /\ watchdog > 0
                      THEN WATCHDOG ELSE watchdog

(* handle_frame: "ptz" leaves the chassis as it is, and restarts the       *)
(* watchdog like a move.                                                   *)
HandleFrame(c) ==
  /\ motors' = IF Drives(c) \/ c.cmd = "stop" THEN c.drive ELSE motors
  /\ watchdog' = IF c.cmd = "stop" THEN 0
                 ELSE IF Drives(c) \/ c.cmd = "ptz" THEN WATCHDOG
                 ELSE watchdog

Arrives(c) == HandleFrame(c) /\ lost' = (lost /\ c.cmd # "stop")

(* The result of write() is not looked at.                                 *)
PortFull(c) == /\ lost' = (lost \/ c.cmd = "stop")
               /\ UNCHANGED <<motors, watchdog>>

(* The serial thread takes a command and writes it, all of it or not.      *)
Write ==
  /\ tx_queue_ # <<>>
  /\ tx_queue_' = Tail(tx_queue_)
  /\ Arrives(Head(tx_queue_)) \/ PortFull(Head(tx_queue_))
  /\ UNCHANGED <<calls, keys, active, due, link, held_key_, follower>>

-----------------------------------------------------------------------------
(* Time and the call.                                                      *)

Minus1(n) == IF n = 0 THEN 0 ELSE n - 1

(* The serial thread looks every 50 ms, so it has written before a tick.   *)
(* The follower's period is 150 ms: it may run out with this tick or not.  *)
Tick ==
  /\ tx_queue_ = <<>>
  /\ \E run \in {active, active \ {"track"}} : due' = due \cup run
  /\ down' = Minus1(down) /\ pause' = Minus1(pause)
  /\ watchdog' = Minus1(watchdog)
  /\ motors' = IF watchdog = 1 THEN Still ELSE motors
  /\ lost' = (lost /\ watchdog > 1)
  /\ UNCHANGED <<call, untold, keys, active, link, held_key_, target, tx_queue_>>

CallStarts ==
  /\ call = "down" /\ untold = {} /\ down = 0
  /\ call' = "up"
  /\ UNCHANGED <<untold, down, keys, active, due, link, held_key_, follower,
                 tx_queue_, mcu>>

(* What was under way is lost, and both daemons restart.                   *)
CallEnds ==
  /\ call = "up"
  /\ call' = "down"
  /\ untold' = {"operator", "robot"}
  /\ down' = RestartTicks
  /\ link' = <<>>
  /\ UNCHANGED <<keys, active, due, held_key_, follower, tx_queue_, mcu>>

-----------------------------------------------------------------------------
Operator == (\E k \in drivers.keys : KeyPress(k) \/ KeyRelease(k)) \/ HomeKey
Robot == (\E k \in drivers.robotKeys : RobotPress(k)) \/ RobotRelease
Timeout == Keepalive \/ RobotRepeat \/ Track

Next ==
  /\ \/ Operator \/ Robot \/ Timeout
     \/ \E d \in drivers.targets \cup {Still} : NewTarget(d)
     \/ StopFollowing \/ OperatorTold \/ ToldOtherwise \/ RemoteKey \/ Write
     \/ Tick \/ CallStarts \/ CallEnds
  /\ UNCHANGED drivers

Spec == Init /\ [][Next]_vars

(* Time passes, however many keys are pressed, and the robot's window and   *)
(* its serial thread work.                                                 *)
Fairness == SF_state(Tick) /\ WF_state(RemoteKey) /\ WF_state(Write)

FairSpec == Spec /\ Fairness

-----------------------------------------------------------------------------
(* Where only the operator drives: with the keys let go, and every command *)
(* handed on, the chassis is still, whatever was sent before, in this call *)
(* or in the last, unless the stop was lost at the port; then it is again  *)
(* once the watchdog ran out.                                              *)
OperatorAlone == drivers.robotKeys = {} /\ drivers.targets = {}

StopReaches ==
  OperatorAlone /\ call = "up" /\ keys = {} /\ link = <<>> /\ tx_queue_ = <<>> =>
    motors = Still \/ lost

(* A key of the robot's own takes the chassis from the follower: what the  *)
(* follower last asked for is over by the time the watchdog takes, and     *)
(* does not come back during the pause.  It is told from what keys ask for *)
(* where none of them asks for the same, nor moves the camera: a "ptz"     *)
(* restarts the watchdog and leaves the chassis as it is.                  *)
KeysApart ==
  /\ drivers.keys \cap CameraKeys = {}
  /\ drivers.robotKeys \subseteq {"W", "S", "A", "D"}
  /\ \A ks \in SUBSET drivers.keys : DriveOf(ks) \notin drivers.targets
  /\ \A k \in drivers.robotKeys : DriveOf({k}) \notin drivers.targets

FollowerYields ==
  KeysApart /\ pause \in 1 .. PauseTicks - WATCHDOG =>
    motors \notin drivers.targets

(* When the operator's keys are let go or the call has ended, the robot's  *)
(* own key is let go and the follower has no target, then the chassis      *)
(* comes to a stop, unless somebody drives again: a lost stop, or a robot  *)
(* key, which sends none, leaves it to the watchdog.                       *)
LetGo == /\ keys = {} \/ call = "down"
         /\ held_key_ = "none" /\ target = Still

StopsWhenLetGo == LetGo ~> motors = Still \/ ~LetGo
=============================================================================
