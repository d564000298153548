------------------------------ MODULE AiSwitch ------------------------------
(***************************************************************************)
(* Switching the robot's detectors on and off.  The operator's window      *)
(* (qt_ui_x64) and the robot's (qt_ui_arm64) both have a button for each   *)
(* type and agree on the one that is on by messages over the data channel. *)
(* The robot runs the detector as a process (QProcess), whose detections   *)
(* come in through the thread of ai_receiver.cpp and a queued signal; the  *)
(* "yolov5" ones are what the follower (RobotDrive) goes after.            *)
(*                                                                         *)
(* QProcess learns in the event loop that its process has started or is    *)
(* gone, after the fact.  A report is whether it has a person.             *)
(***************************************************************************)
EXTENDS Integers, Sequences

CONSTANTS
  Types,          \* the detectors: "yolov5", "fall", "fire"
  MaxLink, MaxDets \* bounds on messages and on reports under way

ASSUME SwitchAssumption ==
  /\ Types \cap {"none", "off"} = {}
  /\ MaxLink \in Nat \ {0} /\ MaxDets \in Nat \ {0}

VARIABLES
  call,      \* "down", "connecting" (the data channel is not open) or "up"
  ending,    \* the signal still to come that tells a window of the end
  enabled,   \* the windows whose detector buttons are enabled
  to_robot, to_operator,  \* the data channel
  ai_active_type_,        \* the operator's window
  ai_type_,  \* the robot's window
  state,     \* what its QProcess says: ai_proc_->state()
  model,     \* what the process runs, "none" when it is gone
  rx,        \* the receiver's connection: "none", "open", "eof" to be read
  dets,      \* detectionsReady signals not handled yet
  track_timer_, track_target_valid_,
  unheard    \* windows with a detector the other has not heard of

callState == <<call, ending, enabled>>
link      == <<to_robot, to_operator>>
process   == <<state, model>>
track     == <<track_timer_, track_target_valid_>>
switchVars == <<callState, link, ai_active_type_, ai_type_, process, rx, dets,
                track, unheard>>

Sides == {"operator", "robot"}

(* Of a call that its partner or the server ends a window is told by       *)
(* callDisconnected, of one that its own engine loses with the server by   *)
(* serverDisconnected, and of one that ends with its daemon by the control *)
(* channel, disconnected.                                                  *)
Endings == {"callDisconnected", "serverDisconnected", "disconnected"}

(* is_call_active_, from callConnected until one of these is handled.      *)
InCall(w) == call # "down" \/ ending[w] # "none"

Told(w) == ending' = [ending EXCEPT ![w] = "none"]

(* A detector the other window is not told of, or forgets.                 *)
Unsaid(w, t) == unheard' = IF t = "none" THEN unheard ELSE unheard \cup {w}

SwitchInit ==
  /\ call = "down" /\ ending = [w \in Sides |-> "none"] /\ enabled = {}
  /\ to_robot = <<>> /\ to_operator = <<>>
  /\ ai_active_type_ = "none" /\ ai_type_ = "none"
  /\ state = "NotRunning" /\ model = "none"
  /\ rx = "none" /\ dets = <<>>
  /\ track_timer_ = FALSE /\ track_target_valid_ = FALSE
  /\ unheard = {}

-----------------------------------------------------------------------------
(* The operator's window.  A message is the type for AI:ON, or "off".      *)

(* cmdSendData, here and there: dropped unless the data channel is open.   *)
Through(queue, msgs) == IF call = "up" THEN queue \o msgs ELSE queue

toggleAi(t) ==
  /\ "operator" \in enabled /\ InCall("operator")
  /\ Len(to_robot) + 2 <= MaxLink
  /\ IF ai_active_type_ = t
     THEN /\ to_robot' = Through(to_robot, <<"off">>)
          /\ ai_active_type_' = "none"
     ELSE /\ to_robot' = Through(to_robot,
                IF ai_active_type_ = "none" THEN <<t>> ELSE <<"off", t>>)
          /\ ai_active_type_' = t
  /\ unheard' = IF call = "up" THEN unheard ELSE unheard \cup {"operator"}
  /\ UNCHANGED <<callState, to_operator, ai_type_, process, rx, dets, track>>

(* AI:ON_OK of a type, or AI:OFF_OK.                                       *)
OperatorHears ==
  /\ to_operator # <<>>
  /\ to_operator' = Tail(to_operator)
  /\ ai_active_type_' =
       IF Head(to_operator) = "off" THEN "none" ELSE Head(to_operator)
  /\ UNCHANGED <<callState, to_robot, ai_type_, process, rx, dets, track,
                 unheard>>

(* callDisconnected or serverDisconnected.                                 *)
OperatorCallEnds ==
  /\ ending["operator"] \in {"callDisconnected", "serverDisconnected"}
  /\ ai_active_type_' = "none"
  /\ enabled' = enabled \ {"operator"}
  /\ unheard' = unheard \ {"operator"}

(* onControlDisconnected: the detector stays on the screen.                *)
OperatorLosesDaemon ==
  /\ ending["operator"] = "disconnected"
  /\ Unsaid("operator", ai_active_type_)
  /\ UNCHANGED <<ai_active_type_, enabled>>

(* The end comes after what was received before it.                        *)
OperatorTold ==
  /\ to_operator = <<>>
  /\ OperatorCallEnds \/ OperatorLosesDaemon
  /\ Told("operator")
  /\ UNCHANGED <<call, link, ai_type_, process, rx, dets, track>>

-----------------------------------------------------------------------------
(* The robot's window.                                                     *)

(* The death of the process, as its socket shows it.                       *)
ClosedByPeer == rx' = IF rx = "open" THEN "eof" ELSE rx

(* Mutant of ForgetTarget: leaves the timer running.                       *)
ForgetTargetOnly == track_target_valid_' = FALSE /\ UNCHANGED track_timer_

ForgetTarget == track_target_valid_' = FALSE /\ track_timer_' = FALSE

(* stopAi; then startAi, unless t is "none".  stopAi ends the process only *)
(* if QProcess has learned that it started, and waits until it is gone;    *)
(* a start with the process there is ignored, but its type is taken.       *)
StopThenStart(t) ==
  /\ IF state = "Starting" THEN UNCHANGED <<process, rx>>
     ELSE /\ ClosedByPeer
          /\ model' = t
          /\ state' = IF t = "none" THEN "NotRunning" ELSE "Starting"
  /\ ai_type_' = t
  /\ ForgetTarget

(* Mutant of Reply: tells the operator's window of what was started only.  *)
ReplyOnly(t) ==
  /\ Len(to_operator) < MaxLink
  /\ to_operator' = IF t = "none" THEN to_operator
                    ELSE Through(to_operator, <<t>>)
  /\ unheard' = IF call = "up" THEN {} ELSE unheard \cup {"robot"}

(* AI:ON_OK or AI:OFF_OK.                                                  *)
Reply(t) ==
  /\ Len(to_operator) < MaxLink
  /\ to_operator' = Through(to_operator, <<IF t = "none" THEN "off" ELSE t>>)
  /\ unheard' = IF call = "up" THEN {} ELSE unheard \cup {"robot"}

(* dataReceived: AI:ON of a type, or AI:OFF.                               *)
RobotHears ==
  /\ to_robot # <<>>
  /\ to_robot' = Tail(to_robot)
  /\ LET t == IF Head(to_robot) = "off" THEN "none" ELSE Head(to_robot)
     IN  StopThenStart(t) /\ Reply(t)
  /\ UNCHANGED <<callState, ai_active_type_, dets>>

RobotButton(t) ==
  /\ "robot" \in enabled
  /\ LET on == IF ai_type_ = t /\ state = "Running" THEN "none" ELSE t
     IN  StopThenStart(on) /\ Reply(on)
  /\ UNCHANGED <<callState, to_robot, ai_active_type_, dets>>

(* callDisconnected *)
RobotCallEnds ==
  /\ ending["robot"] = "callDisconnected"
  /\ StopThenStart("none")
  /\ enabled' = enabled \ {"robot"}
  /\ unheard' = unheard \ {"robot"}

(* serverDisconnected, onControlDisconnected: the detector goes on, and    *)
(* the buttons stay enabled.                                               *)
RobotCallLost ==
  /\ ending["robot"] \in {"serverDisconnected", "disconnected"}
  /\ Unsaid("robot", ai_type_)
  /\ UNCHANGED <<enabled, ai_type_, process, rx, track>>

RobotTold ==
  /\ to_robot = <<>>
  /\ RobotCallEnds \/ RobotCallLost
  /\ Told("robot")
  /\ UNCHANGED <<call, link, ai_active_type_, dets>>

DetectorStarted ==
  /\ state = "Starting"
  /\ state' = "Running"
  /\ UNCHANGED <<callState, link, ai_active_type_, ai_type_, model, rx,
                 dets, track,
                 unheard>>

(* errorOccurred(FailedToStart): the type stays, there is no finished().   *)
DetectorFailedToStart ==
  /\ state = "Starting" /\ rx # "open"
  /\ state' = "NotRunning" /\ model' = "none"
  /\ UNCHANGED <<callState, link, ai_active_type_, ai_type_, rx, dets,
                 track, unheard>>

(* finished(), of a process that ended by itself: nothing is said of it,   *)
(* and the follower is left as it is.                                      *)
DetectorFinished ==
  /\ state = "Running" /\ model = "none"
  /\ state' = "NotRunning"
  /\ ai_type_' = "none"
  /\ Unsaid("robot", ai_type_)
  /\ UNCHANGED <<callState, link, ai_active_type_, model, rx, dets, track>>

(* onAiDetections, findTrackTarget.                                        *)
OnAiDetections ==
  /\ dets # <<>>
  /\ dets' = Tail(dets)
  /\ IF ai_type_ = "yolov5"
     THEN /\ track_target_valid_' = Head(dets)
          /\ track_timer_' = (track_timer_ \/ Head(dets))
     ELSE UNCHANGED track
  /\ UNCHANGED <<callState, link, ai_active_type_, ai_type_, process, rx,
                 unheard>>

-----------------------------------------------------------------------------
(* The detector, the receiver's thread, the call.                          *)

Dies ==
  /\ model # "none"
  /\ model' = "none"
  /\ ClosedByPeer
  /\ UNCHANGED <<callState, link, ai_active_type_, ai_type_, state, dets,
                 track, unheard>>

Accept ==
  /\ rx = "none" /\ model # "none"
  /\ rx' = "open"
  /\ UNCHANGED <<callState, link, ai_active_type_, ai_type_, process, dets,
                 track, unheard>>

Report ==
  /\ rx = "open" /\ Len(dets) < MaxDets
  /\ \E person \in BOOLEAN : dets' = Append(dets, person)
  /\ UNCHANGED <<callState, link, ai_active_type_, ai_type_, process, rx,
                 track, unheard>>

(* Mutant of DetectorDisconnected: keeps the connection that is at its end.*)
DetectorDisconnectedKept ==
  /\ rx = "eof" /\ Len(dets) < MaxDets
  /\ dets' = Append(dets, FALSE)
  /\ UNCHANGED <<callState, link, ai_active_type_, ai_type_, process, rx,
                 track, unheard>>

(* The receiver closes the connection and clears the boxes.                *)
DetectorDisconnected ==
  /\ rx = "eof" /\ Len(dets) < MaxDets
  /\ rx' = "none"
  /\ dets' = Append(dets, FALSE)
  /\ UNCHANGED <<callState, link, ai_active_type_, ai_type_, process,
                 track, unheard>>

CallConnects ==
  /\ call = "down" /\ \A w \in Sides : ending[w] = "none"
  /\ call' = "connecting"
  /\ enabled' = enabled \cup {"robot"}
  /\ UNCHANGED <<ending, link, ai_active_type_, ai_type_, process, rx, dets,
                 track, unheard>>

ChannelOpens ==
  /\ call = "connecting"
  /\ call' = "up"
  /\ enabled' = enabled \cup {"operator"}
  /\ UNCHANGED <<ending, link, ai_active_type_, ai_type_, process, rx, dets,
                 track, unheard>>

(* Each window is told in its own way, after what its daemon received.     *)
CallBreaks ==
  /\ call # "down"
  /\ call' = "down"
  /\ ending' \in [Sides -> Endings]
  /\ \E n \in 0 .. Len(to_robot) : to_robot' = SubSeq(to_robot, 1, n)
  /\ \E n \in 0 .. Len(to_operator) : to_operator' = SubSeq(to_operator, 1, n)
  /\ UNCHANGED <<enabled, ai_active_type_, ai_type_, process, rx, dets, track,
                 unheard>>

-----------------------------------------------------------------------------
Windows == OperatorHears \/ OperatorTold \/ RobotHears \/ RobotTold
Loop == \/ DetectorStarted \/ DetectorFailedToStart \/ DetectorFinished
        \/ OnAiDetections
Receiver == Accept \/ DetectorDisconnected

SwitchNext ==
  \/ \E t \in Types : toggleAi(t) \/ RobotButton(t)
  \/ Windows \/ Loop \/ Receiver \/ Dies \/ Report
  \/ CallConnects \/ ChannelOpens \/ CallBreaks

SwitchSpec == SwitchInit /\ [][SwitchNext]_switchVars

(* The robot's window handles its signals and the receiver's thread runs.  *)
SwitchFairness == WF_switchVars(OnAiDetections) /\ WF_switchVars(Receiver)

SwitchFairSpec == SwitchSpec /\ SwitchFairness

-----------------------------------------------------------------------------
(* With no message under way both windows show the same detector, however  *)
(* their buttons crossed and the last call ended, unless a window came by  *)
(* its detector with no way to say so and the robot has said nothing since:*)
(* it was switched while the data channel was not open, it outlived a call *)
(* of whose end callDisconnected did not tell its window, or the robot's   *)
(* process ended.                                                          *)
ScreensAgree ==
  call = "up" /\ to_robot = <<>> /\ to_operator = <<>> =>
    ai_active_type_ = ai_type_ \/ unheard # {}

(* The robot never follows while another detector than "yolov5" is on,     *)
(* nor while the process of one that was switched off goes on.             *)
FollowsYoloOnly ==
  track_timer_ =>
    ai_type_ = "yolov5" \/ (ai_type_ = "none" /\ state = "NotRunning")

(* A detector is listened to, also when it comes before the end of the     *)
(* last one was noticed: the receiver takes one connection at a time.      *)
DetectorHeard == model # "none" ~> rx = "open" \/ model = "none"
=============================================================================
