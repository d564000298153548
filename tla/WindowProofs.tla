---------------------------- MODULE WindowProofs ----------------------------
(***************************************************************************)
(* Proofs about two parts of the desktop windows that share no state: the  *)
(* detectors (AiSwitch) and the daemon (DaemonControl).  They hold for any *)
(* detectors, retries and bounds.                                          *)
(***************************************************************************)
EXTENDS AiSwitch, DaemonControl, SequenceTheorems, TLAPS

-----------------------------------------------------------------------------
(* The detectors.                                                          *)

(* The follower goes after what the person detector saw, and after nothing *)
(* else: whatever order messages, buttons, detections, deaths and calls    *)
(* come in, the timer runs only with "yolov5" on, or with no process left. *)
(* Only OnAiDetections starts the timer, and whoever takes another type    *)
(* has StopThenStart stop it.                                              *)
THEOREM OnlyYoloFollowed == SwitchSpec => []FollowsYoloOnly
<1>1. SwitchInit => FollowsYoloOnly
  BY DEF SwitchInit, FollowsYoloOnly
<1>2. FollowsYoloOnly /\ [SwitchNext]_switchVars => FollowsYoloOnly'
  <2> SUFFICES ASSUME FollowsYoloOnly, [SwitchNext]_switchVars
               PROVE  FollowsYoloOnly'
    OBVIOUS
  <2> USE DEF FollowsYoloOnly
  <2>1. ASSUME UNCHANGED <<track_timer_, ai_type_, state>>
        PROVE  FollowsYoloOnly'
    BY <2>1
  <2>2. ASSUME NEW t, StopThenStart(t) PROVE FollowsYoloOnly'
    BY <2>2 DEF StopThenStart, ForgetTarget
  <2>3. ASSUME Loop PROVE FollowsYoloOnly'
    BY <2>3 DEF Loop, DetectorStarted, DetectorFailedToStart, DetectorFinished,
       OnAiDetections, track, process
  <2>4. ASSUME ~Loop, ~ \E t : StopThenStart(t)
        PROVE  UNCHANGED <<track_timer_, ai_type_, state>>
    BY <2>4 DEF SwitchNext, toggleAi, RobotButton, Windows, OperatorHears,
       OperatorTold, RobotHears, RobotTold, RobotCallEnds, RobotCallLost,
       Receiver, Accept, DetectorDisconnected, Dies, Report, CallConnects,
       ChannelOpens, CallBreaks, switchVars, process, track
  <2> QED
    BY <2>1, <2>2, <2>3, <2>4
<1> QED
  BY <1>1, <1>2, PTL DEF SwitchSpec

(* What a window says of a detector, and how the other takes it.           *)
Said(t) == IF t = "none" THEN "off" ELSE t

Msgs == Types \cup {"off"}

SwitchTypeOK ==
  /\ call \in {"down", "connecting", "up"}
  /\ ending \in [Sides -> Endings \cup {"none"}]
  /\ to_robot \in Seq(Msgs) /\ to_operator \in Seq(Msgs)
  /\ ai_active_type_ \in Types \cup {"none"}
  /\ ai_type_ \in Types \cup {"none"}
  /\ unheard \in SUBSET Sides

(* While the channel is open: the robot's type is the last thing it said;  *)
(* or it has a message still to hear, which it will answer; or both agree. *)
InStep ==
  call = "up" =>
    \/ unheard # {}
    \/ /\ to_operator # <<>>
       /\ to_operator[Len(to_operator)] = Said(ai_type_)
    \/ /\ to_operator = <<>>
       /\ to_robot # <<>> \/ ai_active_type_ = ai_type_

(* Between calls: what is said is lost, and a window that was told of the  *)
(* end has its detector off, or has one the other has not heard of.        *)
Apart ==
  /\ call # "down" => \A w \in Sides : ending[w] = "none"
  /\ call # "up" =>
       /\ ending["operator"] = "none" =>
            to_operator = <<>> /\ (ai_active_type_ = "none" \/ "operator" \in unheard)
       /\ ending["robot"] = "none" =>
            to_robot = <<>> /\ (ai_type_ = "none" \/ "robot" \in unheard)

SwitchInv == SwitchTypeOK /\ InStep /\ Apart

(* A message gets through to the end of the queue, or not at all.          *)
LEMMA ThroughProperties ==
  ASSUME NEW q \in Seq(Msgs), NEW s \in Seq(Msgs), s # <<>>
  PROVE  /\ Through(q, s) \in Seq(Msgs)
         /\ call # "up" => Through(q, s) = q
         /\ call = "up" => /\ Through(q, s) # <<>>
                           /\ Through(q, s)[Len(Through(q, s))] = s[Len(s)]
<1>1. /\ q \o s \in Seq(Msgs) /\ Len(q \o s) = Len(q) + Len(s)
      /\ \A i \in 1 .. Len(q) + Len(s) :
           (q \o s)[i] = IF i <= Len(q) THEN q[i] ELSE s[i - Len(q)]
  BY ConcatProperties
<1>2. Len(q) \in Nat /\ Len(s) \in Nat \ {0}
  BY EmptySeq, LenProperties
<1>3. q \o s # <<>>
  BY <1>1, <1>2
<1>4. (q \o s)[Len(q \o s)] = s[Len(s)]
  BY <1>1, <1>2
<1> QED
  BY <1>1, <1>3, <1>4 DEF Through

LEMMA Replied ==
  ASSUME SwitchInv, NEW t \in Types \cup {"none"}, StopThenStart(t), Reply(t),
         UNCHANGED <<call, ending, ai_active_type_>>,
         \/ UNCHANGED to_robot
         \/ to_robot # <<>> /\ to_robot' = Tail(to_robot)
  PROVE  SwitchInv'
<1> USE SwitchAssumption
<1>1. SwitchTypeOK /\ InStep /\ Apart
  BY DEF SwitchInv
<1>2. <<Said(t)>> \in Seq(Msgs) /\ <<Said(t)>> # <<>>
      /\ <<Said(t)>>[Len(<<Said(t)>>)] = Said(t)
  BY DEF Said, Msgs
<1>3. /\ to_operator' = Through(to_operator, <<Said(t)>>)
      /\ unheard' = IF call = "up" THEN {} ELSE unheard \cup {"robot"}
      /\ ai_type_' = t
  BY DEF Reply, StopThenStart, Said
<1>4. /\ to_operator' \in Seq(Msgs)
      /\ call # "up" => UNCHANGED to_operator
      /\ call = "up" => /\ to_operator' # <<>>
                        /\ to_operator'[Len(to_operator')] = Said(t)
  <2>1. to_operator \in Seq(Msgs)
    BY <1>1 DEF SwitchTypeOK
  <2> QED
    BY <2>1, <1>2, <1>3, ThroughProperties
<1>5. to_robot' \in Seq(Msgs)
  BY <1>1, HeadTailProperties DEF SwitchTypeOK
<1>6. SwitchTypeOK'
  BY <1>1, <1>3, <1>4, <1>5 DEF SwitchTypeOK, Sides
<1>7. InStep'
  BY <1>1, <1>3, <1>4 DEF InStep
<1>8. Apart'
  BY <1>1, <1>3, <1>4, EmptySeq DEF Apart, SwitchTypeOK
<1> QED
  BY <1>6, <1>7, <1>8 DEF SwitchInv

LEMMA SwitchInvNext == SwitchInv /\ [SwitchNext]_switchVars => SwitchInv'
<1> SUFFICES ASSUME SwitchInv, [SwitchNext]_switchVars PROVE SwitchInv'
  OBVIOUS
<1> USE SwitchAssumption
<1>0. SwitchTypeOK /\ InStep /\ Apart
  BY DEF SwitchInv
<1> HIDE DEF SwitchInv
<1>1. ASSUME NEW t \in Types, toggleAi(t) PROVE SwitchInv'
  <2>1. to_robot \in Seq(Msgs)
    BY <1>0 DEF SwitchTypeOK
  <2>2. PICK s \in Seq(Msgs) : s # <<>> /\ to_robot' = Through(to_robot, s)
    <3>1. /\ <<"off">> \in Seq(Msgs) /\ <<"off">> # <<>>
          /\ <<t>> \in Seq(Msgs) /\ <<t>> # <<>>
          /\ <<"off", t>> \in Seq(Msgs) /\ <<"off", t>> # <<>>
      BY DEF Msgs
    <3> DEFINE s == IF ai_active_type_ = t THEN <<"off">>
                    ELSE IF ai_active_type_ = "none" THEN <<t>>
                    ELSE <<"off", t>>
    <3>2. s = <<"off">> \/ s = <<t>> \/ s = <<"off", t>>
      OBVIOUS
    <3>3. to_robot' = Through(to_robot, s)
      BY <1>1 DEF toggleAi
    <3> QED
      BY <3>1, <3>2, <3>3
  <2>3. /\ to_robot' \in Seq(Msgs)
        /\ IF call = "up" THEN to_robot' # <<>> ELSE to_robot' = to_robot
    BY <2>1, <2>2, ThroughProperties
  <2>4. SwitchTypeOK'
    BY <1>0, <1>1, <2>3 DEF SwitchTypeOK, toggleAi, callState, Sides
  <2>5. InStep'
    BY <1>0, <1>1, <2>3 DEF InStep, toggleAi, callState
  <2>6. Apart'
    BY <1>0, <1>1, <2>3 DEF Apart, SwitchTypeOK, toggleAi, callState
  <2> QED
    BY <2>4, <2>5, <2>6 DEF SwitchInv
<1>2. ASSUME OperatorHears PROVE SwitchInv'
  <2>1. to_operator \in Seq(Msgs) /\ to_operator # <<>>
    BY <1>0, <1>2 DEF SwitchTypeOK, OperatorHears
  <2>2. /\ Head(to_operator) \in Msgs
        /\ Tail(to_operator) \in Seq(Msgs)
        /\ Len(Tail(to_operator)) = Len(to_operator) - 1
        /\ \A i \in 1 .. Len(Tail(to_operator)) :
             Tail(to_operator)[i] = to_operator[i + 1]
        /\ Len(to_operator) \in Nat \ {0}
        /\ Head(to_operator) = to_operator[1]
    BY <2>1, HeadTailProperties, EmptySeq
  <2>3. \/ /\ to_operator' # <<>>
           /\ to_operator'[Len(to_operator')] = to_operator[Len(to_operator)]
        \/ /\ to_operator' = <<>>
           /\ Head(to_operator) = to_operator[Len(to_operator)]
    <3>1. CASE Len(to_operator) = 1
      <4>1. Len(Tail(to_operator)) = 0
        BY <2>2, <3>1
      <4>2. Tail(to_operator) = <<>>
        BY <2>2, <4>1, EmptySeq
      <4> QED
        BY <1>2, <2>2, <3>1, <4>2 DEF OperatorHears
    <3>2. CASE Len(to_operator) > 1
      <4> DEFINE n == Len(to_operator)
      <4>1. n - 1 \in 1 .. n - 1 /\ (n - 1) + 1 = n
        BY <2>2, <3>2
      <4>2. Tail(to_operator)[n - 1] = to_operator[n]
        BY <2>2, <4>1
      <4>3. Tail(to_operator) # <<>>
        BY <2>2, <4>1
      <4> QED
        BY <1>2, <2>2, <4>2, <4>3 DEF OperatorHears
    <3> QED
      BY <2>2, <3>1, <3>2
  <2>4. SwitchTypeOK'
    BY <1>0, <1>2, <2>2 DEF SwitchTypeOK, OperatorHears, callState, Msgs
  <2>5. InStep'
    BY <1>0, <1>2, <2>1, <2>3
       DEF InStep, SwitchTypeOK, OperatorHears, callState, Said
  <2>6. Apart'
    BY <1>0, <1>2, <2>1 DEF Apart, SwitchTypeOK, OperatorHears, callState
  <2> QED
    BY <2>4, <2>5, <2>6 DEF SwitchInv
<1>3. ASSUME OperatorTold PROVE SwitchInv'
  <2>1. /\ ending["operator"] # "none" /\ to_operator = <<>>
        /\ ending' = [ending EXCEPT !["operator"] = "none"]
        /\ UNCHANGED <<call, to_robot, to_operator, ai_type_>>
        /\ unheard' \in SUBSET (unheard \cup {"operator"})
        /\ unheard \ {"operator"} \subseteq unheard'
        /\ ai_active_type_' = "none"
             \/ (UNCHANGED ai_active_type_ /\ "operator" \in unheard')
    <3>1. CASE OperatorCallEnds
      BY <1>3, <3>1 DEF OperatorTold, OperatorCallEnds, Told, link
    <3>2. CASE OperatorLosesDaemon
      BY <1>3, <3>2 DEF OperatorTold, OperatorLosesDaemon, Unsaid, Told, link
    <3> QED
      BY <1>3, <3>1, <3>2 DEF OperatorTold
  <2>2. SwitchTypeOK'
    BY <1>0, <2>1 DEF SwitchTypeOK, Sides
  <2>3. InStep'
    BY <1>0, <2>1 DEF InStep, Apart, Sides
  <2>4. Apart'
    BY <1>0, <2>1 DEF Apart, SwitchTypeOK, Sides
  <2> QED
    BY <2>2, <2>3, <2>4 DEF SwitchInv
<1>4. ASSUME RobotHears PROVE SwitchInv'
  <2> DEFINE t == IF Head(to_robot) = "off" THEN "none" ELSE Head(to_robot)
  <2>1. t \in Types \cup {"none"}
    BY <1>0, <1>4, HeadTailProperties DEF RobotHears, SwitchTypeOK, Msgs
  <2>2. /\ StopThenStart(t) /\ Reply(t)
        /\ UNCHANGED <<call, ending, ai_active_type_>>
        /\ to_robot # <<>> /\ to_robot' = Tail(to_robot)
    BY <1>4 DEF RobotHears, callState
  <2> QED
    BY <2>1, <2>2, Replied
<1>5. ASSUME NEW t \in Types, RobotButton(t) PROVE SwitchInv'
  <2> DEFINE on == IF ai_type_ = t /\ state = "Running" THEN "none" ELSE t
  <2>1. on \in Types \cup {"none"}
    OBVIOUS
  <2>2. /\ StopThenStart(on) /\ Reply(on)
        /\ UNCHANGED <<call, ending, ai_active_type_, to_robot>>
    BY <1>5 DEF RobotButton, callState
  <2> QED
    BY <2>1, <2>2, Replied
<1>6. ASSUME RobotTold PROVE SwitchInv'
  <2>1. /\ ending["robot"] # "none" /\ to_robot = <<>>
        /\ ending' = [ending EXCEPT !["robot"] = "none"]
        /\ UNCHANGED <<call, to_robot, to_operator, ai_active_type_>>
        /\ unheard' \in SUBSET (unheard \cup {"robot"})
        /\ unheard \ {"robot"} \subseteq unheard'
        /\ ai_type_' = "none" 
             \/ (UNCHANGED ai_type_ /\ "robot" \in unheard')
    <3>1. CASE RobotCallEnds
      BY <1>6, <3>1 DEF RobotTold, RobotCallEnds, StopThenStart, Told, link
    <3>2. CASE RobotCallLost
      BY <1>6, <3>2 DEF RobotTold, RobotCallLost, Unsaid, Told, link
    <3> QED
      BY <1>6, <3>1, <3>2 DEF RobotTold
  <2>2. SwitchTypeOK'
    BY <1>0, <2>1 DEF SwitchTypeOK, Sides
  <2>3. InStep'
    BY <1>0, <2>1 DEF InStep, Apart, Sides
  <2>4. Apart'
    BY <1>0, <2>1 DEF Apart, SwitchTypeOK, Sides
  <2> QED
    BY <2>2, <2>3, <2>4 DEF SwitchInv
<1>7. ASSUME DetectorFinished PROVE SwitchInv'
  <2>1. /\ ai_type_' = "none"
        /\ unheard' = IF ai_type_ = "none" THEN unheard
                      ELSE unheard \cup {"robot"}
        /\ UNCHANGED <<call, ending, to_robot, to_operator, ai_active_type_>>
    BY <1>7 DEF DetectorFinished, Unsaid, callState, link
  <2>2. SwitchTypeOK'
    BY <1>0, <2>1 DEF SwitchTypeOK, Sides
  <2>3. InStep'
    BY <1>0, <2>1 DEF InStep, SwitchTypeOK
  <2>4. Apart'
    BY <1>0, <2>1 DEF Apart
  <2> QED
    BY <2>2, <2>3, <2>4 DEF SwitchInv
<1>8. ASSUME CallConnects \/ ChannelOpens PROVE SwitchInv'
  <2>1. /\ call' \in {"connecting", "up"} /\ call # "up"
        /\ call = "down" => call' = "connecting"
        /\ \A w \in Sides : ending[w] = "none"
        /\ UNCHANGED <<ending, link, ai_active_type_, ai_type_, unheard>>
    BY <1>0, <1>8 DEF CallConnects, ChannelOpens, Apart
  <2>2. SwitchTypeOK'
    BY <1>0, <2>1 DEF SwitchTypeOK, link
  <2>3. InStep'
    BY <1>0, <2>1 DEF InStep, Apart, Sides, SwitchTypeOK, link
  <2>4. Apart'
    BY <1>0, <2>1 DEF Apart, Sides, link
  <2> QED
    BY <2>2, <2>3, <2>4 DEF SwitchInv
<1>11. ASSUME CallBreaks PROVE SwitchInv'
  <2>1. to_robot' \in Seq(Msgs) /\ to_operator' \in Seq(Msgs)
    BY <1>0, <1>11 DEF CallBreaks, SwitchTypeOK
  <2>2. /\ call' = "down" /\ ending' \in [Sides -> Endings]
        /\ UNCHANGED <<ai_active_type_, ai_type_, unheard>>
    BY <1>11 DEF CallBreaks
  <2>3. SwitchTypeOK'
    BY <1>0, <2>1, <2>2 DEF SwitchTypeOK
  <2>4. InStep'
    BY <2>2 DEF InStep
  <2>5. Apart'
    BY <2>2 DEF Apart, Sides, Endings
  <2> QED
    BY <2>3, <2>4, <2>5 DEF SwitchInv
<1>9. ASSUME UNCHANGED <<callState, link, ai_active_type_, ai_type_, unheard>>
      PROVE  SwitchInv'
  BY <1>0, <1>9 DEF callState, link, SwitchInv, SwitchTypeOK, InStep, Apart
<1>10. ASSUME DetectorStarted \/ DetectorFailedToStart \/ OnAiDetections
                \/ Receiver \/ Dies \/ Report \/ UNCHANGED switchVars
       PROVE  UNCHANGED <<callState, link, ai_active_type_, ai_type_, unheard>>
  BY <1>10 DEF DetectorStarted, DetectorFailedToStart, OnAiDetections, Receiver,
     Accept, DetectorDisconnected, Dies, Report, switchVars
<1> QED
  BY <1>1, <1>2, <1>3, <1>4, <1>5, <1>6, <1>7, <1>8, <1>9, <1>10,
     <1>11 DEF SwitchNext, Windows, Loop

(* However the buttons of the two windows cross, and whatever the detector *)
(* does meanwhile, both windows show the same one once nothing is under    *)
(* way, or the robot's changed with no way to say so.                      *)
THEOREM WindowsAgree == SwitchSpec => []ScreensAgree
<1>1. SwitchInit => SwitchInv
  BY EmptySeq DEF SwitchInit, SwitchInv, SwitchTypeOK, InStep, Apart, Sides
<1>2. SwitchInv => ScreensAgree
  BY DEF SwitchInv, InStep, ScreensAgree
<1> QED
  BY <1>1, <1>2, SwitchInvNext, PTL DEF SwitchSpec

-----------------------------------------------------------------------------
(* The daemon.                                                             *)

Events == {"server_connected", "server_disconnected", "call_connected",
           "call_disconnected"}
Ends == {"call_disconnected", "server_disconnected"}

(* The window shows a call, or will once it has handled what is under way. *)
Shown(active, queue) ==
  \/ active /\ \A j \in 1 .. Len(queue) : queue[j] \notin Ends
  \/ \E i \in 1 .. Len(queue) :
       /\ queue[i] = "call_connected"
       /\ \A j \in i + 1 .. Len(queue) : queue[j] \notin Ends

ControlTypeOK ==
  /\ events \in Seq(Events) /\ sock \in {"off", "on", "broken"}
  /\ alive \in BOOLEAN /\ is_call_active_ \in BOOLEAN

(* A channel that is off says nothing, and one that is on has a process.   *)
ChannelOK ==
  /\ sock = "off" => events = <<>> /\ ~is_call_active_
  /\ sock = "on" => alive
  /\ proc = "NotRunning" => ~alive

(* While the channel is on, the last word of the daemon on a call is true. *)
LastWord == sock = "on" /\ Shown(is_call_active_, events) => daemon = "call"

ControlInv == ControlTypeOK /\ ChannelOK /\ LastWord

LEMMA ShownNothing == Shown(FALSE, <<>>) = FALSE
BY DEF Shown

(* The end of a call is the last word; another event changes nothing, but  *)
(* for the beginning of one.                                               *)
LEMMA ShownEmitted ==
  ASSUME NEW active \in BOOLEAN, NEW q \in Seq(Events), NEW e \in Events
  PROVE  /\ Append(q, e) \in Seq(Events)
         /\ e \in Ends => ~Shown(active, Append(q, e))
         /\ e = "server_connected" /\ Shown(active, Append(q, e)) =>
              Shown(active, q)
<1>1. /\ Append(q, e) \in Seq(Events) /\ Len(Append(q, e)) = Len(q) + 1
      /\ \A i \in 1 .. Len(q) : Append(q, e)[i] = q[i]
      /\ Append(q, e)[Len(q) + 1] = e
      /\ Len(q) \in Nat
  BY AppendProperties, LenProperties
<1> QED
  BY <1>1 DEF Shown, Ends, Events

(* Handling the first event leaves the last word what it was.              *)
LEMMA ShownHandled ==
  ASSUME NEW active \in BOOLEAN, NEW q \in Seq(Events), q # <<>>,
         NEW now \in BOOLEAN,
         now => Head(q) = "call_connected"
                  \/ (active /\ Head(q) = "server_connected"),
         Shown(now, Tail(q))
  PROVE  Shown(active, q)
<1> DEFINE t == Tail(q)
<1>1. /\ Len(q) \in Nat \ {0} /\ Len(t) = Len(q) - 1 /\ Head(q) = q[1]
      /\ \A i \in 1 .. Len(t) : t[i] = q[i + 1]
  BY HeadTailProperties, EmptySeq
<1>2. ASSUME NEW i \in 0 .. Len(t),
             \A j \in i + 1 .. Len(t) : t[j] \notin Ends
      PROVE  \A j \in i + 2 .. Len(q) : q[j] \notin Ends
  <2> SUFFICES ASSUME NEW j \in i + 2 .. Len(q) PROVE q[j] \notin Ends
    OBVIOUS
  <2>1. j - 1 \in i + 1 .. Len(t) /\ j - 1 \in 1 .. Len(t) /\ (j - 1) + 1 = j
    BY <1>1
  <2>2. t[j - 1] = q[j]
    BY <1>1, <2>1
  <2>3. t[j - 1] \notin Ends
    BY <1>2, <2>1
  <2> QED
    BY <2>2, <2>3
<1>3. CASE now /\ \A j \in 1 .. Len(t) : t[j] \notin Ends
  <2>1. 0 \in 0 .. Len(t) /\ 0 + 1 = 1 /\ 0 + 2 = 2
    BY <1>1
  <2>2. \A j \in 2 .. Len(q) : q[j] \notin Ends
    <3>1. \A j \in 0 + 1 .. Len(t) : t[j] \notin Ends
      BY <1>3, <2>1
    <3>2. \A j \in 0 + 2 .. Len(q) : q[j] \notin Ends
      BY <1>2, <2>1, <3>1
    <3> QED
      BY <2>1, <3>2
  <2> QED
    BY <1>1, <1>3, <2>2 DEF Shown, Ends
<1>4. CASE \E i \in 1 .. Len(t) :
             /\ t[i] = "call_connected"
             /\ \A j \in i + 1 .. Len(t) : t[j] \notin Ends
  <2>1. PICK i \in 1 .. Len(t) :
              /\ t[i] = "call_connected"
              /\ \A j \in i + 1 .. Len(t) : t[j] \notin Ends
    BY <1>4
  <2>2. \A j \in i + 2 .. Len(q) : q[j] \notin Ends
    BY <1>1, <1>2, <2>1
  <2>3. i + 1 \in 1 .. Len(q) /\ q[i + 1] = "call_connected"
        /\ (i + 1) + 1 = i + 2
    BY <1>1, <2>1
  <2> QED
    BY <2>2, <2>3 DEF Shown
<1> QED
  BY <1>3, <1>4 DEF Shown

(* What starts the process finds none and no channel that is on.           *)
LEMMA StartedProcess ==
  ASSUME ControlInv, StartProcess, UNCHANGED <<is_call_active_, sock, events>>
  PROVE  ControlInv'
BY DEF ControlInv, ControlTypeOK, ChannelOK, LastWord, StartProcess

(* What ends it leaves no channel that is on.                              *)
LEMMA EndedProcess ==
  ASSUME ControlInv, Gone, UNCHANGED events,
         is_call_active_' = FALSE \/ UNCHANGED is_call_active_
  PROVE  ControlInv'
<1>1. ControlTypeOK /\ ChannelOK
  BY DEF ControlInv
<1>2. ControlTypeOK' /\ sock' # "on"
  BY <1>1 DEF ControlTypeOK, Gone, Unnoticed
<1>3. ChannelOK'
  BY <1>1, <1>2 DEF ControlTypeOK, ChannelOK, Gone, Unnoticed
<1> QED
  BY <1>2, <1>3 DEF ControlInv, LastWord

(* What the daemon says, if it says the end of a call or no call begins.   *)
LEMMA Emitted ==
  ASSUME ControlInv, NEW e \in Events, Emit(e),
         UNCHANGED <<is_call_active_, sock, alive, proc>>,
         \/ e \in Ends
         \/ e = "server_connected" /\ daemon # "call"
         \/ daemon' = "call"
  PROVE  ControlInv'
<1>1. ControlTypeOK /\ ChannelOK /\ LastWord
  BY DEF ControlInv
<1>2. /\ events' \in Seq(Events)
      /\ sock = "on" => /\ e \in Ends => ~Shown(is_call_active_, events')
                        /\ e = "server_connected"
                              /\ Shown(is_call_active_, events') =>
                             Shown(is_call_active_, events)
      /\ sock # "on" => UNCHANGED events
  BY <1>1, ShownEmitted DEF Emit, ControlTypeOK
<1>3. ControlTypeOK' /\ ChannelOK'
  BY <1>1, <1>2 DEF ControlTypeOK, ChannelOK
<1>4. LastWord'
  BY <1>1, <1>2 DEF LastWord
<1> QED
  BY <1>3, <1>4 DEF ControlInv

(* What the window does on an event.                                       *)
LEMMA Handled ==
  ASSUME ControlInv, NEW e, NextEvent(e),
         UNCHANGED <<sock, alive, proc, daemon>>,
         is_call_active_' = IF e = "server_connected" THEN is_call_active_
                            ELSE e = "call_connected"
  PROVE  ControlInv'
<1>1. ControlTypeOK /\ ChannelOK /\ LastWord
  BY DEF ControlInv
<1>2. /\ events \in Seq(Events) /\ events # <<>> /\ Head(events) = e
      /\ events' = Tail(events) /\ events' \in Seq(Events)
  BY <1>1, HeadTailProperties DEF NextEvent, ControlTypeOK
<1>3. is_call_active_ \in BOOLEAN /\ is_call_active_' \in BOOLEAN
  BY <1>1 DEF ControlTypeOK
<1>4. Shown(is_call_active_', events') => Shown(is_call_active_, events)
  <2> SUFFICES ASSUME Shown(is_call_active_', Tail(events))
               PROVE  Shown(is_call_active_, events)
    BY <1>2
  <2>1. is_call_active_' => Head(events) = "call_connected"
           \/ (is_call_active_ /\ Head(events) = "server_connected")
    BY <1>2
  <2> QED
    BY <1>2, <1>3, <2>1, ShownHandled
<1>5. ControlTypeOK' /\ ChannelOK'
  BY <1>1, <1>2, <1>3 DEF ControlTypeOK, ChannelOK
<1>6. LastWord'
  BY <1>1, <1>4 DEF LastWord
<1> QED
  BY <1>5, <1>6 DEF ControlInv

LEMMA ControlInvNext == ControlInv /\ [Next]_vars => ControlInv'
<1> SUFFICES ASSUME ControlInv, [Next]_vars PROVE ControlInv'
  OBVIOUS
<1>0. ControlTypeOK /\ ChannelOK /\ LastWord
  BY DEF ControlInv
<1>1. ASSUME Process PROVE ControlInv'
  <2>1. CASE Started
    BY <1>0, <2>1 DEF Started, window, channel, ControlInv, ControlTypeOK,
       ChannelOK, LastWord
  <2>2. CASE NoticeDeath
    BY <1>0, <2>2 DEF NoticeDeath, Died, channel, ControlInv, ControlTypeOK,
       ChannelOK, LastWord
  <2> QED
    BY <1>1, <2>1, <2>2 DEF Process
<1>2. ASSUME Fires PROVE ControlInv'
  <2>1. ASSUME NEW i, Retry(i) \/ StartAfresh(i) PROVE ControlInv'
    <3>1. CASE StartProcess
      BY <2>1, <3>1, StartedProcess DEF Retry, StartAfresh, window, channel
    <3>2. CASE UNCHANGED <<proc, alive, daemon>>
      BY <1>0, <2>1, <3>2 DEF Retry, StartAfresh, window, channel,
         ControlInv, ControlTypeOK, ChannelOK, LastWord
    <3> QED
      BY <2>1, <3>1, <3>2 DEF Retry, StartAfresh
  <2>2. ASSUME NEW i, Stop(i) PROVE ControlInv'
    <3>1. CASE proc = "NotRunning"
      BY <1>0, <2>2, <3>1 DEF Stop, bounds, ControlInv, ControlTypeOK,
         ChannelOK, LastWord, Shown
    <3>2. CASE proc # "NotRunning"
      BY <2>2, <3>2, EndedProcess DEF Stop, Died
    <3> QED
      BY <3>1, <3>2
  <2>3. ASSUME NEW i, Connect(i) PROVE ControlInv'
    BY <1>0, <2>3, ShownNothing DEF Connect, window, ControlInv, ControlTypeOK,
       ChannelOK, LastWord
  <2> QED
    BY <1>2, <2>1, <2>2, <2>3 DEF Fires
<1>3. ASSUME EventComes PROVE ControlInv'
  <2>1. CASE Disconnected
    BY <1>0, <2>1 DEF Disconnected, manager, ControlInv, ControlTypeOK,
       ChannelOK, LastWord
  <2>2. CASE ServerConnected
    BY <2>2, Handled DEF ServerConnected, manager
  <2>3. CASE ServerDisconnected
    BY <2>3, Handled DEF ServerDisconnected, manager
  <2>4. CASE CallConnected
    BY <2>4, Handled DEF CallConnected, manager
  <2>5. CASE CallDisconnected
    BY <2>5, Handled DEF CallDisconnected
  <2> QED
    BY <1>3, <2>1, <2>2, <2>3, <2>4, <2>5 DEF EventComes
<1>4. ASSUME HandleCommand PROVE ControlInv'
  <2>1. CASE Emit("server_disconnected")
    BY <1>4, <2>1, Emitted
       DEF HandleCommand, Becomes, manager, window, Events, Ends
  <2>2. CASE /\ UNCHANGED events
             /\ daemon' = daemon \/ daemon # "call"
    BY <1>0, <1>4, <2>2 DEF HandleCommand, Becomes, manager, window,
       ControlInv, ControlTypeOK, ChannelOK, LastWord
  <2> QED
    BY <1>4, <2>1, <2>2 DEF HandleCommand, Becomes
<1>5. ASSUME OnSignedIn \/ ServerLost \/ CallBegins \/ CallEnds
      PROVE  ControlInv'
  BY <1>5, Emitted DEF OnSignedIn, ServerLost, CallBegins, CallEnds, Becomes,
     manager, window, Events, Ends
<1>6. ASSUME FailedToStart \/ Crash PROVE ControlInv'
  BY <1>6, EndedProcess DEF FailedToStart, Crash, window
<1>7. ASSUME UNCHANGED <<proc, alive, is_call_active_, sock, events, daemon>>
      PROVE  ControlInv'
  BY <1>0, <1>7 DEF ControlInv, ControlTypeOK, ChannelOK, LastWord
<1>8. ASSUME \/ Tick \/ UNCHANGED vars
             \/ \E c \in {"connect", "disconnect"} : Button(c)
      PROVE  UNCHANGED <<proc, alive, is_call_active_, sock, events, daemon>>
  BY <1>8 DEF Tick, Button, vars, manager, window, channel
<1> QED
  BY <1>1, <1>2, <1>3, <1>4, <1>5, <1>6, <1>7, <1>8 DEF Next, Engine

(* The call in the window is the daemon's: in whatever order the daemon    *)
(* dies, is stopped, restarted and reconnected to, and however late its    *)
(* events are read, the window never goes on showing a call that is over   *)
(* without the end of it, or of the channel, still to come.                *)
THEOREM DaemonCallShown == Spec => []CallShown
<1>1. Init => ControlInv
  BY EmptySeq
     DEF Init, ControlInv, ControlTypeOK, ChannelOK, LastWord
<1>2. ControlInv => CallShown
  BY DEF ControlInv, ControlTypeOK, ChannelOK, LastWord, Shown, CallShown
<1> QED
  BY <1>1, <1>2, ControlInvNext, PTL DEF Spec
=============================================================================
