-------------------------- MODULE RobotDriveProofs --------------------------
(***************************************************************************)
(* Proofs about RobotDrive, for any keys, targets and times, whether or    *)
(* not the microcontroller acts on "move_ptz".                             *)
(***************************************************************************)
EXTENDS RobotDrive, SequenceTheorems, TLAPS

LEMMA Times == /\ {WATCHDOG, PauseTicks, RestartTicks} \subseteq Nat \ {0}
               /\ WATCHDOG \in Nat \ {0} /\ PauseTicks \in Nat \ {0}
               /\ RestartTicks \in Nat \ {0}
               /\ RestartTicks > WATCHDOG /\ PauseTicks > WATCHDOG
BY DriveAssumption DEF DriveAssumption

(* The commands there are: a stop asks for none but Still.                 *)
Commands ==
  {c \in [cmd : {"move", "move_ptz", "ptz", "ptz_home", "stop"},
          drive : Signs \X Signs] : c.cmd = "stop" => c.drive = Still}

DriveTypeOK ==
  /\ drivers \in Drivers /\ keys \subseteq drivers.keys
  /\ call \in {"down", "up"} /\ down \in 0 .. RestartTicks
  /\ link \in Seq(Commands) /\ tx_queue_ \in Seq(Commands)
  /\ pause \in 0 .. PauseTicks /\ target \in drivers.targets \cup {Still}
  /\ watchdog \in 0 .. WATCHDOG
  /\ watchdog = 0 => motors = Still
  /\ lost \in BOOLEAN

-----------------------------------------------------------------------------
(* What the keys send.                                                     *)

LEMMA DriveOfSigns ==
  ASSUME NEW ks
  PROVE  DriveOf(ks) \in Signs \X Signs /\ CameraOf(ks) \in Signs \X Signs
BY DEF DriveOf, CameraOf, Axis, Signs

LEMMA Made ==
  /\ \A c \in {"move", "move_ptz", "ptz", "ptz_home"}, d \in Signs \X Signs :
       /\ Command(c, d) \in Commands
       /\ Command(c, d).cmd = c /\ Command(c, d).drive = d
  /\ Stop \in Commands /\ Stop.cmd = "stop" /\ Stop.drive = Still
  /\ Still \in Signs \X Signs
BY DEF Command, Commands, Stop, Still, Signs

(* No key sends nothing; with no camera key, what is sent is a move.       *)
LEMMA UpdateMoveSends ==
  ASSUME NEW ks, UpdateMove(ks)
  PROVE  \/ UNCHANGED link
         \/ \E c \in Commands :
              /\ Send(c)
              /\ ks # {}
              /\ ks \cap CameraKeys = {} =>
                   c.cmd = "move" /\ c.drive = DriveOf(ks)
<1>1. DriveOf({}) = Still /\ CameraOf({}) = Still
  BY DEF DriveOf, CameraOf, Axis, Still
<1>2. ks \cap CameraKeys = {} => CameraOf(ks) = Still
  BY DEF CameraKeys, CameraOf, Axis, Still
<1>3. CASE DriveOf(ks) # Still /\ CameraOf(ks) # Still
  BY <1>1, <1>2, <1>3, Made, DriveOfSigns DEF UpdateMove
<1>4. CASE DriveOf(ks) # Still /\ CameraOf(ks) = Still
  BY <1>1, <1>2, <1>4, Made, DriveOfSigns DEF UpdateMove
<1>5. CASE DriveOf(ks) = Still /\ CameraOf(ks) # Still
  BY <1>1, <1>2, <1>5, Made, DriveOfSigns DEF UpdateMove
<1> QED
  BY <1>3, <1>4, <1>5 DEF UpdateMove

LEMMA Sent ==
  ASSUME NEW c \in Commands, Send(c), link \in Seq(Commands)
  PROVE  link' \in Seq(Commands)
BY AppendProperties DEF Send

LEMMA Enqueued ==
  ASSUME NEW S, NEW c \in S, Enqueue(c), tx_queue_ \in Seq(S)
  PROVE  tx_queue_' \in Seq(S)
BY AppendProperties DEF Enqueue

LEMMA RobotCommandMade ==
  ASSUME NEW k
  PROVE  /\ RobotCommand(k) \in Commands
         /\ k \in {"W", "S", "A", "D"} =>
              /\ RobotCommand(k).cmd = "move"
              /\ RobotCommand(k).drive = DriveOf({k})
BY Made, DriveOfSigns DEF RobotCommand

-----------------------------------------------------------------------------
(* The types.                                                              *)

LEMMA Frame ==
  ASSUME NEW c \in Commands, HandleFrame(c), DriveTypeOK
  PROVE  /\ watchdog' \in 0 .. WATCHDOG
         /\ watchdog' = 0 => motors' = Still
BY DriveAssumption DEF HandleFrame, DriveTypeOK, Commands, Drives

LEMMA DriveTypeInit == Init => DriveTypeOK
<1> SUFFICES ASSUME Init PROVE DriveTypeOK
  OBVIOUS
<1>1. /\ 0 \in 0 .. RestartTicks /\ 0 \in 0 .. PauseTicks
      /\ 0 \in 0 .. WATCHDOG
  BY Times
<1>2. link \in Seq(Commands) /\ tx_queue_ \in Seq(Commands)
  BY EmptySeq DEF Init
<1>3. keys \subseteq drivers.keys /\ target \in drivers.targets \cup {Still}
  BY DEF Init
<1>4. lost \in BOOLEAN
  BY DEF Init
<1> QED
  BY <1>1, <1>2, <1>3, <1>4 DEF Init, DriveTypeOK

LEMMA DriveTypeNext == DriveTypeOK /\ [Next]_vars => DriveTypeOK'
<1> SUFFICES ASSUME DriveTypeOK, [Next]_vars PROVE DriveTypeOK'
  OBVIOUS
<1> USE DriveAssumption
<1>0. /\ drivers.targets \subseteq Signs \X Signs
      /\ target \in Signs \X Signs
      /\ link \in Seq(Commands) /\ tx_queue_ \in Seq(Commands)
  BY Made DEF DriveTypeOK
<1>1. UNCHANGED drivers
  BY DEF Next, vars
<1>2. ASSUME Operator \/ Keepalive \/ OperatorTold PROVE DriveTypeOK'
  <2>1. link' \in Seq(Commands)
    BY <1>0, <1>2, Sent, UpdateMoveSends, Made
       DEF Operator, KeyPress, KeyRelease, HomeKey, Keepalive, OperatorTold
  <2>2. keys' \subseteq drivers.keys
    BY <1>2 DEF DriveTypeOK, Operator, KeyPress, KeyRelease, HomeKey,
       Keepalive, OperatorTold
  <2>3. UNCHANGED <<call, down, follower, tx_queue_, mcu>>
    BY <1>2 DEF Operator, KeyPress, KeyRelease, HomeKey, Keepalive,
       OperatorTold, calls
  <2> QED
    BY <1>1, <2>1, <2>2, <2>3 DEF DriveTypeOK, follower, mcu
<1>3. ASSUME RobotRepeat \/ Track PROVE DriveTypeOK'
  <2>1. tx_queue_' \in Seq(Commands)
    <3>1. RobotCommand(held_key_) \in Commands
      BY RobotCommandMade
    <3>2. Command("move", target) \in Commands
      BY <1>0, Made
    <3>3. \/ UNCHANGED tx_queue_ \/ Enqueue(RobotCommand(held_key_))
          \/ Enqueue(Command("move", target))
      BY <1>3 DEF RobotRepeat, Track
    <3> QED
      BY <1>0, <3>1, <3>2, <3>3, Enqueued
  <2> QED
    BY <1>1, <1>3, <2>1 DEF RobotRepeat, Track, DriveTypeOK, calls, follower, mcu
<1>4. ASSUME RemoteKey PROVE DriveTypeOK'
  <2>1. link' \in Seq(Commands) /\ tx_queue_' \in Seq(Commands)
    BY <1>0, <1>4, HeadTailProperties, AppendProperties DEF RemoteKey, Enqueue
  <2> QED
    BY <1>1, <1>4, <2>1 DEF RemoteKey, DriveTypeOK, calls, follower, mcu
<1>5. ASSUME Write PROVE DriveTypeOK'
  <2>1. Head(tx_queue_) \in Commands /\ tx_queue_' \in Seq(Commands)
    BY <1>0, <1>5, HeadTailProperties DEF Write
  <2>2. /\ watchdog' \in 0 .. WATCHDOG /\ lost' \in BOOLEAN
        /\ watchdog' = 0 => motors' = Still
    BY <1>5, <2>1, Frame DEF Write, Arrives, PortFull, DriveTypeOK
  <2> QED
    BY <1>1, <1>5, <2>1, <2>2 DEF Write, DriveTypeOK, calls, follower
<1>6. ASSUME Tick PROVE DriveTypeOK'
  <2>1. /\ down' \in 0 .. RestartTicks /\ pause' \in 0 .. PauseTicks
        /\ watchdog' \in 0 .. WATCHDOG
    BY <1>6, Times DEF Tick, Minus1, DriveTypeOK
  <2>2. watchdog' = 0 => motors' = Still
    BY <1>6, Times DEF Tick, Minus1, DriveTypeOK
  <2>3. UNCHANGED <<call, keys, link, target, tx_queue_>> /\ lost' \in BOOLEAN
    BY <1>6 DEF Tick, DriveTypeOK
  <2> QED
    BY <1>1, <2>1, <2>2, <2>3 DEF DriveTypeOK
<1>7. ASSUME CallStarts \/ CallEnds PROVE DriveTypeOK'
  <2>1. link' \in Seq(Commands) /\ down' \in 0 .. RestartTicks
    <3>1. CASE CallStarts
      BY <3>1 DEF CallStarts, DriveTypeOK
    <3>2. CASE CallEnds
      <4>1. link' = <<>> /\ down' = RestartTicks
        BY <3>2 DEF CallEnds
      <4> QED
        BY <4>1, EmptySeq, Times
    <3> QED
      BY <1>7, <3>1, <3>2
  <2>2. call' \in {"down", "up"} /\ UNCHANGED <<keys, follower, tx_queue_, mcu>>
    BY <1>7 DEF CallStarts, CallEnds
  <2> QED
    BY <1>1, <2>1, <2>2 DEF DriveTypeOK, follower, mcu
<1>8. ASSUME Robot PROVE DriveTypeOK'
  BY <1>1, <1>8 DEF Robot, RobotPress, RobotRelease, DriveTypeOK, calls,
     follower, mcu
<1>9. ASSUME NEW d \in drivers.targets \cup {Still}, NewTarget(d)
      PROVE  DriveTypeOK'
  BY <1>1, <1>9 DEF NewTarget, DriveTypeOK, calls, mcu
<1>10. ASSUME StopFollowing \/ ToldOtherwise PROVE DriveTypeOK'
  BY <1>1, <1>10 DEF StopFollowing, ToldOtherwise, DriveTypeOK, follower, mcu
<1>11. ASSUME UNCHANGED vars PROVE DriveTypeOK'
  BY <1>11 DEF vars, state, calls, follower, mcu, DriveTypeOK
<1> QED
  BY <1>2, <1>3, <1>4, <1>5, <1>6, <1>7, <1>8, <1>9, <1>10, <1>11
     DEF Next, Timeout

-----------------------------------------------------------------------------
(* The operator alone.                                                     *)

(* What a command asks of the chassis is done, or it is left alone.        *)
Sets(c) == Drives(c) \/ c.cmd = "stop"

NoneSets(q) == \A j \in 1 .. Len(q) : ~Sets(q[j])
EndsStill(q) ==
  \E i \in 1 .. Len(q) : /\ q[i].cmd = "stop"
                        /\ \A j \in i + 1 .. Len(q) : ~Sets(q[j])

(* The last command under way that sets the chassis stops it, or there is  *)
(* none and it is still, or the one that was to stop it was lost.          *)
AtRest ==
  \/ EndsStill(link)
  \/ /\ NoneSets(link)
     /\ \/ EndsStill(tx_queue_)
        \/ NoneSets(tx_queue_) /\ (motors = Still \/ lost)

LEMMA AtRestNext ==
  /\ EndsStill(link)' = EndsStill(link') /\ NoneSets(link)' = NoneSets(link')
  /\ EndsStill(tx_queue_)' = EndsStill(tx_queue_')
  /\ NoneSets(tx_queue_)' = NoneSets(tx_queue_')
BY DEF EndsStill, NoneSets, Sets, Drives

LEMMA RestAppended ==
  ASSUME NEW q \in Seq(Commands), NEW c \in Commands
  PROVE  /\ c.cmd = "stop" => EndsStill(Append(q, c))
         /\ ~Sets(c) /\ EndsStill(q) => EndsStill(Append(q, c))
         /\ ~Sets(c) /\ NoneSets(q) => NoneSets(Append(q, c))
<1>1. /\ Len(Append(q, c)) = Len(q) + 1 /\ Len(q) \in Nat
      /\ \A i \in 1 .. Len(q) : Append(q, c)[i] = q[i]
      /\ Append(q, c)[Len(q) + 1] = c
  BY AppendProperties, LenProperties
<1> QED
  BY <1>1 DEF EndsStill, NoneSets

LEMMA RestTaken ==
  ASSUME NEW q \in Seq(Commands), q # <<>>
  PROVE  /\ NoneSets(q) => NoneSets(Tail(q)) /\ ~Sets(Head(q))
         /\ EndsStill(q) =>
              \/ EndsStill(Tail(q))
              \/ NoneSets(Tail(q)) /\ Head(q).cmd = "stop"
<1> DEFINE t == Tail(q)
<1>1. /\ Len(q) \in Nat \ {0} /\ Len(t) = Len(q) - 1 /\ Head(q) = q[1]
      /\ \A i \in 1 .. Len(t) : t[i] = q[i + 1]
  BY HeadTailProperties, EmptySeq
<1>2. ASSUME NEW i \in 1 .. Len(q), \A j \in i + 1 .. Len(q) : ~Sets(q[j])
      PROVE  \A j \in i .. Len(t) : ~Sets(t[j])
  <2> SUFFICES ASSUME NEW j \in i .. Len(t) PROVE ~Sets(t[j])
    OBVIOUS
  <2>1. j \in 1 .. Len(t) /\ j + 1 \in i + 1 .. Len(q)
    BY <1>1
  <2>2. t[j] = q[j + 1] /\ ~Sets(q[j + 1])
    BY <1>1, <1>2, <2>1
  <2> QED
    BY <2>2
<1>3. NoneSets(q) => NoneSets(t) /\ ~Sets(Head(q))
  BY <1>1 DEF NoneSets
<1>4. ASSUME NEW i \in 1 .. Len(q), q[i].cmd = "stop",
             \A j \in i + 1 .. Len(q) : ~Sets(q[j])
      PROVE  EndsStill(t) \/ (NoneSets(t) /\ Head(q).cmd = "stop")
  <2>1. \A j \in i .. Len(t) : ~Sets(t[j])
    BY <1>2, <1>4
  <2>2. CASE i = 1
    BY <1>1, <1>4, <2>1, <2>2 DEF NoneSets
  <2>3. CASE i # 1
    <3>1. i - 1 \in 1 .. Len(t) /\ (i - 1) + 1 = i
      BY <1>1, <2>3
    <3>2. t[i - 1] = q[i]
      BY <1>1, <3>1
    <3> QED
      BY <1>4, <2>1, <3>1, <3>2 DEF EndsStill
  <2> QED
    BY <2>2, <2>3
<1> QED
  BY <1>3, <1>4 DEF EndsStill

(* The watchdog has run out before the next call: the time that is left of *)
(* it is that much less than the time to the call.  What is to be written  *)
(* is written before any of it passes.                                     *)
Settles ==
  call = "down" =>
    /\ link = <<>>
    /\ tx_queue_ = <<>> \/ down = RestartTicks
    /\ watchdog = 0 \/ watchdog - WATCHDOG + RestartTicks <= down

AloneInv ==
  OperatorAlone =>
    /\ {"key", "track"} \cap (active \cup due) = {} /\ held_key_ = "none"
    /\ Settles
    /\ call = "up" /\ keys = {} => AtRest

LEMMA AloneInvNext ==
  ASSUME DriveTypeOK, AloneInv, [Next]_vars
  PROVE  AloneInv'
<1>1. UNCHANGED drivers
  BY DEF Next, vars
<1> SUFFICES ASSUME OperatorAlone PROVE AloneInv'
  BY <1>1 DEF AloneInv, OperatorAlone
<1> DEFINE Idle == /\ {"key", "track"} \cap (active \cup due) = {}
                   /\ held_key_ = "none"
           Rests == call = "up" /\ keys = {} => AtRest
<1>2. Idle /\ Settles /\ Rests
  BY DEF AloneInv
<1>3. link \in Seq(Commands) /\ tx_queue_ \in Seq(Commands)
      /\ call \in {"down", "up"} /\ lost \in BOOLEAN
  BY DEF DriveTypeOK
<1>4. SUFFICES Idle' /\ Settles' /\ Rests'
  BY DEF AloneInv
<1> HIDE DEF Idle, Rests
<1>5. ASSUME Operator \/ Keepalive \/ OperatorTold
      PROVE  Idle' /\ Settles' /\ Rests'
  <2>1. UNCHANGED <<call, down, held_key_, tx_queue_, mcu>>
    BY <1>5 DEF Operator, KeyPress, KeyRelease, HomeKey, Keepalive,
       OperatorTold, calls
  <2>2. Idle'
    BY <1>2, <1>5 DEF Idle, Operator, KeyPress, KeyRelease, HomeKey, Keepalive,
       OperatorTold, StopTimer
  <2>3. \/ UNCHANGED <<keys, link>>
        \/ keys' # {} /\ (UNCHANGED link \/ \E c \in Commands : Send(c))
        \/ Send(Stop)
        \/ Send(Command("ptz_home", Still)) /\ UNCHANGED keys
    <3>1. ASSUME NEW k, KeyPress(k) PROVE keys' # {} /\ UpdateMove(keys')
      BY <3>1 DEF KeyPress
    <3>2. ASSUME NEW k, KeyRelease(k)
          PROVE  Send(Stop) \/ (keys' # {} /\ UpdateMove(keys'))
      BY <3>2 DEF KeyRelease
    <3>3. ASSUME Keepalive PROVE UNCHANGED keys /\ UpdateMove(keys)
      BY <3>3 DEF Keepalive
    <3>4. ASSUME NEW ks, UpdateMove(ks)
          PROVE  \/ UNCHANGED link
                 \/ ks # {} /\ \E c \in Commands : Send(c)
      BY <3>4, UpdateMoveSends
    <3>5. ASSUME HomeKey
          PROVE  Send(Command("ptz_home", Still)) /\ UNCHANGED keys
      BY <3>5 DEF HomeKey
    <3>6. ASSUME OperatorTold PROVE Send(Stop)
      BY <3>6 DEF OperatorTold
    <3>7. \/ \E k : KeyPress(k) \/ KeyRelease(k)
          \/ Keepalive \/ HomeKey \/ OperatorTold
      BY <1>5 DEF Operator
    <3>8. ASSUME NEW k, KeyPress(k) \/ KeyRelease(k)
          PROVE  \/ keys' # {} /\ (UNCHANGED link \/ \E c \in Commands : Send(c))
                 \/ Send(Stop)
      <4>1. Send(Stop) \/ (keys' # {} /\ UpdateMove(keys'))
        BY <3>1, <3>2, <3>8
      <4> QED
        BY <3>4, <4>1
    <3>9. ASSUME Keepalive
          PROVE  /\ UNCHANGED keys
                 /\ \/ UNCHANGED link
                    \/ keys # {} /\ \E c \in Commands : Send(c)
      <4>1. UNCHANGED keys /\ UpdateMove(keys)
        BY <3>3, <3>9
      <4>2. UNCHANGED link \/ (keys # {} /\ \E c \in Commands : Send(c))
        BY <3>4, <4>1
      <4> QED
        BY <4>1, <4>2
    <3> QED
      BY <3>5, <3>6, <3>7, <3>8, <3>9
  <2>4. call = "down" => UNCHANGED link
    BY <2>3 DEF Send
  <2>5. Settles'
    BY <1>2, <2>1, <2>4 DEF Settles, mcu
  <2>6. ASSUME call = "up", keys' = {} PROVE Rests'
    <3>1. CASE UNCHANGED <<keys, link>>
      BY <1>2, <2>1, <2>6, <3>1, AtRestNext DEF Rests, AtRest, mcu
    <3>2. CASE Send(Stop)
      <4>1. link' = Append(link, Stop)
        BY <2>6, <3>2 DEF Send
      <4>2. EndsStill(Append(link, Stop))
        BY <1>3, Made, RestAppended DEF Sets
      <4> QED
        BY <4>1, <4>2, AtRestNext DEF Rests, AtRest, mcu
    <3>3. CASE Send(Command("ptz_home", Still)) /\ UNCHANGED keys
      <4> DEFINE c == Command("ptz_home", Still)
      <4>1. c \in Commands /\ ~Sets(c)
        BY Made DEF Sets, Drives
      <4> HIDE DEF c
      <4>2. link' = Append(link, c)
        BY <2>6, <3>3 DEF Send, c
      <4>3. /\ EndsStill(link) => EndsStill(link')
            /\ NoneSets(link) => NoneSets(link')
        BY <1>3, <4>1, <4>2, RestAppended
      <4> QED
        BY <1>2, <2>1, <2>6, <3>3, <4>3, AtRestNext DEF Rests, AtRest, mcu
    <3> QED
      BY <2>3, <2>6, <3>1, <3>2, <3>3
  <2>7. Rests'
    BY <2>1, <2>6 DEF Rests
  <2> QED
    BY <2>2, <2>5, <2>7
<1>6. ~Robot /\ ~RobotRepeat /\ ~Track
  BY <1>2 DEF Idle, OperatorAlone, Robot, RobotRelease, RobotRepeat, Track
<1>7. ASSUME NEW d \in drivers.targets \cup {Still}, NewTarget(d)
      PROVE  Idle' /\ Settles' /\ Rests'
  BY <1>2, <1>7 DEF OperatorAlone, NewTarget, calls, mcu, Idle, Settles,
     Rests, AtRest
<1>8. ASSUME StopFollowing \/ ToldOtherwise PROVE Idle' /\ Settles' /\ Rests'
  BY <1>2, <1>8 DEF StopFollowing, ToldOtherwise, StopTimer, mcu, Idle,
     Settles, Rests, AtRest
<1>9. ASSUME RemoteKey PROVE Idle' /\ Settles' /\ Rests'
  <2>1. /\ UNCHANGED <<call, down, keys, active, due, held_key_, mcu>>
        /\ link # <<>> /\ link' = Tail(link)
        /\ tx_queue_' = Append(tx_queue_, Head(link))
    BY <1>9 DEF RemoteKey, Enqueue, calls
  <2>2. call = "up"
    BY <1>2, <1>3, <2>1 DEF Settles
  <2>3. Idle' /\ Settles'
    BY <1>2, <2>1, <2>2 DEF Idle, Settles
  <2>4. Head(link) \in Commands
    BY <1>3, <2>1, HeadTailProperties
  <2>5. /\ NoneSets(link) => NoneSets(link') /\ ~Sets(Head(link))
        /\ EndsStill(link) =>
             \/ EndsStill(link')
             \/ NoneSets(link') /\ Head(link).cmd = "stop"
    BY <1>3, <2>1, RestTaken
  <2>6. /\ Head(link).cmd = "stop" => EndsStill(tx_queue_')
        /\ ~Sets(Head(link)) /\ EndsStill(tx_queue_) => EndsStill(tx_queue_')
        /\ ~Sets(Head(link)) /\ NoneSets(tx_queue_) => NoneSets(tx_queue_')
    BY <1>3, <2>1, <2>4, RestAppended
  <2>7. AtRest => AtRest'
    BY <2>1, <2>5, <2>6, AtRestNext DEF AtRest, mcu
  <2> QED
    BY <1>2, <2>1, <2>3, <2>7 DEF Rests
<1>10. ASSUME Write PROVE Idle' /\ Settles' /\ Rests'
  <2> DEFINE c == Head(tx_queue_)
  <2>1. /\ UNCHANGED <<call, down, keys, active, due, link, held_key_>>
        /\ tx_queue_ # <<>> /\ tx_queue_' = Tail(tx_queue_)
        /\ Arrives(c) \/ PortFull(c)
    BY <1>10 DEF Write, calls
  <2>2. c \in Commands
    BY <1>3, <2>1, HeadTailProperties
  <2> HIDE DEF c
  <2>3. Settles'
    <3>1. watchdog' = 0 \/ watchdog' = WATCHDOG \/ watchdog' = watchdog
      BY <2>1 DEF Arrives, PortFull, HandleFrame
    <3>2. call = "down" => down = RestartTicks
      BY <1>2, <2>1 DEF Settles
    <3>3. WATCHDOG - WATCHDOG + RestartTicks <= RestartTicks
      BY Times
    <3> QED
      BY <1>2, <2>1, <3>1, <3>2, <3>3 DEF Settles
  <2>4. /\ NoneSets(tx_queue_) => NoneSets(tx_queue_') /\ ~Sets(c)
        /\ EndsStill(tx_queue_) =>
             \/ EndsStill(tx_queue_')
             \/ NoneSets(tx_queue_') /\ c.cmd = "stop"
    BY <1>3, <2>1, RestTaken DEF c
  <2>5. /\ c.cmd = "stop" => motors' = Still \/ lost'
        /\ ~Sets(c) => UNCHANGED <<motors, lost>>
    <3>1. c.cmd = "stop" => c.drive = Still
      BY <2>2 DEF Commands
    <3>2. ASSUME Arrives(c) PROVE c.cmd = "stop" => motors' = Still
      BY <3>1, <3>2 DEF Arrives, HandleFrame
    <3>3. ASSUME PortFull(c) PROVE c.cmd = "stop" => lost'
      BY <3>3 DEF PortFull
    <3>4. ASSUME ~Sets(c) PROVE UNCHANGED motors /\ c.cmd # "stop"
      BY <2>1, <3>4 DEF Arrives, PortFull, HandleFrame, Sets
    <3>5. c.cmd # "stop" => UNCHANGED lost
      BY <1>3, <2>1 DEF Arrives, PortFull
    <3> QED
      BY <2>1, <3>2, <3>3, <3>4, <3>5
  <2>6. AtRest => AtRest'
    BY <2>1, <2>4, <2>5, AtRestNext DEF AtRest
  <2> QED
    BY <1>2, <2>1, <2>3, <2>6 DEF Idle, Rests
<1>11. ASSUME Tick PROVE Idle' /\ Settles' /\ Rests'
  <2>1. /\ UNCHANGED <<call, keys, link, held_key_, tx_queue_, active>>
        /\ due' \subseteq due \cup active
        /\ tx_queue_ = <<>>
        /\ down' = (IF down = 0 THEN 0 ELSE down - 1)
        /\ watchdog' = (IF watchdog = 0 THEN 0 ELSE watchdog - 1)
        /\ motors' = IF watchdog = 1 THEN Still ELSE motors
        /\ lost' = (lost /\ watchdog > 1)
    BY <1>11 DEF Tick, Minus1
  <2>2. Idle'
    BY <1>2, <2>1 DEF Idle
  <2>3. down \in Nat /\ watchdog \in Nat
    BY Times DEF DriveTypeOK
  <2>4. Settles'
    BY <1>2, <2>1, <2>3, Times DEF Settles
  <2>5. motors = Still \/ lost => motors' = Still \/ lost'
    <3>1. watchdog = 0 => motors = Still
      BY DEF DriveTypeOK
    <3>2. CASE watchdog > 1
      BY <2>1, <3>2, Zenon
    <3>3. CASE watchdog \in {0, 1}
      BY <2>1, <3>1, <3>3
    <3> QED
      BY <2>3, <3>2, <3>3
  <2>6. AtRest => AtRest'
    BY <2>1, <2>5, AtRestNext DEF AtRest
  <2> QED
    BY <1>2, <2>1, <2>2, <2>4, <2>6 DEF Rests
<1>12. ASSUME CallStarts PROVE Idle' /\ Settles' /\ Rests'
  <2>1. /\ call = "down" /\ down = 0 /\ call' = "up"
        /\ UNCHANGED <<keys, active, due, link, held_key_, tx_queue_, motors>>
    BY <1>12 DEF CallStarts, mcu
  <2>2. link = <<>> /\ tx_queue_ = <<>> /\ watchdog = 0
    BY <1>2, <2>1, Times DEF Settles, DriveTypeOK
  <2>3. motors = Still
    BY <2>2 DEF DriveTypeOK
  <2>4. AtRest'
    BY <2>1, <2>2, <2>3 DEF AtRest, NoneSets
  <2> QED
    BY <1>2, <2>1, <2>4 DEF Idle, Settles, Rests
<1>13. ASSUME CallEnds PROVE Idle' /\ Settles' /\ Rests'
  <2>1. /\ call' = "down" /\ down' = RestartTicks /\ link' = <<>>
        /\ UNCHANGED <<active, due, held_key_, watchdog>>
    BY <1>13 DEF CallEnds, mcu
  <2>2. watchdog' - WATCHDOG + RestartTicks <= down'
    BY <2>1, Times DEF DriveTypeOK
  <2> QED
    BY <1>2, <2>1, <2>2 DEF Idle, Settles, Rests
<1>14. ASSUME UNCHANGED vars PROVE Idle' /\ Settles' /\ Rests'
  BY <1>2, <1>14 DEF vars, state, calls, mcu, Idle, Settles, Rests, AtRest
<1> QED
  BY <1>5, <1>6, <1>7, <1>8, <1>9, <1>10, <1>11, <1>12, <1>13, <1>14
     DEF Next, Timeout

(* However the keys, their timer, the link and the serial queue are behind *)
(* one another, and whatever was lost with the last call: with the keys    *)
(* let go and every command handed on, the chassis is still, or the port   *)
(* was full when the stop was written, not longer ago than the watchdog.   *)
THEOREM KeysLetGoStop == Spec => []StopReaches
<1>1. Init => DriveTypeOK /\ AloneInv
  <2> SUFFICES ASSUME Init PROVE DriveTypeOK /\ AloneInv
    OBVIOUS
  <2>1. DriveTypeOK
    BY DriveTypeInit
  <2>2. AloneInv
    BY DEF Init, AloneInv, Settles
  <2> QED
    BY <2>1, <2>2
<1>2. DriveTypeOK /\ AloneInv /\ [Next]_vars => (DriveTypeOK /\ AloneInv)'
  BY DriveTypeNext, AloneInvNext
<1>3. AloneInv => StopReaches
  <2> SUFFICES ASSUME AtRest, link = <<>>, tx_queue_ = <<>>
               PROVE  motors = Still \/ lost
    BY DEF AloneInv, StopReaches
  <2> QED
    BY DEF AtRest, EndsStill
<1> QED
  BY <1>1, <1>2, <1>3, PTL DEF Spec

-----------------------------------------------------------------------------
(* The follower and the keys.                                              *)

(* The commands there are without camera keys, and those not the follower's*)
Asked == {c \in Commands : c.cmd \in {"move", "ptz_home", "stop"}}
ByKey == {c \in Asked : c.drive \notin drivers.targets}

(* A command of the follower that was queued before the key is written     *)
(* before any of the pause passes; what it did to the chassis ends with    *)
(* the watchdog, which has less time left than is left of the pause.       *)
YieldInv ==
  KeysApart =>
    /\ "key" \in active \cup due => held_key_ \in drivers.robotKeys
    /\ link \in Seq(ByKey) /\ tx_queue_ \in Seq(Asked)
    /\ pause \in 1 .. PauseTicks - 1 => tx_queue_ \in Seq(ByKey)
    /\ pause > 0 /\ motors \in drivers.targets =>
         watchdog > 0 /\ watchdog + PauseTicks - pause <= WATCHDOG

LEMMA KeysAsk ==
  ASSUME KeysApart, DriveTypeOK
  PROVE  /\ Still \notin drivers.targets
         /\ Stop \in ByKey /\ Command("ptz_home", Still) \in ByKey
         /\ \A k \in drivers.robotKeys : RobotCommand(k) \in ByKey
         /\ \A d \in Signs \X Signs : Command("move", d) \in Asked
<1>1. DriveOf({}) = Still
  BY DEF DriveOf, Axis, Still
<1>2. Still \notin drivers.targets
  <2>1. {} \in SUBSET drivers.keys
    OBVIOUS
  <2> QED
    BY <1>1, <2>1 DEF KeysApart
<1>3. Stop \in ByKey /\ Command("ptz_home", Still) \in ByKey
  BY <1>2, Made DEF ByKey, Asked
<1>4. ASSUME NEW k \in drivers.robotKeys PROVE RobotCommand(k) \in ByKey
  BY RobotCommandMade DEF KeysApart, ByKey, Asked
<1>5. \A d \in Signs \X Signs : Command("move", d) \in Asked
  BY Made DEF Asked
<1> QED
  BY <1>2, <1>3, <1>4, <1>5

LEMMA YieldInvNext ==
  ASSUME DriveTypeOK, YieldInv, [Next]_vars
  PROVE  YieldInv'
<1>1. UNCHANGED drivers /\ UNCHANGED ByKey
  BY DEF Next, vars, ByKey
<1> SUFFICES ASSUME KeysApart PROVE YieldInv'
  BY <1>1 DEF YieldInv, KeysApart
<1> DEFINE Held == "key" \in active \cup due => held_key_ \in drivers.robotKeys
           Queues == /\ link \in Seq(ByKey) /\ tx_queue_ \in Seq(Asked)
                     /\ pause \in 1 .. PauseTicks - 1 => tx_queue_ \in Seq(ByKey)
           Over == pause > 0 /\ motors \in drivers.targets =>
                     /\ watchdog > 0
                     /\ watchdog + PauseTicks - pause <= WATCHDOG
<1>2. Held /\ Queues /\ Over
  BY DEF YieldInv
<1>3. SUFFICES Held' /\ Queues' /\ Over'
  BY DEF YieldInv
<1>4. /\ Still \notin drivers.targets
      /\ Stop \in ByKey /\ Command("ptz_home", Still) \in ByKey
      /\ \A k \in drivers.robotKeys : RobotCommand(k) \in ByKey
      /\ \A d \in Signs \X Signs : Command("move", d) \in Asked
  BY KeysAsk
<1>5. ASSUME Operator \/ Keepalive \/ OperatorTold
      PROVE  Held' /\ Queues' /\ Over'
  <2>1. UNCHANGED <<held_key_, tx_queue_, pause, motors, watchdog>>
    BY <1>5 DEF Operator, KeyPress, KeyRelease, HomeKey, Keepalive,
       OperatorTold, follower, mcu
  <2>2. Held'
    BY <1>1, <1>2, <1>5 DEF Held, Operator, KeyPress, KeyRelease, HomeKey,
       Keepalive, OperatorTold, StopTimer
  <2>3. UNCHANGED link \/ \E c \in ByKey : Send(c)
    <3>1. ASSUME NEW ks, ks \subseteq drivers.keys, UpdateMove(ks)
          PROVE  UNCHANGED link \/ \E c \in ByKey : Send(c)
      <4>1. ks \cap CameraKeys = {} /\ DriveOf(ks) \notin drivers.targets
        BY <3>1 DEF KeysApart
      <4> QED
        BY <3>1, <4>1, UpdateMoveSends DEF ByKey, Asked
    <3>2. ASSUME NEW k \in drivers.keys, KeyPress(k) \/ KeyRelease(k)
          PROVE  UNCHANGED link \/ \E c \in ByKey : Send(c)
      <4>1. keys' \subseteq drivers.keys
        BY <3>2 DEF KeyPress, KeyRelease, DriveTypeOK
      <4>2. Send(Stop) \/ UpdateMove(keys')
        BY <3>2 DEF KeyPress, KeyRelease
      <4> QED
        BY <1>4, <3>1, <4>1, <4>2
    <3>3. ASSUME Keepalive
          PROVE  UNCHANGED link \/ \E c \in ByKey : Send(c)
      <4>1. keys \subseteq drivers.keys /\ UpdateMove(keys)
        BY <3>3 DEF Keepalive, DriveTypeOK
      <4> QED
        BY <3>1, <4>1
    <3>4. ASSUME HomeKey \/ OperatorTold
          PROVE  UNCHANGED link \/ \E c \in ByKey : Send(c)
      BY <1>4, <3>4 DEF HomeKey, OperatorTold
    <3> QED
      BY <1>5, <3>2, <3>3, <3>4 DEF Operator
  <2>4. link' \in Seq(ByKey)
    BY <1>2, <2>3, AppendProperties DEF Queues, Send
  <2> QED
    BY <1>1, <1>2, <2>1, <2>2, <2>4 DEF Queues, Over
<1>6. ASSUME NEW k \in drivers.robotKeys, RobotPress(k)
      PROVE  Held' /\ Queues' /\ Over'
  <2>1. /\ held_key_' = k /\ pause' = PauseTicks
        /\ UNCHANGED <<link, tx_queue_, motors, watchdog>>
    BY <1>6 DEF RobotPress, mcu
  <2>2. motors \in drivers.targets => watchdog # 0
    BY <1>4 DEF DriveTypeOK
  <2>3. Over'
    BY <1>1, <2>1, <2>2, Times DEF Over, DriveTypeOK
  <2> QED
    BY <1>1, <1>2, <2>1, <2>3, Times DEF Held, Queues
<1>7. ASSUME RobotRelease PROVE Held' /\ Queues' /\ Over'
  BY <1>1, <1>2, <1>7 DEF RobotRelease, StopTimer, follower, mcu, Held, Queues,
     Over
<1>8. ASSUME RobotRepeat PROVE Held' /\ Queues' /\ Over'
  <2>1. /\ Enqueue(RobotCommand(held_key_)) /\ "key" \in due
        /\ due' = due \ {"key"}
        /\ UNCHANGED <<active, held_key_, link, pause, motors, watchdog>>
    BY <1>8 DEF RobotRepeat, follower, mcu
  <2>2. RobotCommand(held_key_) \in ByKey
    BY <1>2, <1>4, <2>1 DEF Held
  <2>3. RobotCommand(held_key_) \in Asked
    BY <2>2 DEF ByKey
  <2>4. Queues'
    BY <1>1, <1>2, <2>1, <2>2, <2>3, Enqueued DEF Queues
  <2> QED
    BY <1>1, <1>2, <2>1, <2>4 DEF Held, Over
<1>9. ASSUME Track PROVE Held' /\ Queues' /\ Over'
  <2>1. /\ due' \subseteq due
        /\ UNCHANGED <<active, held_key_, link, pause, motors, watchdog>>
        /\ \/ UNCHANGED tx_queue_
           \/ ~ (pause > 0) /\ Enqueue(Command("move", target))
    BY <1>9 DEF Track, follower, mcu
  <2>2. target \in Signs \X Signs
    BY DriveAssumption, Made DEF DriveTypeOK
  <2>3. Command("move", target) \in Asked
    BY <1>4, <2>2
  <2>4. Queues'
    BY <1>1, <1>2, <2>1, <2>3, Enqueued DEF Queues
  <2> QED
    BY <1>1, <1>2, <2>1, <2>4 DEF Held, Over
<1>10. ASSUME NEW d, NewTarget(d) PROVE Held' /\ Queues' /\ Over'
  BY <1>1, <1>2, <1>10 DEF NewTarget, mcu, Held, Queues, Over
<1>11. ASSUME StopFollowing \/ ToldOtherwise PROVE Held' /\ Queues' /\ Over'
  BY <1>1, <1>2, <1>11 DEF StopFollowing, ToldOtherwise, StopTimer, follower,
     mcu, Held, Queues, Over
<1>12. ASSUME RemoteKey PROVE Held' /\ Queues' /\ Over'
  <2>1. /\ link # <<>> /\ link' = Tail(link) /\ Enqueue(Head(link))
        /\ UNCHANGED <<active, due, held_key_, pause, motors, watchdog>>
    BY <1>12 DEF RemoteKey, follower, mcu
  <2>2. Head(link) \in ByKey /\ link' \in Seq(ByKey)
    BY <1>2, <2>1, HeadTailProperties DEF Queues
  <2>3. Head(link) \in Asked
    BY <2>2 DEF ByKey
  <2>4. Queues'
    BY <1>1, <1>2, <2>1, <2>2, <2>3, Enqueued DEF Queues
  <2> QED
    BY <1>1, <1>2, <2>1, <2>4 DEF Held, Over
<1>13. ASSUME Write PROVE Held' /\ Queues' /\ Over'
  <2> DEFINE c == Head(tx_queue_)
  <2>1. /\ tx_queue_ # <<>> /\ tx_queue_' = Tail(tx_queue_)
        /\ Arrives(c) \/ PortFull(c)
        /\ UNCHANGED <<active, due, link, held_key_, pause>>
    BY <1>13 DEF Write, follower
  <2>2. /\ c \in Asked /\ tx_queue_' \in Seq(Asked)
        /\ tx_queue_ \in Seq(ByKey) =>
             c \in ByKey /\ tx_queue_' \in Seq(ByKey)
    BY <1>2, <2>1, HeadTailProperties DEF Queues
  <2> HIDE DEF c
  <2>3. Queues'
    BY <1>1, <1>2, <2>1, <2>2 DEF Queues
  <2>4. \/ motors' = c.drive /\ watchdog' = WATCHDOG
        \/ motors' = Still
        \/ UNCHANGED <<motors, watchdog>>
    BY <2>1, <2>2 DEF Arrives, PortFull, HandleFrame, Drives, Asked, Commands
  <2>5. c.drive \in drivers.targets => ~ (pause \in 1 .. PauseTicks - 1)
    BY <1>2, <2>2 DEF Queues, ByKey
  <2>6. Over'
    <3>1. CASE motors' = c.drive /\ watchdog' = WATCHDOG
      BY <1>1, <2>1, <2>5, <3>1, Times DEF Over, DriveTypeOK
    <3>2. CASE motors' = Still
      BY <1>1, <1>4, <3>2 DEF Over
    <3>3. CASE UNCHANGED <<motors, watchdog>>
      BY <1>1, <1>2, <2>1, <3>3 DEF Over
    <3> QED
      BY <2>4, <3>1, <3>2, <3>3
  <2> QED
    BY <1>1, <1>2, <2>1, <2>3, <2>6 DEF Held
<1>14. ASSUME Tick PROVE Held' /\ Queues' /\ Over'
  <2>1. /\ UNCHANGED <<active, link, held_key_, tx_queue_>>
        /\ due' \subseteq due \cup active /\ tx_queue_ = <<>>
        /\ pause' = (IF pause = 0 THEN 0 ELSE pause - 1)
        /\ watchdog' = (IF watchdog = 0 THEN 0 ELSE watchdog - 1)
        /\ motors' = IF watchdog = 1 THEN Still ELSE motors
    BY <1>14 DEF Tick, Minus1
  <2>2. Queues'
    BY <1>1, <1>2, <2>1, EmptySeq DEF Queues
  <2>3. pause \in Nat /\ watchdog \in Nat
    BY Times DEF DriveTypeOK
  <2>4. Over'
    BY <1>1, <1>2, <1>4, <2>1, <2>3, Times DEF Over
  <2> QED
    BY <1>1, <1>2, <2>1, <2>2, <2>4 DEF Held
<1>15. ASSUME CallStarts \/ CallEnds PROVE Held' /\ Queues' /\ Over'
  <2>1. /\ link' = link \/ link' = <<>>
        /\ UNCHANGED <<active, due, held_key_, tx_queue_, pause, motors, watchdog>>
    BY <1>15 DEF CallStarts, CallEnds, follower, mcu
  <2>2. Queues'
    BY <1>1, <1>2, <2>1, EmptySeq DEF Queues
  <2> QED
    BY <1>1, <1>2, <2>1, <2>2 DEF Held, Over
<1>16. ASSUME UNCHANGED vars PROVE Held' /\ Queues' /\ Over'
  BY <1>1, <1>2, <1>16 DEF vars, state, follower, mcu, Held, Queues, Over
<1> QED
  BY <1>5, <1>6, <1>7, <1>8, <1>9, <1>10, <1>11, <1>12, <1>13, <1>14, <1>15,
     <1>16 DEF Next, Robot, Timeout

(* A key of the robot's own takes the chassis from the follower: whichever *)
(* comes first of the follower's timer, its command in the serial queue    *)
(* and the key, what the follower asked for is over once the watchdog's    *)
(* time has passed, and does not come back during the pause.               *)
THEOREM KeysComeFirst == Spec => []FollowerYields
<1>1. Init => DriveTypeOK /\ YieldInv
  <2> SUFFICES ASSUME Init PROVE DriveTypeOK /\ YieldInv
    OBVIOUS
  <2>1. DriveTypeOK
    BY DriveTypeInit
  <2>2. YieldInv
    BY EmptySeq DEF Init, YieldInv
  <2> QED
    BY <2>1, <2>2
<1>2. DriveTypeOK /\ YieldInv /\ [Next]_vars => (DriveTypeOK /\ YieldInv)'
  BY DriveTypeNext, YieldInvNext
<1>3. DriveTypeOK /\ YieldInv => FollowerYields
  <2> SUFFICES ASSUME DriveTypeOK, pause \in 1 .. PauseTicks - WATCHDOG,
                      watchdog > 0, watchdog + PauseTicks - pause <= WATCHDOG
               PROVE  FALSE
    BY Times DEF YieldInv, FollowerYields
  <2> QED
    BY Times DEF DriveTypeOK
<1> QED
  BY <1>1, <1>2, <1>3, PTL DEF Spec
=============================================================================
