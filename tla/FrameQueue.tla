----------------------------- MODULE FrameQueue -----------------------------
(***************************************************************************)
(* What the shared video ring promises (VideoShm): a queue of at most      *)
(* RING_BUFFER_CNT frames, emptied when a renderer starts, from which the  *)
(* windows get every frame once and in the order of their production.      *)
(* A start that finds a thread inside the ring breaks the promise: it      *)
(* initialises a mutex that is held, and nothing is said of what follows.  *)
(***************************************************************************)
EXTENDS Integers, Sequences

CONSTANTS
  RING_BUFFER_CNT, \* slots of the ring
  MaxFrames        \* bound on the frames there are: 1 .. MaxFrames

VARIABLES
  queue,  \* the frames written and not read
  shown,  \* the newest frame that was read, 0 before the first
  broken  \* whether the promise is off

Init == queue = << >> /\ shown = 0 /\ broken = FALSE

(* A frame newer than every one before it, if there is room.               *)
Put(frame) ==
  /\ Len(queue) < RING_BUFFER_CNT
  /\ shown < frame /\ \A i \in 1 .. Len(queue) : queue[i] < frame
  /\ queue' = Append(queue, frame)
  /\ UNCHANGED <<shown, broken>>

Get ==
  /\ queue # << >>
  /\ shown' = Head(queue)
  /\ queue' = Tail(queue)
  /\ UNCHANGED broken

Reset == queue' = << >> /\ UNCHANGED <<shown, broken>>

Break == broken'

Next == IF broken THEN broken'
        ELSE (\E frame \in 1 .. MaxFrames : Put(frame)) \/ Get \/ Reset \/ Break

Spec == Init /\ [][Next]_<<queue, shown, broken>>
=============================================================================
