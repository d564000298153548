--------------------------- MODULE VideoShmProofs ---------------------------
(***************************************************************************)
(* Proofs about VideoShm, for any ring, sources, frames and bounds: its    *)
(* types, RingAgrees, and that it implements FrameQueue.                   *)
(*                                                                         *)
(* RingAgrees is inductive with the types.  That a frame is newer than all *)
(* before it, which Put asks of every write, is a fact about the three     *)
(* places a frame passes through: pending_, the io thread's frame, and the *)
(* ring (Order).                                                           *)
(***************************************************************************)
EXTENDS VideoShm, SequenceTheorems, TLAPS

Ordered ==
  /\ pending_ \in {0, frames}
  /\ shown <= frames /\ (pending_ # 0 => shown < pending_)
  /\ io \in {"lock", "full", "copy"} =>
       /\ shown < frame /\ frame <= frames /\ (pending_ # 0 => frame < pending_)
       /\ \A i \in 0 .. frame_count - 1 : ring[Slot(i)] < frame
  /\ \A i \in 0 .. frame_count - 1 :
       /\ shown < ring[Slot(i)] /\ ring[Slot(i)] <= frames
       /\ pending_ # 0 => ring[Slot(i)] < pending_
  /\ \A i, j \in 0 .. frame_count - 1 :
       i < j => ring[Slot(i)] < ring[Slot(j)]

Order == ~cut => Ordered

-----------------------------------------------------------------------------
LEMMA TypeInit == Init => TypeOK
<1> SUFFICES ASSUME Init PROVE TypeOK
  OBVIOUS
<1>1. exists \in BOOLEAN /\ stopped_ \in BOOLEAN /\ cut \in BOOLEAN
  BY Zenon DEF Init
<1> QED
  BY <1>1, ShmAssumption DEF Init, TypeOK, Slots, Frames, IoPlaces, Places

LEMMA TypeStep == TypeOK /\ [Next]_vars => TypeOK'
<1> SUFFICES ASSUME TypeOK, [Next]_vars PROVE TypeOK'
  OBVIOUS
<1> USE ShmAssumption DEF TypeOK, Slots, Frames, IoPlaces, Places
<1>1. CASE StartRenderer
  <2>1. exists' \in BOOLEAN /\ stopped_' \in BOOLEAN /\ cut' \in BOOLEAN
    BY <1>1, Zenon DEF StartRenderer
  <2> QED
    BY <1>1, <2>1 DEF StartRenderer, InitShmSync, window
<1>2. CASE OnFrame
  BY <1>2 DEF OnFrame, window, shm, indices
<1>3. CASE StopRenderer
  BY <1>3 DEF StopRenderer, window, shm, indices, counts
<1>4. CASE IoReturn
  <2>1. stopped_' \in BOOLEAN
    BY <1>4, Zenon DEF IoReturn
  <2> QED
    BY <1>4, <2>1 DEF IoReturn, window, shm, indices, counts
<1>5. CASE IoTake
  BY <1>5 DEF IoTake, window, shm, indices, counts
<1>6. CASE IoLock
  BY <1>6 DEF IoLock, window, shm, indices, counts
<1>7. CASE IoWrite
  <2>1. NextSlot(w_idx) \in Slots /\ Up(frame_count) \in 0 .. MaxCount
    BY DEF NextSlot, Up
  <2> QED
    BY <1>7, <2>1 DEF IoWrite, window, shm, indices, counts
<1>8. CASE StopSource
  BY <1>8 DEF StopSource, renderer, shm, indices, counts
<1>9. ASSUME NEW s \in Sources, StartSource(s) PROVE TypeOK'
  BY <1>9 DEF StartSource, renderer, shm, indices, counts
<1>10. ASSUME NEW s \in Sources, Attach(s) PROVE TypeOK'
  BY <1>10 DEF Attach, renderer, shm, indices, counts
<1>11. ASSUME NEW s \in Sources, ReadLock(s) PROVE TypeOK'
  BY <1>11 DEF ReadLock, EmptyPlace, renderer, shm, indices, counts
<1>12. ASSUME NEW s \in Sources, ReadCopy(s) PROVE TypeOK'
  <2>1. NextSlot(r_idx) \in Slots /\ Down(frame_count) \in 0 .. MaxCount
    BY DEF NextSlot, Down
  <2> QED
    BY <1>12, <2>1 DEF ReadCopy, SignalCanWrite, counts
<1>13. CASE KillDaemon
  <2>1. stopped_' \in BOOLEAN
    BY <1>13, Zenon DEF KillDaemon
  <2> QED
    BY <1>13, <2>1 DEF KillDaemon, window, shm, indices
<1>14. CASE KillWindow
  BY <1>14 DEF KillWindow, renderer, shm, indices
<1>15. CASE UNCHANGED vars
  BY <1>15 DEF vars, renderer, shm, indices, window, counts
<1> QED
  BY <1>1, <1>2, <1>3, <1>4, <1>5, <1>6, <1>7, <1>8, <1>9, <1>10, <1>11,
     <1>12, <1>13, <1>14, <1>15 DEF Next, IoStep, ReadStep

\* Every variable keeps its type, also after a mutex was initialised in use,
\* when frame_count may wrap below zero.
THEOREM Types == Spec => []TypeOK
  BY TypeInit, TypeStep, PTL DEF Spec

-----------------------------------------------------------------------------
LEMMA AgreesInit == Init => RingAgrees
  BY ShmAssumption DEF Init, RingAgrees, Reading

LEMMA AgreesStep == TypeOK /\ RingAgrees /\ [Next]_vars => RingAgrees'
<1> SUFFICES ASSUME TypeOK, RingAgrees, [Next]_vars PROVE RingAgrees'
  OBVIOUS
<1> USE ShmAssumption DEF TypeOK, RingAgrees, Reading, Slots
<1>1. CASE StartRenderer
  <2>1. ~cut' => Reading = {}
    BY <1>1, Zenon DEF StartRenderer
  <2>2. \A s \in Sources : reader'[s] = reader[s]
    BY <1>1 DEF StartRenderer, window
  <2> QED
    BY <1>1, <2>1, <2>2 DEF StartRenderer, InitShmSync
<1>2. CASE OnFrame
  BY <1>2 DEF OnFrame, window, shm, indices
<1>3. CASE StopRenderer
  BY <1>3 DEF StopRenderer, window, shm, indices
<1>4. CASE IoReturn
  BY <1>4 DEF IoReturn, window, shm, indices
<1>5. CASE IoTake
  BY <1>5 DEF IoTake, window, shm, indices
<1>6. CASE IoLock
  BY <1>6 DEF IoLock, window, shm, indices
<1>7. CASE IoWrite
  BY <1>7 DEF IoWrite, window, shm, indices, NextSlot, Up
<1>8. CASE StopSource
  BY <1>8 DEF StopSource, renderer, shm, indices
<1>9. ASSUME NEW s \in Sources, StartSource(s) PROVE RingAgrees'
  BY <1>9 DEF StartSource, renderer, shm, indices
<1>10. ASSUME NEW s \in Sources, Attach(s) PROVE RingAgrees'
  BY <1>10 DEF Attach, renderer, shm, indices
<1>11. ASSUME NEW s \in Sources, ReadLock(s) PROVE RingAgrees'
  BY <1>11 DEF ReadLock, EmptyPlace, renderer, shm, indices
<1>12. ASSUME NEW s \in Sources, ReadCopy(s) PROVE RingAgrees'
  BY <1>12 DEF ReadCopy, SignalCanWrite, NextSlot, Down
<1>13. CASE KillDaemon
  BY <1>13 DEF KillDaemon, window, shm, indices
<1>14. CASE KillWindow
  BY <1>14 DEF KillWindow, renderer, shm, indices
<1>15. CASE UNCHANGED vars
  BY <1>15 DEF vars, renderer, shm, indices, window
<1> QED
  BY <1>1, <1>2, <1>3, <1>4, <1>5, <1>6, <1>7, <1>8, <1>9, <1>10, <1>11,
     <1>12, <1>13, <1>14, <1>15 DEF Next, IoStep, ReadStep

\* Indices, count and mutex agree in every reachable state.
THEOREM RingConsistent == Spec => []RingAgrees
<1>1. TypeOK /\ RingAgrees /\ [Next]_vars => TypeOK' /\ RingAgrees'
  BY TypeStep, AgreesStep
<1> QED
  BY TypeInit, AgreesInit, <1>1, PTL DEF Spec

-----------------------------------------------------------------------------
LEMMA OrderInit == Init => Order
  BY ShmAssumption DEF Init, Order, Ordered

\* The slot of the i-th frame, before and after a write and a read.
LEMMA SlotFacts ==
  ASSUME TypeOK, RingAgrees, ~cut
  PROVE  /\ \A i \in 0 .. frame_count - 1 : Slot(i) \in Slots
         /\ frame_count < RING_BUFFER_CNT =>
              /\ Slot(frame_count) = w_idx
              /\ \A i \in 0 .. frame_count - 1 : Slot(i) # w_idx
         /\ frame_count > 0 => Slot(0) = r_idx
         /\ \A i \in 0 .. frame_count - 2 :
              r_idx' = NextSlot(r_idx) => Slot(i)' = Slot(i + 1)
  BY ShmAssumption DEF TypeOK, RingAgrees, Slots, Slot, NextSlot

LEMMA OrderStep == TypeOK /\ RingAgrees /\ Order /\ [Next]_vars => Order'
<1> SUFFICES ASSUME TypeOK, RingAgrees, Order, [Next]_vars, ~cut' PROVE Ordered'
  BY DEF Order
<1>0. ~cut
  BY DEF Next, vars, StartRenderer, OnFrame, StopRenderer, IoStep, IoReturn,
     IoTake, IoLock, IoWrite, StopSource, StartSource, ReadStep, Attach,
     ReadLock, ReadCopy, KillDaemon, KillWindow
<1>a. Ordered
  BY <1>0 DEF Order
<1> USE <1>0, <1>a, ShmAssumption DEF TypeOK, Frames, IoPlaces, Ordered, Slot
<1>1. CASE StartRenderer
  BY <1>1 DEF StartRenderer, InitShmSync
<1>2. CASE OnFrame
  <2>1. \A i \in 0 .. frame_count - 1 : ring[Slot(i)] \in Frames
    BY SlotFacts
  <2> QED
    BY <1>2, <2>1 DEF OnFrame, shm, indices
<1>3. CASE StopRenderer
  BY <1>3 DEF StopRenderer, shm, indices, counts
<1>4. CASE IoReturn
  BY <1>4 DEF IoReturn, shm, indices, counts
<1>5. CASE IoTake
  BY <1>5 DEF IoTake, shm, indices, counts
<1>6. CASE IoLock
  BY <1>6 DEF IoLock, shm, indices, counts
<1>7. CASE IoWrite
  <2>1. frame_count < RING_BUFFER_CNT
    BY <1>7 DEF IoWrite, RingAgrees
  <2>2. /\ frame_count' = frame_count + 1 /\ r_idx' = r_idx
        /\ \A i \in Nat : Slot(i)' = Slot(i)
    BY <1>7, <2>1 DEF IoWrite, Up
  <2>3. \A i \in 0 .. frame_count - 1 : ring'[Slot(i)] = ring[Slot(i)]
    BY <1>7, <2>1, SlotFacts DEF IoWrite
  <2>4. ring'[Slot(frame_count)] = frame
    BY <1>7, <2>1, SlotFacts DEF IoWrite
  <2>5. /\ io = "copy" /\ io' = "idle" /\ frame' = frame /\ pending_' = pending_
        /\ shown' = shown /\ frames' = frames
    BY <1>7 DEF IoWrite, counts
  <2> HIDE DEF Slot
  <2> QED
    BY <2>2, <2>3, <2>4, <2>5
<1>8. CASE StopSource
  BY <1>8 DEF StopSource, renderer, shm, indices, counts
<1>9. ASSUME NEW s \in Sources, StartSource(s) PROVE Ordered'
  BY <1>9 DEF StartSource, renderer, shm, indices, counts
<1>10. ASSUME NEW s \in Sources, Attach(s) PROVE Ordered'
  BY <1>10 DEF Attach, renderer, shm, indices, counts
<1>11. ASSUME NEW s \in Sources, ReadLock(s) PROVE Ordered'
  BY <1>11 DEF ReadLock, renderer, shm, indices, counts
<1>12. ASSUME NEW s \in Sources, ReadCopy(s) PROVE Ordered'
  <2>1. frame_count > 0
    BY <1>12 DEF ReadCopy, RingAgrees, Reading
  <2>2. /\ frame_count' = frame_count - 1
        /\ \A i \in 0 .. frame_count - 2 : Slot(i)' = Slot(i + 1)
    BY <1>12, <2>1, SlotFacts DEF ReadCopy, Down
  <2>3. ring' = ring /\ shown' = ring[Slot(0)]
    BY <1>12, <2>1, SlotFacts DEF ReadCopy
  <2>4. /\ io' \in {"lock", "full", "copy"} => io \in {"lock", "full", "copy"}
        /\ frame' = frame /\ pending_' = pending_ /\ frames' = frames
    BY <1>12 DEF ReadCopy, SignalCanWrite, counts
  <2> HIDE DEF Slot
  <2> QED
    BY <2>1, <2>2, <2>3, <2>4
<1>13. CASE KillDaemon
  BY <1>13 DEF KillDaemon, shm, indices
<1>14. CASE KillWindow
  BY <1>14 DEF KillWindow, renderer, shm, indices
<1>15. CASE UNCHANGED vars
  BY <1>15 DEF vars, renderer, shm, indices, counts
<1> QED
  BY <1>1, <1>2, <1>3, <1>4, <1>5, <1>6, <1>7, <1>8, <1>9, <1>10, <1>11,
     <1>12, <1>13, <1>14, <1>15 DEF Next, IoStep, ReadStep

-----------------------------------------------------------------------------
QueueVars == <<Queued, shown, cut>>

LEMMA QueueInit == Init => Queue!Init
  BY DEF Init, Queue!Init, Queued

\* The queue is made of the indices, the count and the frames alone.
LEMMA SameQueue ==
  ASSUME UNCHANGED <<r_idx, frame_count, ring, shown, cut>>
  PROVE  UNCHANGED QueueVars
  BY DEF QueueVars, Queued, Slot

LEMMA WriteIsPut ==
  ASSUME TypeOK, RingAgrees, Order, ~cut, IoWrite
  PROVE  Queue!Put(frame) /\ frame \in 1 .. MaxFrames
<1> USE ShmAssumption
<1>1. frame_count < RING_BUFFER_CNT /\ frame_count \in Nat
  BY DEF IoWrite, RingAgrees, TypeOK
<1>2. /\ frame_count' = frame_count + 1 /\ ~cut' /\ shown' = shown /\ cut' = cut
      /\ \A i \in Nat : Slot(i)' = Slot(i)
  BY <1>1 DEF IoWrite, Up, Slot
<1>3. \A i \in 0 .. frame_count - 1 : ring'[Slot(i)] = ring[Slot(i)]
  BY <1>1, SlotFacts DEF IoWrite, TypeOK
<1>4. ring'[Slot(frame_count)] = frame
  BY <1>1, SlotFacts DEF IoWrite, TypeOK
<1>5. /\ shown < frame /\ frame \in 1 .. MaxFrames
      /\ \A i \in 0 .. frame_count - 1 : ring[Slot(i)] < frame
  BY DEF IoWrite, Order, Ordered, TypeOK, Frames
<1> HIDE DEF Slot
<1>6. Queued = [i \in 1 .. frame_count |-> ring[Slot(i - 1)]]
  BY DEF Queued
<1>7. Queued' = [i \in 1 .. frame_count + 1 |-> ring'[Slot(i - 1)]]
  BY <1>1, <1>2 DEF Queued
<1>8. Queued \in Seq(Frames) /\ Len(Queued) = frame_count
  BY <1>1, <1>6, SlotFacts DEF TypeOK
<1>9. Queued' = Append(Queued, frame)
  <2>1. \A i \in 0 .. frame_count : ring'[Slot(i)] \in Frames
    BY <1>1, <1>3, <1>4, <1>5, SlotFacts DEF TypeOK, Frames
  <2>2. Queued' \in Seq(Frames) /\ Len(Queued') = frame_count + 1
    BY <1>1, <1>7, <2>1
  <2>3. /\ Append(Queued, frame) \in Seq(Frames)
        /\ Len(Append(Queued, frame)) = frame_count + 1
    BY <1>5, <1>8, AppendProperties DEF Frames
  <2>4. ASSUME NEW i \in 1 .. frame_count + 1
        PROVE  Queued'[i] = Append(Queued, frame)[i]
    <3>1. CASE i = frame_count + 1
      BY <1>1, <1>4, <1>5, <1>7, <1>8, <3>1, AppendProperties DEF Frames
    <3>2. CASE i # frame_count + 1
      BY <1>1, <1>3, <1>5, <1>6, <1>7, <1>8, <3>2, AppendProperties DEF Frames
    <3> QED
      BY <3>1, <3>2
  <2> QED
    BY <2>2, <2>3, <2>4, SeqEqual
<1>10. \A i \in 1 .. Len(Queued) : Queued[i] < frame
  BY <1>1, <1>5, <1>6, <1>8
<1> QED
  BY <1>1, <1>2, <1>5, <1>8, <1>9, <1>10 DEF Queue!Put

LEMMA ReadIsGet ==
  ASSUME TypeOK, RingAgrees, ~cut, NEW s \in Sources, ReadCopy(s)
  PROVE  Queue!Get
<1> USE ShmAssumption
<1>1. frame_count > 0 /\ frame_count \in Nat
  BY DEF ReadCopy, RingAgrees, Reading, TypeOK
<1>2. /\ frame_count' = frame_count - 1 /\ ~cut' /\ cut' = cut
      /\ \A i \in 0 .. frame_count - 2 : Slot(i)' = Slot(i + 1)
  BY <1>1, SlotFacts DEF ReadCopy, Down
<1>3. ring' = ring /\ shown' = ring[Slot(0)]
  BY <1>1, SlotFacts DEF ReadCopy
<1>4. Queued = [i \in 1 .. frame_count |-> ring[Slot(i - 1)]]
  BY DEF Queued
<1>5. Queued' = [i \in 1 .. frame_count - 1 |-> ring[Slot(i)]]
  BY <1>1, <1>2, <1>3 DEF Queued
<1>6. Queued \in Seq(Frames) /\ Len(Queued) = frame_count
  BY <1>1, <1>4, SlotFacts DEF TypeOK
<1>7. Queued # << >> /\ shown' = Head(Queued)
  BY <1>1, <1>3, <1>4, <1>6
<1>8. Queued' = Tail(Queued)
  <2>1. /\ Tail(Queued) \in Seq(Frames) /\ Len(Tail(Queued)) = frame_count - 1
        /\ \A i \in 1 .. frame_count - 1 : Tail(Queued)[i] = Queued[i + 1]
    BY <1>1, <1>6, <1>7, HeadTailProperties
  <2>2. \A i \in 1 .. frame_count - 1 : ring[Slot(i)] = Queued[i + 1]
    BY <1>1, <1>4
  <2>3. Queued' \in Seq(Frames) /\ Len(Queued') = frame_count - 1
    BY <1>1, <1>5, SlotFacts DEF TypeOK
  <2>4. \A i \in 1 .. frame_count - 1 : Queued'[i] = Tail(Queued)[i]
    BY <1>5, <2>1, <2>2
  <2> QED
    BY <2>1, <2>3, <2>4, SeqEqual
<1> QED
  BY <1>2, <1>7, <1>8 DEF Queue!Get

LEMMA QueueStep ==
  TypeOK /\ RingAgrees /\ Order /\ [Next]_vars => [Queue!Next]_QueueVars
<1> SUFFICES ASSUME TypeOK, RingAgrees, Order, [Next]_vars,
                    ~UNCHANGED QueueVars
             PROVE  Queue!Next
  OBVIOUS
<1>0. CASE cut
  BY <1>0 DEF Queue!Next, Next, vars, StartRenderer, OnFrame, StopRenderer,
     IoStep, IoReturn, IoTake, IoLock, IoWrite, StopSource, StartSource,
     ReadStep, Attach, ReadLock, ReadCopy, KillDaemon, KillWindow
<1> SUFFICES ASSUME ~cut PROVE Queue!Next
  BY <1>0
<1>1. CASE StartRenderer
  <2>1. CASE cut'
    BY <2>1 DEF Queue!Next, Queue!Break
  <2>2. CASE ~cut'
    <3>1. frame_count' = 0
      BY <1>1 DEF StartRenderer, InitShmSync
    <3> HIDE DEF Slot
    <3>2. Queued' = << >>
      BY <2>2, <3>1 DEF Queued
    <3>3. cut \in BOOLEAN /\ cut' \in BOOLEAN
      BY <1>1, Zenon DEF StartRenderer, TypeOK
    <3> QED
      BY <1>1, <2>2, <3>2, <3>3 DEF Queue!Next, Queue!Reset, StartRenderer
  <2> QED
    BY <2>1, <2>2
<1>2. CASE IoWrite
  BY <1>2, WriteIsPut DEF Queue!Next
<1>3. ASSUME NEW s \in Sources, ReadCopy(s) PROVE Queue!Next
  BY <1>3, ReadIsGet DEF Queue!Next
<1>4. CASE OnFrame \/ StopRenderer \/ IoReturn \/ IoTake \/ IoLock \/ StopSource
           \/ KillDaemon \/ KillWindow \/ UNCHANGED vars
           \/ \E s \in Sources : StartSource(s) \/ Attach(s) \/ ReadLock(s)
  <2>1. UNCHANGED <<r_idx, frame_count, ring, shown, cut>>
    BY <1>4 DEF vars, OnFrame, StopRenderer, IoReturn, IoTake, IoLock,
       StopSource, KillDaemon, KillWindow, StartSource, Attach, ReadLock, shm,
       indices
  <2> QED
    BY <2>1, SameQueue
<1> QED
  BY <1>1, <1>2, <1>3, <1>4 DEF Next, IoStep, ReadStep

\* The shared ring implements the queue of frames: each step of a thread or
\* of a process is a Put, a Get, a Reset, the Break, or no step at all.
THEOREM Refinement == Spec => ImplementsQueue
<1> DEFINE Inv == TypeOK /\ RingAgrees /\ Order
<1>1. Init => Inv
  BY TypeInit, AgreesInit, OrderInit
<1>2. Inv /\ [Next]_vars => Inv'
  BY TypeStep, AgreesStep, OrderStep
<1>3. Inv /\ [Next]_vars => [Queue!Next]_QueueVars
  BY QueueStep
<1> QED
  BY <1>1, <1>2, <1>3, QueueInit, PTL DEF Spec, ImplementsQueue, Queue!Spec,
     QueueVars
=============================================================================
