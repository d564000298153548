------------------------------ MODULE VideoShm ------------------------------
(***************************************************************************)
(* One direction of the x64 client's video: the renderer of the daemon     *)
(* (shm_video_renderer.cc over shm_video_writer.cc) hands frames through a *)
(* ring in System V shared memory to the sources of the window             *)
(* (shm_video_source.cpp over shm_video_reader.cpp).  The local and the    *)
(* remote direction each have a ring of their own and run the same code.   *)
(*                                                                         *)
(* The threads are the daemon's signalling thread, which makes and         *)
(* destroys the renderer, the capture or decoder thread that calls         *)
(* OnFrame, the renderer's io thread, the window's thread and one reading  *)
(* thread for each source.  The segment outlives every process.  A step is *)
(* what a thread does up to where it takes or releases the segment's       *)
(* mutex; a frame is the number of its production, and its bytes pass with *)
(* it.  The 100 ms and 500 ms waits may end at any time.                   *)
(***************************************************************************)
EXTENDS Integers, Sequences, FiniteSets

CONSTANTS
  Sources,         \* the ShmVideoSource objects the window makes
  RING_BUFFER_CNT,
  MaxCount,        \* the greatest frame_count: UINT32_MAX
  MaxFrames,       \* bound on the frames produced
  Oversize,        \* the frames longer than FRAME_MAX_SIZE
  MaxStarts,       \* bound on renderers started
  MaxKills         \* bound on processes killed

ASSUME ShmAssumption ==
  /\ RING_BUFFER_CNT \in Nat \ {0} /\ MaxCount \in Nat
  /\ RING_BUFFER_CNT <= MaxCount
  /\ MaxFrames \in Nat /\ MaxStarts \in Nat /\ MaxKills \in Nat
  /\ "io" \notin Sources /\ "free" \notin Sources /\ "none" \notin Sources

VARIABLES
  mtx,      \* the segment: who holds its mutex, or "free"
  w_idx, r_idx, frame_count,
  ring,
  exists,   \* whether the segment was ever made
  io,       \* the place of the io thread; "off" when there is no renderer
  frame,    \* the frame the io thread writes
  pending_, \* the frame OnFrame left for the io thread, 0 if none
  stopped_, \* whether the renderer's destructor runs
  reader,   \* the place of each source
  stop,     \* the sources told to stop
  current,  \* the source the window points to, or "none"
  shown,    \* the last frame that was read
  cut,      \* whether a mutex was initialised while it was in use
  frames, starts, kills  \* how many there were

indices  == <<w_idx, r_idx, frame_count, ring>>
shm      == <<mtx, indices>>
renderer == <<io, frame, pending_, stopped_>>
window   == <<reader, stop, current>>
counts   == <<frames, starts, kills>>
vars     == <<shm, exists, renderer, window, shown, cut, counts>>

Slots  == 0 .. RING_BUFFER_CNT - 1
Frames == 0 .. MaxFrames

Init ==
  /\ mtx = "free" /\ w_idx = 0 /\ r_idx = 0 /\ frame_count = 0
  /\ ring = [i \in Slots |-> 0]
  /\ exists = FALSE
  /\ io = "off" /\ frame = 0 /\ pending_ = 0 /\ stopped_ = FALSE
  /\ reader = [s \in Sources |-> "none"] /\ stop = {} /\ current = "none"
  /\ shown = 0 /\ cut = FALSE
  /\ frames = 0 /\ starts = 0 /\ kills = 0

(* (i + 1) % RING_BUFFER_CNT of an index, and the uint32_t ++ and --.      *)
NextSlot(i) == IF i + 1 = RING_BUFFER_CNT THEN 0 ELSE i + 1
Up(n) == IF n = MaxCount THEN 0 ELSE n + 1

Down(n) == IF n = 0 THEN MaxCount ELSE n - 1

Reading == {s \in Sources : reader[s] = "copy"}

-----------------------------------------------------------------------------
(* The daemon.                                                             *)

(* StartLocalRenderer, StartRemoteRenderer: the writer initialises the     *)
(* mutex and the indices of a segment that may be in use.                  *)
InitShmSync ==
  /\ mtx' = "free" /\ w_idx' = 0 /\ r_idx' = 0 /\ frame_count' = 0
  /\ UNCHANGED ring

StartRenderer ==
  /\ io = "off" /\ starts < MaxStarts
  /\ InitShmSync
  /\ exists' = TRUE
  /\ cut' = (cut \/ mtx # "free" \/ Reading # {})
  /\ io' = "idle" /\ frame' = 0 /\ pending_' = 0 /\ stopped_' = FALSE
  /\ starts' = starts + 1
  /\ UNCHANGED <<window, shown, frames, kills>>

(* A new frame replaces one that the io thread has not taken.              *)
OnFrame ==
  /\ io # "off" /\ frames < MaxFrames
  /\ frames' = frames + 1
  /\ pending_' = frames + 1
  /\ UNCHANGED <<shm, exists, io, frame, stopped_, window, shown, cut, starts,
                 kills>>

(* The destructor, on the signalling thread, waits for the io thread.      *)
StopRenderer ==
  /\ io # "off" /\ ~stopped_
  /\ stopped_' = TRUE
  /\ UNCHANGED <<shm, exists, io, frame, pending_, window, shown, cut, counts>>

IoReturn ==
  /\ io = "idle" /\ stopped_
  /\ io' = "off" /\ pending_' = 0 /\ stopped_' = FALSE
  /\ UNCHANGED <<shm, exists, frame, window, shown, cut, counts>>

(* Mutant of IoTake: the frame taken stays pending.                        *)
IoTakeKeeps ==
  /\ io = "idle" /\ ~stopped_ /\ pending_ # 0
  /\ frame' = pending_
  /\ io' = IF pending_ \in Oversize THEN "idle" ELSE "lock"
  /\ UNCHANGED <<shm, exists, pending_, stopped_, window, shown, cut, counts>>

(* IoLoop takes the frame; WriteFrame refuses one that is too long.        *)
IoTake ==
  /\ io = "idle" /\ ~stopped_ /\ pending_ # 0
  /\ frame' = pending_
  /\ pending_' = 0
  /\ io' = IF pending_ \in Oversize THEN "idle" ELSE "lock"
  /\ UNCHANGED <<shm, exists, stopped_, window, shown, cut, counts>>

(* Mutant of IoLock: the writer waits only once the ring is past full.     *)
IoLockPastFull ==
  /\ io = "lock" /\ mtx = "free"
  /\ IF frame_count > RING_BUFFER_CNT
     THEN io' = "full" /\ UNCHANGED shm
     ELSE io' = "copy" /\ mtx' = "io" /\ UNCHANGED indices
  /\ UNCHANGED <<exists, frame, pending_, stopped_, window, shown, cut, counts>>

(* WriteFrame, up to the copy: the wait for room releases the mutex.       *)
IoLock ==
  /\ io = "lock" /\ mtx = "free"
  /\ IF frame_count >= RING_BUFFER_CNT
     THEN io' = "full" /\ UNCHANGED shm
     ELSE io' = "copy" /\ mtx' = "io" /\ UNCHANGED indices
  /\ UNCHANGED <<exists, frame, pending_, stopped_, window, shown, cut, counts>>

(* The rest of WriteFrame.  It wakes one reader, whose wait may end at any *)
(* time as it is.                                                          *)
IoWrite ==
  /\ io = "copy"
  /\ ring' = [ring EXCEPT ![w_idx] = frame]
  /\ w_idx' = NextSlot(w_idx)
  /\ frame_count' = Up(frame_count)
  /\ mtx' = "free"
  /\ io' = "idle"
  /\ UNCHANGED <<r_idx, exists, frame, pending_, stopped_, window, shown, cut, counts>>

-----------------------------------------------------------------------------
(* The window.                                                             *)

(* startVideoSources, on each "connected" of ICE: a source that still runs *)
(* is no longer pointed to.                                                *)
StartSource(s) ==
  /\ reader[s] = "none"
  /\ reader' = [reader EXCEPT ![s] = "init"]
  /\ current' = s
  /\ UNCHANGED <<shm, exists, renderer, stop, shown, cut, counts>>

(* tryInit, again every 500 ms.                                            *)
Attach(s) ==
  /\ reader[s] = "init"
  /\ \/ s \in stop /\ reader' = [reader EXCEPT ![s] = "done"]
     \/ s \notin stop /\ exists /\ reader' = [reader EXCEPT ![s] = "lock"]
  /\ UNCHANGED <<shm, exists, renderer, stop, current, shown, cut, counts>>

(* stopVideoSources; Stop waits 5 s at most for the thread.                *)
StopSource ==
  /\ current # "none"
  /\ stop' = stop \cup {current}
  /\ current' = "none"
  /\ UNCHANGED <<shm, exists, renderer, reader, shown, cut, counts>>

(* Mutant of EmptyPlace: the wait for a frame does not look at the stop.   *)
EmptyPlaceWait(s) == "wait"

(* ReadFrame up to the copy.  The wait for a frame releases the mutex; a   *)
(* stop is seen only when the ring is empty.                               *)
EmptyPlace(s) == IF s \in stop THEN "done" ELSE "wait"

ReadLock(s) ==
  /\ reader[s] \in {"lock", "wait"} /\ mtx = "free"
  /\ IF frame_count = 0
     THEN /\ reader' = [reader EXCEPT ![s] = EmptyPlace(s)]
          /\ UNCHANGED shm
     ELSE /\ reader' = [reader EXCEPT ![s] = "copy"]
          /\ mtx' = s /\ UNCHANGED indices
  /\ UNCHANGED <<exists, renderer, stop, current, shown, cut, counts>>

(* Mutant of SignalCanWrite: nobody is woken.                              *)
SignalNobody == UNCHANGED io

(* cv_can_write has one waiter, the io thread.                             *)
SignalCanWrite == io' = IF io = "full" THEN "lock" ELSE io

(* The rest of ReadFrame, and readLoop's test of running_.                 *)
ReadCopy(s) ==
  /\ reader[s] = "copy"
  /\ shown' = ring[r_idx]
  /\ r_idx' = NextSlot(r_idx)
  /\ frame_count' = Down(frame_count)
  /\ mtx' = "free"
  /\ SignalCanWrite
  /\ reader' = [reader EXCEPT ![s] = IF s \in stop THEN "done" ELSE "lock"]
  /\ UNCHANGED <<w_idx, ring, exists, frame, pending_, stopped_, stop, current,
                 cut, counts>>

-----------------------------------------------------------------------------
(* A killed process leaves a mutex its thread holds locked.                *)

KillDaemon ==
  /\ io # "off" /\ kills < MaxKills
  /\ io' = "off" /\ pending_' = 0 /\ stopped_' = FALSE
  /\ kills' = kills + 1
  /\ UNCHANGED <<shm, exists, frame, window, shown, cut, frames, starts>>

KillWindow ==
  /\ kills < MaxKills
  /\ \E s \in Sources : reader[s] \notin {"none", "done"}
  /\ reader' = [s \in Sources |-> IF reader[s] = "none" THEN "none" ELSE "done"]
  /\ current' = "none"
  /\ kills' = kills + 1
  /\ UNCHANGED <<shm, exists, renderer, stop, shown, cut, frames, starts>>

-----------------------------------------------------------------------------
IoStep        == IoReturn \/ IoTake \/ IoLock \/ IoWrite
ReadStep(s)   == Attach(s) \/ ReadLock(s) \/ ReadCopy(s)

Next ==
  \/ StartRenderer \/ OnFrame \/ StopRenderer \/ IoStep
  \/ StopSource
  \/ \E s \in Sources : StartSource(s) \/ ReadStep(s)
  \/ KillDaemon \/ KillWindow

Spec == Init /\ [][Next]_vars

(* Threads that can run do, timed waits end, and a thread that asks for    *)
(* the mutex again and again as it is released gets it.                    *)
Fairness ==
  /\ WF_vars(IoReturn \/ IoTake) /\ SF_vars(IoLock) /\ WF_vars(IoWrite)
  /\ \A s \in Sources :
       WF_vars(Attach(s)) /\ SF_vars(ReadLock(s)) /\ WF_vars(ReadCopy(s))

FairSpec == Spec /\ Fairness

-----------------------------------------------------------------------------
IoPlaces == {"off", "idle", "lock", "full", "copy"}
Places   == {"none", "init", "lock", "wait", "copy", "done"}

(* Every variable has its type; frame_count is a uint32_t.                 *)
TypeOK ==
  /\ mtx \in {"free", "io"} \cup Sources
  /\ w_idx \in Slots /\ r_idx \in Slots /\ frame_count \in 0 .. MaxCount
  /\ ring \in [Slots -> Frames]
  /\ exists \in BOOLEAN /\ stopped_ \in BOOLEAN /\ cut \in BOOLEAN
  /\ io \in IoPlaces /\ frame \in Frames /\ pending_ \in Frames
  /\ reader \in [Sources -> Places]
  /\ stop \subseteq Sources /\ current \in {"none"} \cup Sources
  /\ shown \in Frames /\ frames \in Frames
  /\ starts \in 0 .. MaxStarts /\ kills \in 0 .. MaxKills

(* While no segment was initialised under a thread's feet, the indices and *)
(* the count describe the same frames, the count stays within the ring,    *)
(* and the one thread that copies holds the mutex and has a slot for it:   *)
(* whatever processes are killed in between, and however many sources the  *)
(* window has lost sight of.                                               *)
RingAgrees ==
  ~cut =>
    /\ frame_count <= RING_BUFFER_CNT
    /\ w_idx \in {r_idx + frame_count, r_idx + frame_count - RING_BUFFER_CNT}
    /\ io = "copy" => mtx = "io" /\ frame_count < RING_BUFFER_CNT
    /\ \A s \in Reading : mtx = s /\ frame_count > 0

(* The frames that wait to be read, oldest first.                          *)
Slot(i) == IF r_idx + i < RING_BUFFER_CNT THEN r_idx + i
           ELSE r_idx + i - RING_BUFFER_CNT

Queued == IF cut THEN << >>
          ELSE [i \in 1 .. frame_count |-> ring[Slot(i - 1)]]

Queue == INSTANCE FrameQueue WITH queue <- Queued, broken <- cut

(* The ring is a queue: each frame written is read once, in the order of   *)
(* production, by one source or another, although frames replace each      *)
(* other in pending_ and renderers come and go.                            *)
ImplementsQueue == Queue!Spec

(* The mutex is of no more use: its holder is dead, or it was initialised  *)
(* while in use.                                                           *)
MutexDead ==
  \/ cut
  \/ mtx = "io" /\ io # "copy"
  \/ \E s \in Sources : mtx = s /\ reader[s] # "copy"

Running == \E s \in Sources \ stop : reader[s] \in {"lock", "wait", "copy"}

(* The renderer's destructor returns as long as some source reads: the io  *)
(* thread may be waiting in a full ring when it is called, and no wake-up  *)
(* is lost.                                                                *)
RendererStops == stopped_ /\ Running ~> ~stopped_ \/ ~Running \/ MutexDead

(* A source that is told to stop does, also when frames keep coming, when  *)
(* none comes, and when there has never been a segment to attach to.       *)
SourceStops ==
  \A s \in Sources : s \in stop ~> reader[s] = "done" \/ MutexDead
=============================================================================
