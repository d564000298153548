------------------------------ MODULE DmaRing ------------------------------
(***************************************************************************)
(* The arm64 client's video: a producer writes frames into DMA buffers     *)
(* (RgaVideoTrackSource::OnRawFrame for the local direction,               *)
(* RgaDecodedSink::Decoded for the remote one) and each window reads them  *)
(* in place (dma_buf_reader.cc under dma_buf_video_source.cpp), without    *)
(* holding up the producer.  The control block in shared memory has the    *)
(* mutex, the producer's cursor, and for each slot a sequence number and a *)
(* header; a reader keeps its cursor for itself.                           *)
(*                                                                         *)
(* A frame is the number of its publication; what is half written, or was  *)
(* never written, is 0.  A step is what a thread does between two accesses *)
(* to the control block that another thread can come between.              *)
(***************************************************************************)
EXTENDS Integers

CONSTANTS
  Readers,         \* the DmaBufVideoSource objects
  RING_BUFFER_CNT,
  MaxRetries,      \* 100: how often ReadFrame finds the slot being written
  MaxBegins        \* bound on the frames begun

ASSUME DmaAssumption ==
  /\ RING_BUFFER_CNT \in Nat \ {0}
  /\ MaxRetries \in Nat /\ MaxBegins \in Nat

VARIABLES
  mtx,       \* the control block: "producer" has its mutex, or it is "free"
  w_idx, seq,
  head,      \* slot -> the frame its header describes
  pix,       \* slot -> the frame its DMA buffer shows
  producer,  \* the place of the producer
  published, \* how many frames were published
  begins,    \* how many frames were begun
  pc,        \* the place of each reader, and the locals of its ReadFrame
  r_idx, slot, seq0, seq1, retries, out_head,
  target,    \* the frame that was in the slot when the reader chose it
  stop       \* the readers told to stop

control == <<mtx, w_idx, seq, head, pix>>
source  == <<producer, published, begins>>
locals  == <<r_idx, slot, seq0, seq1, retries, out_head, target>>
vars    == <<control, source, pc, locals, stop>>

Slots == 0 .. RING_BUFFER_CNT - 1

(* (i + 1) % RING_BUFFER_CNT of an index.                                  *)
NextSlot(i) == IF i + 1 = RING_BUFFER_CNT THEN 0 ELSE i + 1

(* What the init of the control block leaves.                              *)
Init ==
  /\ mtx = "free" /\ w_idx = 0 /\ seq = [i \in Slots |-> 0]
  /\ head = [i \in Slots |-> 0] /\ pix = [i \in Slots |-> 0]
  /\ producer = "idle" /\ published = 0 /\ begins = 0
  /\ pc = [c \in Readers |-> "off"] /\ stop = {}
  /\ r_idx = [c \in Readers |-> 0] /\ slot = [c \in Readers |-> 0]
  /\ seq0 = [c \in Readers |-> 0] /\ seq1 = [c \in Readers |-> 0]
  /\ retries = [c \in Readers |-> 0]
  /\ out_head = [c \in Readers |-> 0] /\ target = [c \in Readers |-> 0]

-----------------------------------------------------------------------------
(* The producer.                                                           *)

(* It marks the slot as being written, without a look at the readers.      *)
Begin ==
  /\ producer = "idle" /\ mtx = "free" /\ begins < MaxBegins
  /\ producer' = "begun"
  /\ begins' = begins + 1
  /\ seq' = [seq EXCEPT ![w_idx] = @ + 1]
  /\ UNCHANGED <<mtx, w_idx, head, pix, published, pc, locals, stop>>

Blit ==
  /\ producer = "begun"
  /\ producer' = "blit"
  /\ pix' = [pix EXCEPT ![w_idx] = 0]
  /\ UNCHANGED <<mtx, w_idx, seq, head, published, begins, pc, locals, stop>>

(* There is no I420 frame to copy, or the blit fails on the way.           *)
Revert ==
  /\ producer \in {"begun", "blit"} /\ mtx = "free"
  /\ producer' = "idle"
  /\ seq' = [seq EXCEPT ![w_idx] = @ - 1]
  /\ UNCHANGED <<mtx, w_idx, head, pix, published, begins, pc, locals, stop>>

(* The blit is done; with the mutex, the header is written ...             *)
WriteHead ==
  /\ producer = "blit" /\ mtx = "free"
  /\ producer' = "head"
  /\ mtx' = "producer"
  /\ pix' = [pix EXCEPT ![w_idx] = published + 1]
  /\ head' = [head EXCEPT ![w_idx] = 0]
  /\ UNCHANGED <<w_idx, seq, published, begins, pc, locals, stop>>

(* ... and cursor and sequence number move on.                             *)
Publish ==
  /\ producer = "head"
  /\ producer' = "idle"
  /\ mtx' = "free"
  /\ published' = published + 1
  /\ head' = [head EXCEPT ![w_idx] = published + 1]
  /\ w_idx' = NextSlot(w_idx)
  /\ seq' = [seq EXCEPT ![w_idx] = @ + 1]
  /\ UNCHANGED <<pix, begins, pc, locals, stop>>

-----------------------------------------------------------------------------
(* The readers.                                                            *)

Goto(c, place) == pc' = [pc EXCEPT ![c] = place]

(* Mutant of Attach: starts with the frame before the cursor.              *)
AttachBehind(c) ==
  /\ pc[c] = "off"
  /\ Goto(c, "ready")
  /\ r_idx' = [r_idx EXCEPT ![c] = IF w_idx = 0 THEN 0 ELSE w_idx - 1]
  /\ out_head' = [out_head EXCEPT ![c] = 0]
  /\ target' = [target EXCEPT ![c] = published]
  /\ UNCHANGED <<control, source, slot, seq0, seq1, retries, stop>>

(* The last step of DmaBufReader::Init: only frames still to come count.   *)
Attach(c) ==
  /\ pc[c] = "off"
  /\ Goto(c, "ready")
  /\ r_idx' = [r_idx EXCEPT ![c] = w_idx]
  /\ out_head' = [out_head EXCEPT ![c] = 0]
  /\ target' = [target EXCEPT ![c] = published]
  /\ UNCHANGED <<control, source, slot, seq0, seq1, retries, stop>>

(* Mutant of Wait: looks for the stop only once a frame has come.          *)
WaitForFrame(c) ==
  /\ pc[c] = "ready" /\ mtx = "free" /\ r_idx[c] # w_idx
  /\ c \in stop
  /\ Goto(c, "done")
  /\ UNCHANGED <<control, source, locals, stop>>

(* ReadFrame waits while its cursor is at the producer's, 100 ms at a      *)
(* time; readLoop then looks whether to go on.                             *)
Wait(c) ==
  /\ pc[c] = "ready" /\ mtx = "free" /\ r_idx[c] = w_idx
  /\ c \in stop
  /\ Goto(c, "done")
  /\ UNCHANGED <<control, source, locals, stop>>

(* ReadFrame takes the slot at its cursor and releases the mutex.          *)
Take(c) ==
  /\ pc[c] = "ready" /\ mtx = "free" /\ r_idx[c] # w_idx
  /\ Goto(c, "load")
  /\ slot' = [slot EXCEPT ![c] = r_idx[c]]
  /\ r_idx' = [r_idx EXCEPT ![c] = NextSlot(@)]
  /\ seq1' = [seq1 EXCEPT ![c] = 0]
  /\ retries' = [retries EXCEPT ![c] = 0]
  /\ target' = [target EXCEPT ![c] = head[r_idx[c]]]
  /\ UNCHANGED <<control, source, seq0, out_head, stop>>

(* readLoop goes on as long as it was not told to stop.                    *)
Again(c) == IF c \in stop THEN "done" ELSE "ready"

Odd(n) == n % 2 = 1

GivesUp(c) == retries[c] = MaxRetries

(* The first load of the sequence number.  When it is odd, continue goes   *)
(* to the loop's condition, which compares it with the second load of an   *)
(* earlier round.                                                          *)
LoadSeq(c) ==
  /\ pc[c] = "load"
  /\ LET s == seq[slot[c]] IN
       /\ seq0' = [seq0 EXCEPT ![c] = s]
       /\ \/ ~Odd(s) /\ Goto(c, "copy") /\ UNCHANGED retries
          \/ Odd(s) /\ GivesUp(c) /\ Goto(c, Again(c)) /\ UNCHANGED retries
          \/ /\ Odd(s) /\ ~GivesUp(c)
             /\ Goto(c, IF s = seq1[c] THEN "use" ELSE "load")
             /\ retries' = [retries EXCEPT ![c] = @ + 1]
  /\ UNCHANGED <<control, source, r_idx, slot, seq1, out_head, target, stop>>

(* Mutant of CopyHead: reads the header of the slot after its own.         *)
CopyNextHead(c) ==
  /\ pc[c] = "copy"
  /\ Goto(c, "check")
  /\ out_head' = [out_head EXCEPT ![c] = head[r_idx[c]]]
  /\ UNCHANGED <<control, source, r_idx, slot, seq0, seq1, retries, target,
                 stop>>

CopyHead(c) ==
  /\ pc[c] = "copy"
  /\ Goto(c, "check")
  /\ out_head' = [out_head EXCEPT ![c] = head[slot[c]]]
  /\ UNCHANGED <<control, source, r_idx, slot, seq0, seq1, retries, target,
                 stop>>

(* The second load: if nothing moved, ReadFrame returns true.              *)
CheckSeq(c) ==
  /\ pc[c] = "check"
  /\ seq1' = [seq1 EXCEPT ![c] = seq[slot[c]]]
  /\ Goto(c, IF seq[slot[c]] = seq0[c] THEN "use" ELSE "load")
  /\ UNCHANGED <<control, source, r_idx, slot, seq0, retries, out_head, target,
                 stop>>

(* readLoop converts the pixels where they are: it is at "use" from the    *)
(* first to the last.                                                      *)
Show(c) ==
  /\ pc[c] = "use"
  /\ Goto(c, Again(c))
  /\ UNCHANGED <<control, source, locals, stop>>

(* stop, from the window, and the destructors.                             *)
Stop(c) ==
  /\ pc[c] \notin {"off", "done"} /\ c \notin stop
  /\ stop' = stop \cup {c}
  /\ UNCHANGED <<control, source, pc, locals>>

Detach(c) ==
  /\ pc[c] = "done"
  /\ Goto(c, "off")
  /\ stop' = stop \ {c}
  /\ UNCHANGED <<control, source, locals>>

-----------------------------------------------------------------------------
ProducerStep  == Begin \/ Blit \/ Revert \/ WriteHead \/ Publish
ReadStep(c)   == LoadSeq(c) \/ CopyHead(c) \/ CheckSeq(c)
ReaderStep(c) == Wait(c) \/ Take(c) \/ ReadStep(c) \/ Show(c)

Next ==
  \/ ProducerStep
  \/ \E c \in Readers : Attach(c) \/ ReaderStep(c) \/ Stop(c) \/ Detach(c)

Spec == Init /\ [][Next]_vars

(* Reading threads run.  The producer may stop between any two steps.      *)
Fairness == \A c \in Readers :
  /\ WF_vars(ReadStep(c) \/ Show(c))
  /\ SF_vars(Wait(c) \/ Take(c))

FairSpec == Spec /\ Fairness

-----------------------------------------------------------------------------
Places == {"off", "ready", "load", "copy", "check", "use", "done"}
Frames == 0 .. MaxBegins

(* Every variable has its type.                                            *)
TypeOK ==
  /\ mtx \in {"free", "producer"} /\ w_idx \in Slots
  /\ seq \in [Slots -> Nat]
  /\ head \in [Slots -> Frames] /\ pix \in [Slots -> Frames]
  /\ producer \in {"idle", "begun", "blit", "head"}
  /\ published \in Frames /\ begins \in Frames
  /\ pc \in [Readers -> Places] /\ stop \subseteq Readers
  /\ r_idx \in [Readers -> Slots] /\ slot \in [Readers -> Slots]
  /\ seq0 \in [Readers -> Nat] /\ seq1 \in [Readers -> Nat]
  /\ retries \in [Readers -> 0 .. MaxRetries]
  /\ out_head \in [Readers -> Frames] /\ target \in [Readers -> Frames]

(* A slot's sequence number is odd while the producer writes it and at no  *)
(* other time, whether frames succeed or are given up                      *)
(* (video_frame_shm_ctrl.h:28).                                            *)
SeqMarksWriting ==
  \A i \in Slots : Odd(seq[i]) <=> producer # "idle" /\ w_idx = i

(* What the ring gives without locks: a reader that the producer has not   *)
(* caught up with gets the header and the pixels of the frame it chose,    *)
(* and has them until it is done with them.                                *)
RecentIsWhole ==
  \A c \in Readers :
    pc[c] = "use" /\ published < target[c] + RING_BUFFER_CNT - 1 =>
      out_head[c] = target[c] /\ pix[slot[c]] = target[c]

(* A reader never goes back: each frame it chooses is newer than the one   *)
(* it showed.  It misses a frame only once it is a whole ring behind.      *)
Chooses(c) == pc[c] = "ready" /\ pc'[c] = "load"

FramesInTurn ==
  [][\A c \in Readers : Chooses(c) =>
       /\ target'[c] > target[c] /\ target'[c] > out_head[c]
       /\ published <= target[c] + RING_BUFFER_CNT => target'[c] = target[c] + 1
    ]_vars

(* A source that is told to stop does, unless the producer stopped with    *)
(* the mutex.                                                              *)
SourceStops ==
  \A c \in Readers :
    c \in stop ~> pc[c] \in {"done", "off"} \/ mtx = "producer"
=============================================================================
