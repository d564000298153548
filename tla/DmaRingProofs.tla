--------------------------- MODULE DmaRingProofs ---------------------------
(***************************************************************************)
(* Proofs about DmaRing, for any ring, readers and bounds: its types, that *)
(* the marks are where the producer writes, that a reader which is not     *)
(* overtaken has a whole frame, and that no reader goes back.              *)
(*                                                                         *)
(* A reader compares two indices, and a ring index says nothing of how far *)
(* apart two frames are once the producer went round.  The invariant       *)
(* therefore speaks of the age of a slot, how many slots back from the     *)
(* producer's cursor it is, and relates the frames to it: Contents for the *)
(* ring, Cursors for what a reader chose and is to choose next.            *)
(***************************************************************************)
EXTENDS DmaRing, TLAPS

Age(w, i) == IF i < w THEN w - i ELSE w - i + RING_BUFFER_CNT

(* The frame published when the cursor was last at slot i.                 *)
Held(w, p, i) == IF Age(w, i) <= p THEN p + 1 - Age(w, i) ELSE 0

Counts ==
  /\ mtx = "producer" <=> producer = "head"
  /\ published <= begins
  /\ producer # "idle" => published < begins

Contents ==
  \A i \in Slots :
    /\ i # w_idx \/ producer # "head" => head[i] = Held(w_idx, published, i)
    /\ i # w_idx => pix[i] = Held(w_idx, published, i)
    /\ i = w_idx /\ producer = "head" => head[i] = 0 /\ pix[i] = published + 1

(* How old the slot is that a reader at target chooses next.               *)
AgeAfter(p, t) == IF p = t THEN RING_BUFFER_CNT ELSE p - t

Cursor(c) ==
  /\ target[c] <= published /\ out_head[c] <= published
  /\ published - target[c] <= RING_BUFFER_CNT =>
       Age(w_idx, r_idx[c]) = AgeAfter(published, target[c])
  /\ r_idx[c] # w_idx =>
       /\ target[c] < Held(w_idx, published, r_idx[c])
       /\ out_head[c] < Held(w_idx, published, r_idx[c])

Cursors == \A c \in Readers : pc[c] # "off" => Cursor(c)

Recent(c) == published < target[c] + RING_BUFFER_CNT - 1

Reads == \A c \in Readers :
  /\ pc[c] \in {"load", "copy", "check", "use"} => r_idx[c] = NextSlot(slot[c])
  /\ pc[c] \in {"check", "use"} /\ Recent(c) => out_head[c] = target[c]

IInv == TypeOK /\ Counts /\ SeqMarksWriting /\ Contents /\ Cursors /\ Reads

-----------------------------------------------------------------------------
LEMMA AgeRange ==
  ASSUME NEW w \in Slots, NEW i \in Slots
  PROVE  /\ Age(w, i) \in 1 .. RING_BUFFER_CNT
         /\ Age(w, i) = RING_BUFFER_CNT <=> i = w
         /\ NextSlot(i) \in Slots
         /\ Age(w, i) = IF NextSlot(i) = w THEN 1 ELSE Age(w, NextSlot(i)) + 1
  BY DmaAssumption DEF Age, Slots, NextSlot

LEMMA AgeUp ==
  ASSUME NEW w \in Slots, NEW i \in Slots
  PROVE  Age(NextSlot(w), i) = IF i = w THEN 1 ELSE Age(w, i) + 1
  BY DmaAssumption DEF Age, Slots, NextSlot

(* A publication leaves what the other slots hold.                         *)
LEMMA HeldUp ==
  ASSUME NEW w \in Slots, NEW i \in Slots, NEW p \in Nat
  PROVE  Held(NextSlot(w), p + 1, i) = IF i = w THEN p + 1 ELSE Held(w, p, i)
  BY AgeUp, AgeRange DEF Held

-----------------------------------------------------------------------------
LEMMA TypeInit == Init => TypeOK
  BY DmaAssumption DEF Init, TypeOK, Slots, Frames, Places

LEMMA TypeStep ==
  TypeOK /\ Counts /\ SeqMarksWriting /\ [Next]_vars => TypeOK'
<1> SUFFICES ASSUME TypeOK, Counts, SeqMarksWriting, [Next]_vars PROVE TypeOK'
  OBVIOUS
<1>0. /\ NextSlot(w_idx) \in Slots
      /\ \A c \in Readers : NextSlot(r_idx[c]) \in Slots
      /\ 0 \in Frames
      /\ begins < MaxBegins => begins + 1 \in Frames
      /\ producer # "idle" => published + 1 \in Frames
  BY AgeRange, DmaAssumption DEF TypeOK, Frames, Counts
<1> USE <1>0 DEF TypeOK
<1>1. CASE Begin
  BY <1>1 DEF Begin, locals
<1>2. CASE Blit
  BY <1>2 DEF Blit, locals
<1>3. CASE Revert
  <2>1. Odd(seq[w_idx])
    BY <1>3 DEF Revert, SeqMarksWriting
  <2>2. seq[w_idx] - 1 \in Nat
    BY <2>1 DEF Odd
  <2> QED
    BY <1>3, <2>2 DEF Revert, locals
<1>4. CASE WriteHead
  BY <1>4 DEF WriteHead, locals
<1>5. CASE Publish
  BY <1>5 DEF Publish, locals
<1>6. ASSUME NEW c \in Readers, Attach(c) PROVE TypeOK'
  BY <1>6 DEF Attach, Goto, control, source, Places
<1>7. ASSUME NEW c \in Readers, Wait(c) PROVE TypeOK'
  BY <1>7 DEF Wait, Goto, control, source, locals, Places
<1>8. ASSUME NEW c \in Readers, Take(c) PROVE TypeOK'
  BY <1>8, DmaAssumption DEF Take, Goto, control, source, Places
<1>9. ASSUME NEW c \in Readers, LoadSeq(c) PROVE TypeOK'
  <2>1. retries' \in [Readers -> 0 .. MaxRetries] /\ seq0' \in [Readers -> Nat]
    BY <1>9, DmaAssumption DEF LoadSeq, GivesUp
  <2>2. pc' \in [Readers -> Places]
    BY <1>9 DEF LoadSeq, Again, Goto, Places
  <2> QED
    BY <1>9, <2>1, <2>2 DEF LoadSeq, control, source
<1>10. ASSUME NEW c \in Readers, CopyHead(c) PROVE TypeOK'
  BY <1>10 DEF CopyHead, Goto, control, source, Places
<1>11. ASSUME NEW c \in Readers, CheckSeq(c) PROVE TypeOK'
  BY <1>11 DEF CheckSeq, Goto, control, source, Places
<1>12. ASSUME NEW c \in Readers, Show(c) PROVE TypeOK'
  BY <1>12 DEF Show, Again, Goto, control, source, locals, Places
<1>13. ASSUME NEW c \in Readers, Stop(c) PROVE TypeOK'
  BY <1>13 DEF Stop, control, source, locals
<1>14. ASSUME NEW c \in Readers, Detach(c) PROVE TypeOK'
  BY <1>14 DEF Detach, Goto, control, source, locals, Places
<1>15. CASE UNCHANGED vars
  BY <1>15 DEF vars, control, source, locals
<1> QED
  BY <1>1, <1>2, <1>3, <1>4, <1>5, <1>6, <1>7, <1>8, <1>9, <1>10, <1>11,
     <1>12, <1>13, <1>14, <1>15
     DEF Next, ProducerStep, ReaderStep, ReadStep

-----------------------------------------------------------------------------
(* The readers' steps leave the control block and the producer alone.      *)
LEMMA ReadersQuiet ==
  ASSUME NEW c \in Readers,
         Attach(c) \/ ReaderStep(c) \/ Stop(c) \/ Detach(c)
  PROVE  UNCHANGED <<control, source>>
  BY Zenon DEF Attach, ReaderStep, Wait, Take, ReadStep, LoadSeq, CopyHead,
     CheckSeq, Show, Stop, Detach

(* The producer's steps leave the readers alone.                           *)
LEMMA ProducerQuiet == ProducerStep => UNCHANGED <<pc, locals, stop>>
  BY DEF ProducerStep, Begin, Blit, Revert, WriteHead, Publish

LEMMA RingInit == Init => Counts /\ SeqMarksWriting /\ Contents
  BY DmaAssumption, AgeRange DEF Init, Counts, SeqMarksWriting, Contents, Slots,
     Held, Odd

LEMMA RingStep ==
  TypeOK /\ Counts /\ SeqMarksWriting /\ Contents /\ [Next]_vars
    => Counts' /\ SeqMarksWriting' /\ Contents'
<1> SUFFICES ASSUME TypeOK, Counts, SeqMarksWriting, Contents, [Next]_vars
             PROVE  Counts' /\ SeqMarksWriting' /\ Contents'
  OBVIOUS
<1> USE DmaAssumption DEF TypeOK, Frames
<1>1. CASE UNCHANGED <<control, source>>
  BY <1>1 DEF control, source, Counts, SeqMarksWriting, Contents
<1>2. CASE ProducerStep
  <2>1. Counts'
    BY <1>2 DEF Counts, ProducerStep, Begin, Blit, Revert, WriteHead, Publish
  <2>2. SeqMarksWriting'
    <3> USE DEF SeqMarksWriting, Odd
    <3>1. CASE Begin
      BY <3>1 DEF Begin
    <3>2. CASE Blit
      BY <3>2 DEF Blit
    <3>3. CASE Revert
      BY <3>3 DEF Revert
    <3>4. CASE WriteHead
      BY <3>4 DEF WriteHead
    <3>5. CASE Publish
      <4> SUFFICES ASSUME NEW i \in Slots PROVE ~Odd(seq'[i])
        BY <3>5 DEF Publish
      <4>1. CASE i = w_idx
        BY <3>5, <4>1 DEF Publish
      <4>2. CASE i # w_idx
        BY <3>5, <4>2 DEF Publish
      <4> QED
        BY <4>1, <4>2
    <3> QED
      BY <1>2, <3>1, <3>2, <3>3, <3>4, <3>5 DEF ProducerStep
  <2>3. Contents'
    <3>1. CASE Begin
      BY <3>1 DEF Begin, Contents
    <3>2. CASE Blit
      BY <3>2 DEF Blit, Contents
    <3>3. CASE Revert
      BY <3>3 DEF Revert, Contents, Counts
    <3>4. CASE WriteHead
      BY <3>4 DEF WriteHead, Contents
    <3>5. CASE Publish
      <4> SUFFICES ASSUME NEW i \in Slots
                   PROVE  /\ head'[i] = Held(w_idx', published', i)
                          /\ pix'[i] = Held(w_idx', published', i)
        BY <3>5 DEF Publish, Contents
      <4>0. w_idx \in Slots /\ published \in Nat
        OBVIOUS
      <4>1. Held(NextSlot(w_idx), published + 1, i) =
              IF i = w_idx THEN published + 1
              ELSE Held(w_idx, published, i)
        BY <4>0, HeldUp
      <4>2. Held(w_idx', published', i) =
              IF i = w_idx THEN published + 1
              ELSE Held(w_idx, published, i)
        BY <3>5, <4>1 DEF Publish
      <4>3. CASE i = w_idx
        BY <3>5, <4>2, <4>3 DEF Publish, Contents
      <4>4. CASE i # w_idx
        BY <3>5, <4>2, <4>4 DEF Publish, Contents
      <4> QED
        BY <4>3, <4>4
    <3> QED
      BY <1>2, <3>1, <3>2, <3>3, <3>4, <3>5 DEF ProducerStep
  <2> QED
    BY <2>1, <2>2, <2>3
<1> QED
  BY <1>1, <1>2, ReadersQuiet DEF Next, vars

-----------------------------------------------------------------------------
(* What a reader finds whose cursor is right behind the slot it chose: the *)
(* slot's frame is older than the next one, and while the reader is recent *)
(* the slot is not the producer's and has the frame that it chose.         *)
LEMMA Behind ==
  ASSUME TypeOK, Contents, NEW c \in Readers, Cursor(c),
         r_idx[c] = NextSlot(slot[c])
  PROVE  /\ Recent(c) =>
              /\ slot[c] # w_idx
              /\ head[slot[c]] = target[c] /\ pix[slot[c]] = target[c]
         /\ r_idx[c] # w_idx =>
              head[slot[c]] < Held(w_idx, published, r_idx[c])
         /\ head[slot[c]] <= published
<1> DEFINE a == Age(w_idx, slot[c])
           b == Age(w_idx, r_idx[c])
<1>1. /\ w_idx \in Slots /\ slot[c] \in Slots /\ r_idx[c] \in Slots
      /\ published \in Nat /\ target[c] \in Nat /\ RING_BUFFER_CNT \in Nat \ {0}
  BY DmaAssumption DEF TypeOK, Frames
<1>2. /\ a \in 1 .. RING_BUFFER_CNT /\ (a = RING_BUFFER_CNT <=> slot[c] = w_idx)
      /\ b \in 1 .. RING_BUFFER_CNT /\ (b = RING_BUFFER_CNT <=> r_idx[c] = w_idx)
      /\ a = IF r_idx[c] = w_idx THEN 1 ELSE b + 1
  BY <1>1, AgeRange
<1>3. ASSUME Recent(c)
      PROVE  /\ slot[c] # w_idx
             /\ head[slot[c]] = target[c] /\ pix[slot[c]] = target[c]
  <2>1. a = published - target[c] + 1 /\ a < RING_BUFFER_CNT
    BY <1>1, <1>2, <1>3 DEF Recent, Cursor, AgeAfter
  <2>2. Held(w_idx, published, slot[c]) = target[c]
    BY <2>1, <1>1 DEF Held, Cursor
  <2>3. slot[c] # w_idx
    BY <1>1, <1>2, <2>1
  <2> QED
    BY <1>1, <2>2, <2>3 DEF Contents
<1>4. head[slot[c]] \in {0, Held(w_idx, published, slot[c])}
  BY <1>1 DEF Contents
<1>5. Held(w_idx, published, slot[c]) <= published
  BY <1>1, <1>2 DEF Held
<1>6. ASSUME r_idx[c] # w_idx
      PROVE  head[slot[c]] < Held(w_idx, published, r_idx[c])
  <2>1. 0 < Held(w_idx, published, r_idx[c]) /\ b <= published
    BY <1>1, <1>2, <1>6 DEF Cursor, Held
  <2>2. Held(w_idx, published, slot[c]) < Held(w_idx, published, r_idx[c])
    BY <2>1, <1>1, <1>2, <1>6 DEF Held
  <2> QED
    BY <2>1, <2>2, <1>4
<1> QED
  BY <1>1, <1>3, <1>4, <1>5, <1>6

-----------------------------------------------------------------------------
LEMMA CursorInit == Init => Cursors /\ Reads
  BY DEF Init, Cursors, Reads

(* A publication makes the producer's cursor go on.                        *)
LEMMA CursorPublish ==
  TypeOK /\ Counts /\ Contents /\ Cursors /\ Reads /\ Publish
    => Cursors' /\ Reads'
<1> SUFFICES ASSUME TypeOK, Counts, Contents, Cursors, Reads, Publish
             PROVE  Cursors' /\ Reads'
  OBVIOUS
<1>1. ASSUME NEW c \in Readers, pc[c] # "off" PROVE Cursor(c)'
  <2>1. /\ w_idx \in Slots /\ r_idx[c] \in Slots /\ published \in Nat
        /\ target[c] \in Nat /\ out_head[c] \in Nat
        /\ RING_BUFFER_CNT \in Nat \ {0}
    BY DmaAssumption DEF TypeOK, Frames
  <2>2. /\ w_idx' = NextSlot(w_idx) /\ published' = published + 1
        /\ UNCHANGED <<r_idx, target, out_head>>
    BY DEF Publish, locals
  <2>3. Cursor(c)
    BY <1>1 DEF Cursors
  <2>4. /\ Age(w_idx, r_idx[c]) \in 1 .. RING_BUFFER_CNT
        /\ Age(w_idx, r_idx[c]) = RING_BUFFER_CNT <=> r_idx[c] = w_idx
    BY <2>1, AgeRange
  <2>5. Age(NextSlot(w_idx), r_idx[c]) =
          IF r_idx[c] = w_idx THEN 1 ELSE Age(w_idx, r_idx[c]) + 1
    BY <2>1, AgeUp
  <2>6. Held(NextSlot(w_idx), published + 1, r_idx[c]) =
          IF r_idx[c] = w_idx THEN published + 1
          ELSE Held(w_idx, published, r_idx[c])
    BY <2>1, HeldUp
  <2>7. published + 1 - target[c] <= RING_BUFFER_CNT =>
          Age(NextSlot(w_idx), r_idx[c]) = AgeAfter(published + 1, target[c])
    BY <2>1, <2>3, <2>4, <2>5 DEF Cursor, AgeAfter
  <2>8. /\ target[c] <= published + 1 /\ out_head[c] <= published + 1
        /\ r_idx[c] # NextSlot(w_idx) =>
             /\ target[c] < Held(NextSlot(w_idx), published + 1, r_idx[c])
             /\ out_head[c] < Held(NextSlot(w_idx), published + 1, r_idx[c])
    BY <2>1, <2>3, <2>6 DEF Cursor
  <2> QED
    BY <2>1, <2>2, <2>7, <2>8 DEF Cursor
<1>2. pc' = pc
  BY DEF Publish
<1>3. Reads'
  <2>1. ASSUME NEW c \in Readers, Recent(c)' PROVE Recent(c)
    BY <2>1, DmaAssumption DEF Recent, Publish, locals, TypeOK, Frames
  <2> QED
    BY <1>2, <2>1 DEF Reads, Publish, locals
<1> QED
  BY <1>1, <1>2, <1>3 DEF Cursors

(* A reader takes the next frame, or, if it was overtaken, a newer one.    *)
LEMMA Chosen ==
  ASSUME TypeOK, Contents, NEW c \in Readers, Cursor(c), Take(c)
  PROVE  /\ target'[c] > target[c] /\ target'[c] > out_head[c]
         /\ published <= target[c] + RING_BUFFER_CNT =>
              target'[c] = target[c] + 1
         /\ Cursor(c)'
<1> DEFINE a == Age(w_idx, r_idx[c])
           r == NextSlot(r_idx[c])
           t == published + 1 - a
<1>1. /\ w_idx \in Slots /\ r_idx[c] \in Slots /\ published \in Nat
      /\ target[c] \in Nat /\ out_head[c] \in Nat
      /\ RING_BUFFER_CNT \in Nat \ {0} /\ r_idx[c] # w_idx
  BY DmaAssumption DEF TypeOK, Frames, Take
<1>2. /\ w_idx' = w_idx /\ published' = published
      /\ r_idx'[c] = r /\ out_head'[c] = out_head[c]
      /\ target'[c] = head[r_idx[c]]
  BY DEF Take, control, source, TypeOK
<1>3. /\ a \in 1 .. RING_BUFFER_CNT - 1 /\ r \in Slots
      /\ a = IF r = w_idx THEN 1 ELSE Age(w_idx, r) + 1
  BY <1>1, AgeRange
<1>4. Age(w_idx, r) \in 1 .. RING_BUFFER_CNT
      /\ (Age(w_idx, r) = RING_BUFFER_CNT <=> r = w_idx)
  BY <1>1, <1>3, AgeRange
<1>5. head[r_idx[c]] = Held(w_idx, published, r_idx[c])
  BY <1>1 DEF Contents
<1>6. target[c] < t /\ out_head[c] < t /\ t <= published /\ target'[c] = t
  BY <1>1, <1>2, <1>3, <1>5 DEF Cursor, Held
<1>7. published <= target[c] + RING_BUFFER_CNT => t = target[c] + 1
  BY <1>1, <1>3, <1>6 DEF Cursor, AgeAfter
<1>8. Age(w_idx, r) = AgeAfter(published, t)
  BY <1>1, <1>3, <1>4 DEF AgeAfter
<1>9. r # w_idx => Held(w_idx, published, r) = t + 1
  BY <1>1, <1>3, <1>4, <1>6 DEF Held
<1>10. Cursor(c)'
  BY <1>1, <1>2, <1>3, <1>6, <1>8, <1>9 DEF Cursor
<1> QED
  BY <1>1, <1>3, <1>6, <1>7, <1>10

LEMMA CursorRead ==
  ASSUME TypeOK, SeqMarksWriting, Contents, Cursors, Reads, NEW c \in Readers,
         Attach(c) \/ ReaderStep(c) \/ Stop(c) \/ Detach(c)
  PROVE  Cursors' /\ Reads'
<1>1. UNCHANGED <<mtx, w_idx, seq, head, pix, producer, published, begins>>
  BY ReadersQuiet DEF control, source
<1>2. ASSUME NEW d \in Readers, d # c
      PROVE  /\ pc'[d] = pc[d] /\ r_idx'[d] = r_idx[d] /\ slot'[d] = slot[d]
             /\ out_head'[d] = out_head[d] /\ target'[d] = target[d]
  BY <1>2 DEF TypeOK, Attach, ReaderStep, Wait, Take, ReadStep, LoadSeq, CopyHead,
     CheckSeq, Show, Stop, Detach, Goto, locals
<1>3. SUFFICES
        /\ pc'[c] # "off" => Cursor(c)'
        /\ pc'[c] \in {"load", "copy", "check", "use"} =>
             r_idx'[c] = NextSlot(slot'[c])
        /\ pc'[c] \in {"check", "use"} /\ Recent(c)' => out_head'[c] = target'[c]
  <2>1. ASSUME NEW d \in Readers, d # c, Cursor(d) PROVE Cursor(d)'
    BY <1>1, <1>2, <2>1 DEF Cursor
  <2>2. ASSUME NEW d \in Readers, d # c, Recent(d)' PROVE Recent(d)
    BY <1>1, <1>2, <2>2 DEF Recent
  <2> QED
    BY <1>2, <1>3, <2>1, <2>2 DEF Cursors, Reads
<1>4. CASE Attach(c)
  <2>1. /\ r_idx'[c] = w_idx /\ target'[c] = published /\ out_head'[c] = 0
        /\ pc'[c] = "ready"
    BY <1>4 DEF Attach, Goto, TypeOK
  <2>2. Age(w_idx, w_idx) = RING_BUFFER_CNT /\ published \in Nat
    BY AgeRange, DmaAssumption DEF TypeOK, Frames
  <2> QED
    BY <1>1, <2>1, <2>2 DEF Cursor, AgeAfter
<1>5. CASE Take(c)
  <2>1. Cursor(c)
    BY <1>5 DEF Take, Cursors
  <2>2. Cursor(c)'
    BY <1>5, <2>1, Chosen
  <2>3. pc'[c] = "load" /\ slot'[c] = r_idx[c] /\ r_idx'[c] = NextSlot(r_idx[c])
    BY <1>5 DEF Take, Goto, TypeOK
  <2> QED
    BY <2>2, <2>3
<1>6. CASE Wait(c) \/ Show(c) \/ Stop(c) \/ Detach(c)
  <2>1. UNCHANGED locals /\ pc'[c] \in {"off", "done", "ready", pc[c]}
        /\ (pc'[c] # "off" => pc[c] # "off")
    BY <1>6 DEF Wait, Show, Again, Stop, Detach, Goto, TypeOK
  <2>2. Cursor(c) => Cursor(c)'
    BY <1>1, <2>1 DEF locals, Cursor
  <2>3. Recent(c)' => Recent(c)
    BY <1>1, <2>1 DEF locals, Recent
  <2> QED
    BY <2>1, <2>2, <2>3 DEF locals, Cursors, Reads
<1>7. CASE ReadStep(c)
  <2>1. Cursor(c) /\ r_idx[c] = NextSlot(slot[c])
    BY <1>7 DEF ReadStep, LoadSeq, CopyHead, CheckSeq, Cursors, Reads
  <2>2. UNCHANGED <<r_idx, slot, target>>
    BY <1>7 DEF ReadStep, LoadSeq, CopyHead, CheckSeq
  <2>3. Recent(c)' => Recent(c)
    BY <1>1, <2>2 DEF Recent
  <2>4. CASE LoadSeq(c)
    <3>1. Cursor(c)'
      BY <1>1, <2>1, <2>4 DEF LoadSeq, Cursor
    <3>2. pc'[c] = "use" => Odd(seq[slot[c]])
      BY <2>4 DEF LoadSeq, Again, Goto, TypeOK
    <3>3. Recent(c) => ~Odd(seq[slot[c]])
      BY <2>1, Behind DEF SeqMarksWriting, TypeOK
    <3>4. pc'[c] # "check"
      BY <2>4 DEF LoadSeq, Again, Goto, TypeOK
    <3> QED
      BY <2>1, <2>2, <2>3, <3>1, <3>2, <3>3, <3>4
  <2>5. CASE CopyHead(c)
    <3>1. out_head'[c] = head[slot[c]]
      BY <2>5 DEF CopyHead, TypeOK
    <3>2. Cursor(c)'
      BY <1>1, <2>1, <2>2, <3>1, Behind DEF Cursor
    <3>3. Recent(c) => out_head'[c] = target[c]
      BY <2>1, <3>1, Behind
    <3> QED
      BY <2>1, <2>2, <2>3, <3>2, <3>3
  <2>6. CASE CheckSeq(c)
    <3>1. out_head' = out_head /\ pc[c] = "check"
      BY <2>6 DEF CheckSeq
    <3>2. Cursor(c)'
      BY <1>1, <2>1, <2>2, <3>1 DEF Cursor
    <3> QED
      BY <2>1, <2>2, <2>3, <3>1, <3>2 DEF Reads
  <2> QED
    BY <1>7, <2>4, <2>5, <2>6 DEF ReadStep
<1> QED
  BY <1>4, <1>5, <1>6, <1>7 DEF ReaderStep

LEMMA CursorStep == IInv /\ [Next]_vars => Cursors' /\ Reads'
<1> SUFFICES ASSUME IInv, [Next]_vars PROVE Cursors' /\ Reads'
  OBVIOUS
<1>1. CASE Begin \/ Blit \/ Revert \/ WriteHead \/ UNCHANGED vars
  <2>1. UNCHANGED <<w_idx, published, pc, locals>>
    BY <1>1 DEF Begin, Blit, Revert, WriteHead, vars, control, source
  <2> QED
    BY <2>1 DEF IInv, Cursors, Cursor, Reads, Recent, locals
<1>2. CASE Publish
  BY <1>2, CursorPublish DEF IInv
<1>3. ASSUME NEW c \in Readers,
             Attach(c) \/ ReaderStep(c) \/ Stop(c) \/ Detach(c)
      PROVE  Cursors' /\ Reads'
  BY <1>3, CursorRead DEF IInv
<1> QED
  BY <1>1, <1>2, <1>3 DEF Next, ProducerStep

LEMMA Invariant == Spec => []IInv
<1>1. Init => IInv
  BY TypeInit, RingInit, CursorInit DEF IInv
<1>2. IInv /\ [Next]_vars => IInv'
  BY TypeStep, RingStep, CursorStep DEF IInv
<1> QED
  BY <1>1, <1>2, PTL DEF Spec

-----------------------------------------------------------------------------
\* Every variable keeps its type: no index leaves the ring, no sequence
\* number falls below zero.
THEOREM Types == Spec => []TypeOK
<1>1. IInv => TypeOK
  BY DEF IInv
<1> QED
  BY <1>1, Invariant, PTL

\* A slot is marked exactly while the producer writes it.
THEOREM Marks == Spec => []SeqMarksWriting
<1>1. IInv => SeqMarksWriting
  BY DEF IInv
<1> QED
  BY <1>1, Invariant, PTL

\* A reader less than a whole ring behind has a whole frame until it is done.
THEOREM RecentWhole == Spec => []RecentIsWhole
<1>1. IInv => RecentIsWhole
  <2> SUFFICES ASSUME IInv, NEW c \in Readers, pc[c] = "use",
                      published < target[c] + RING_BUFFER_CNT - 1
               PROVE  out_head[c] = target[c] /\ pix[slot[c]] = target[c]
    BY DEF RecentIsWhole
  <2>1. Cursor(c) /\ r_idx[c] = NextSlot(slot[c]) /\ out_head[c] = target[c]
    BY DEF IInv, Cursors, Reads, Recent
  <2> QED
    BY <2>1, Behind DEF IInv, Recent
<1> QED
  BY <1>1, Invariant, PTL

\* No reader goes back, and a frame is missed only by one that is a whole
\* ring behind.
THEOREM InTurn == Spec => FramesInTurn
<1>1. IInv /\ [Next]_vars =>
        [\A c \in Readers : Chooses(c) =>
           /\ target'[c] > target[c] /\ target'[c] > out_head[c]
           /\ published <= target[c] + RING_BUFFER_CNT =>
                target'[c] = target[c] + 1]_vars
  <2> SUFFICES ASSUME IInv, Next, NEW c \in Readers, Chooses(c)
               PROVE  /\ target'[c] > target[c] /\ target'[c] > out_head[c]
                      /\ published <= target[c] + RING_BUFFER_CNT =>
                           target'[c] = target[c] + 1
    OBVIOUS
  <2>1. Cursor(c)
    BY DEF IInv, Cursors, Chooses
  <2>2. Take(c)
    <3>1. ~ProducerStep
      BY ProducerQuiet DEF Chooses
    <3>2. ASSUME NEW d \in Readers, d # c,
                 Attach(d) \/ ReaderStep(d) \/ Stop(d) \/ Detach(d)
          PROVE  pc'[c] = pc[c]
      BY <3>2 DEF IInv, TypeOK, Attach, ReaderStep, Wait, Take, ReadStep, LoadSeq,
         CopyHead, CheckSeq, Show, Stop, Detach, Goto
    <3>3. ASSUME Attach(c) \/ Wait(c) \/ ReadStep(c) \/ Show(c) \/ Stop(c)
                 \/ Detach(c)
          PROVE  FALSE
      BY <3>3 DEF IInv, TypeOK, Chooses, Attach, Wait, ReadStep, LoadSeq,
         CopyHead, CheckSeq, Show, Again, Stop, Detach, Goto
    <3> QED
      BY <3>1, <3>2, <3>3 DEF Next, ReaderStep, Chooses
  <2> QED
    BY <2>1, <2>2, Chosen DEF IInv
<1> QED
  BY <1>1, Invariant, PTL DEF Spec, FramesInTurn
=============================================================================
