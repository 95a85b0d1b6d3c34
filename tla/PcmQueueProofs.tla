---------------------------- MODULE PcmQueueProofs ----------------------------
(***************************************************************************)
(* The lock-free queue for every capacity, channel count, clock and batch: *)
(* a frame is never torn, and the ring implements the queue of numbered    *)
(* frames of FrameQueue.                                                   *)
(*                                                                         *)
(* Positions on the ring are compared by their distance from a cursor in   *)
(* the direction of writing, so that no step below the first lemmas        *)
(* reasons about the modulus.                                              *)
(***************************************************************************)
EXTENDS PcmQueue, SequenceTheorems, TLAPS

\* How far slot b lies ahead of slot a.
Dist(a, b) == (b + Slots - a) % Slots

Writing == ppc \in {"sample", "position", "publish"}
Copying == cpc \in {"frame", "sample", "advance", "store"}

\* Frames written into the ring by the push that is running.
Filled == IF Writing THEN pDone ELSE 0

\* The cursors and the threads' places.
Places ==
  /\ head \in Ring /\ tail \in Ring /\ pAt \in Ring /\ cAt \in Ring /\ cHead \in Ring
  /\ closed \in BOOLEAN
  /\ ppc \in {"idle", "load", "sample", "position", "publish"}
  /\ cpc \in {"idle", "load_head", "load_flush", "skip", "frame", "sample", "advance", "store",
              "flush"}

\* The numbers: no clock passes MaxFrame and no count its batch.
Numbers ==
  /\ nextFrame \in Frames /\ flushBefore \in Frames /\ cFlush \in Frames /\ flushOwed \in Frames
  /\ expected \in Frames /\ first \in Frames /\ expectedBefore \in Frames
  /\ pWant \in Batches /\ pDone \in Batches /\ cWant \in Batches /\ got \in Batches
  /\ gap \in BOOLEAN
  /\ pChannel \in 1 .. Channels /\ cChannel \in 1 .. Channels
  /\ Writing => nextFrame + pWant <= MaxFrame
  /\ (Copying \/ cpc = "skip") => got + cWant <= MaxBatch
  /\ cpc \in {"sample", "advance"} => cWant > 0

\* What the slots hold.
Contents ==
  /\ pos \in [Ring -> Frames]
  /\ sample \in [Ring -> [1 .. Channels -> Frames]]
  /\ frame \in [1 .. Channels -> Frames]

\* The order of the cursors around the ring: tail, the read, head, the push, tail.
Order ==
  /\ Writing => /\ Dist(head, pAt) = pDone /\ pDone <= pWant
                /\ Dist(tail, head) + pWant <= Capacity
  /\ ppc \in {"sample", "position"} => pDone < pWant
  /\ ppc = "publish" => pDone = pWant
  /\ Reading => /\ Dist(tail, cAt) <= Dist(tail, cHead)
                /\ Dist(tail, cHead) <= Dist(tail, head)
  /\ cpc = "flush" => Dist(tail, cHead) <= Dist(tail, head)
  /\ cpc \in {"sample", "advance"} => Dist(tail, cAt) < Dist(tail, cHead)

\* Slots between tail and the push are whole, and numbered in the order of the clock.
Whole ==
  \A s \in Ring : Dist(tail, s) < Dist(tail, head) + Filled =>
    \A c \in 1 .. Channels : sample[s][c] = pos[s]

Dated == \A s \in Ring : Dist(tail, s) < Dist(tail, head) => pos[s] < nextFrame

Numbered == Writing => \A s \in Ring : Dist(head, s) < pDone => pos[s] = nextFrame + Dist(head, s)

\* The frame being written, and the frame being read, so far.
Pushing ==
  /\ ppc # "sample" => pChannel = 1
  /\ ppc = "sample" => \A c \in 1 .. pChannel - 1 : sample[pAt][c] = nextFrame + pDone
  /\ ppc = "position" => \A c \in 1 .. Channels : sample[pAt][c] = nextFrame + pDone

Framing ==
  /\ cpc # "sample" => cChannel = 1
  /\ cpc = "sample" => \A c \in 1 .. cChannel - 1 : frame[c] = pos[cAt]
  /\ cpc = "advance" => \A c \in 1 .. Channels : frame[c] = pos[cAt]

Written == Whole /\ Dated /\ Numbered /\ Pushing /\ Framing

\* What the running read has skipped and taken.
Marks ==
  /\ flushBefore <= nextFrame
  /\ Busy => flushOwed <= flushBefore
  /\ (Copying \/ cpc = "skip") => flushOwed <= cFlush /\ cFlush <= flushBefore
  /\ cpc \in {"load_head", "load_flush", "skip"} => expected = expectedBefore
  /\ cpc = "skip" => got = 0

Skipped ==
  /\ cpc = "load_flush" => cAt = tail
  /\ (Copying \/ cpc = "skip") =>
       /\ got <= Dist(tail, cAt)
       /\ \A s \in Ring : Dist(tail, s) < Dist(tail, cAt) - got => pos[s] < cFlush

Taken ==
  /\ Copying =>
       \A s \in Ring :
         Dist(tail, s) < Dist(tail, cAt) /\ Dist(tail, s) >= Dist(tail, cAt) - got =>
           pos[s] = first + Dist(tail, s) - (Dist(tail, cAt) - got)
  /\ Copying /\ got # 0 => expected = first + got

\* What the running read will return.
Returned ==
  /\ got = 0 /\ cpc \in {"skip", "frame", "store"} => first = expected /\ gap = FALSE
  /\ got = 0 /\ Copying => expected = expectedBefore
  /\ got = 0 /\ cpc = "frame" /\ cAt # cHead => pos[cAt] >= cFlush
  /\ got = 0 /\ cpc \in {"sample", "advance"} => first = pos[cAt]
  /\ got # 0 /\ cpc \in {"sample", "advance"} => pos[cAt] = expected
  /\ cpc \in {"sample", "advance"} \/ (Copying /\ got # 0) =>
       first >= cFlush /\ gap = (first # expectedBefore)
  /\ ~ Busy /\ got = 0 => gap = FALSE

IInv ==
  Places /\ Numbers /\ Contents /\ Order /\ Written /\ Marks /\ Skipped /\ Taken /\ Returned

USE DEF sharedVars, prodVars, consVars, histVars

-----------------------------------------------------------------------------
(* Distances around the ring.                                              *)

\* What QueueAssumption says of the constants, without its ceiling.
LEMMA Bounds ==
  /\ Capacity \in Nat \ {0} /\ Channels \in Nat \ {0} /\ MaxFrame \in Nat /\ MaxBatch \in Nat
  BY QueueAssumption

\* The ring has one slot more than the queue holds frames.
LEMMA SlotsNat == Slots \in Nat \ {0} /\ Capacity \in Nat /\ Slots = Capacity + 1 /\ Ring = 0 .. Slots - 1
  BY Bounds DEF Slots, Ring

\* The remainder of what is at most once around.
LEMMA Mod ==
  ASSUME NEW n \in Nat \ {0}, NEW x \in Int, 0 <= x, x < 2 * n
  PROVE  x % n = IF x >= n THEN x - n ELSE x
  OBVIOUS

\* The remainder in a distance, by which side of a the slot b lies on.
LEMMA DistMod ==
  ASSUME NEW n \in Nat \ {0}, NEW a \in 0 .. n - 1, NEW b \in 0 .. n - 1
  PROVE  (b + n - a) % n = IF b >= a THEN b - a ELSE b + n - a
<1> DEFINE x == b + n - a
<1>1. x \in Int /\ 0 <= x /\ x < 2 * n /\ (b >= a <=> x >= n)
  OBVIOUS
<1> HIDE DEF x
<1>2. x % n = IF x >= n THEN x - n ELSE x
  BY <1>1, Mod, Zenon
<1>3. QED
  BY <1>1, <1>2 DEF x

\* The remainder in a step of at most once around.
LEMMA PlusMod ==
  ASSUME NEW n \in Nat \ {0}, NEW a \in 0 .. n - 1, NEW k \in 0 .. n
  PROVE  (a + k) % n = IF a + k >= n THEN a + k - n ELSE a + k
<1> DEFINE x == a + k
<1>1. x \in Int /\ 0 <= x /\ x < 2 * n
  OBVIOUS
<1> HIDE DEF x
<1>2. x % n = IF x >= n THEN x - n ELSE x
  BY <1>1, Mod, Zenon
<1>3. QED
  BY <1>2 DEF x

\* A distance without its modulus.
LEMMA DistIs ==
  ASSUME NEW a \in Ring, NEW b \in Ring
  PROVE  Dist(a, b) = IF b >= a THEN b - a ELSE b + Slots - a
  BY DistMod, SlotsNat DEF Dist

\* The next slot without its modulus.
LEMMA AfterIs ==
  ASSUME NEW a \in Ring
  PROVE  After(a) = IF a = Capacity THEN 0 ELSE a + 1
<1>1. a \in 0 .. Slots - 1 /\ 1 \in 0 .. Slots
  BY SlotsNat
<1>2. (a + 1) % Slots = IF a + 1 >= Slots THEN a + 1 - Slots ELSE a + 1
  BY <1>1, SlotsNat, PlusMod
<1>3. QED
  BY <1>1, <1>2, SlotsNat DEF After

\* A distance is less than the ring is long, and zero only from a slot to itself.
LEMMA DistType ==
  ASSUME NEW a \in Ring, NEW b \in Ring
  PROVE  Dist(a, b) \in 0 .. Capacity /\ (Dist(a, b) = 0 <=> a = b)
  BY DistIs, Bounds DEF Slots, Ring

\* Distances from one slot tell the others apart.
LEMMA DistSame ==
  ASSUME NEW a \in Ring, NEW b \in Ring, NEW c \in Ring
  PROVE  Dist(a, b) = Dist(a, c) <=> b = c
  BY DistIs, Bounds DEF Slots, Ring

\* Distances add up as long as they stay within the ring.
LEMMA DistSum ==
  ASSUME NEW a \in Ring, NEW b \in Ring, NEW c \in Ring, Dist(a, b) + Dist(b, c) <= Capacity
  PROVE  Dist(a, c) = Dist(a, b) + Dist(b, c)
<1>1. /\ Dist(a, b) = IF b >= a THEN b - a ELSE b + Slots - a
      /\ Dist(b, c) = IF c >= b THEN c - b ELSE c + Slots - b
      /\ Dist(a, c) = IF c >= a THEN c - a ELSE c + Slots - a
  BY DistIs
<1>2. QED
  BY <1>1, Bounds DEF Slots, Ring

\* The distance between two slots, from their distances to a third.
LEMMA DistRest ==
  ASSUME NEW a \in Ring, NEW b \in Ring, NEW c \in Ring
  PROVE  Dist(b, c) = IF Dist(a, b) <= Dist(a, c) THEN Dist(a, c) - Dist(a, b)
                      ELSE Dist(a, c) + Slots - Dist(a, b)
  BY DistIs, Bounds DEF Slots, Ring

\* The next slot.
LEMMA DistAfter ==
  ASSUME NEW a \in Ring, NEW b \in Ring
  PROVE  /\ After(b) \in Ring
         /\ Dist(a, b) < Capacity => Dist(a, After(b)) = Dist(a, b) + 1
<1>1. After(b) = IF b = Capacity THEN 0 ELSE b + 1
  BY AfterIs
<1>2. After(b) \in Ring
  BY <1>1, Bounds DEF Slots, Ring
<1>3. /\ Dist(a, b) = IF b >= a THEN b - a ELSE b + Slots - a
      /\ Dist(a, After(b)) = IF After(b) >= a THEN After(b) - a ELSE After(b) + Slots - a
  BY <1>2, DistIs
<1>4. QED
  BY <1>1, <1>2, <1>3, Bounds DEF Slots, Ring

\* What fits is what is left of the ring, one slot staying empty.
LEMMA RoomIs ==
  ASSUME Places
  PROVE  Available \in Nat /\ Available = Capacity - Dist(tail, head)
<1>1. /\ tail \in 0 .. Slots - 1 /\ head \in 0 .. Slots - 1
      /\ Slots \in Nat \ {0} /\ Slots = Capacity + 1
  BY SlotsNat DEF Places
<1> DEFINE x == tail + Slots - head - 1
<1>2. x \in Int /\ 0 <= x /\ x < 2 * Slots
  BY <1>1
<1> HIDE DEF x
<1>3. x % Slots = IF x >= Slots THEN x - Slots ELSE x
  BY <1>1, <1>2, Mod, Zenon
<1>4. Dist(tail, head) = IF head >= tail THEN head - tail ELSE head + Slots - tail
  BY DistIs DEF Places
<1>5. Available = IF x >= Slots THEN x - Slots ELSE x
  BY <1>3 DEF Available, x
<1>6. CASE head >= tail
  BY <1>1, <1>4, <1>5, <1>6, Bounds DEF x
<1>7. CASE head < tail
  BY <1>1, <1>4, <1>5, <1>7, Bounds DEF x
<1>8. QED
  BY <1>1, <1>6, <1>7

-----------------------------------------------------------------------------
(* Types.                                                                  *)

\* Every step keeps the cursors on the ring.
LEMMA PlacesStep ==
  ASSUME Places, [Next]_vars
  PROVE  Places'
<1>1. ASSUME NEW n \in Batches, PushCheck(n)
     PROVE  Places'
  BY <1>1, DistAfter DEF PushCheck, Places
<1>2. CASE PushLoad
  BY <1>2, DistAfter DEF PushLoad, Places
<1>3. CASE PushSample
  BY <1>3, DistAfter DEF PushSample, Places
<1>4. CASE PushPosition
  BY <1>4, DistAfter DEF PushPosition, Places
<1>5. CASE PushPublish \/ ProducerFlush \/ ProducerClose
  BY <1>5, DistAfter DEF PushPublish, ProducerFlush, ProducerClose, Places
<1>6. ASSUME NEW k \in Batches, Discard(k)
     PROVE  Places'
  BY <1>6, DistAfter DEF Discard, Places
<1>7. ASSUME NEW n \in Batches, ReadCheck(n)
     PROVE  Places'
  BY <1>7, DistAfter DEF ReadCheck, Places
<1>8. CASE ReadLoadHead \/ ReadLoadFlush
  BY <1>8, DistAfter DEF ReadLoadHead, ReadLoadFlush, Places
<1>9. CASE ReadSkip \/ ReadSkipped
  BY <1>9, DistAfter DEF ReadSkip, ReadSkipped, Places
<1>10. CASE ReadFrame
  BY <1>10, DistAfter DEF ReadFrame, Places
<1>11. CASE ReadSample
  BY <1>11, DistAfter DEF ReadSample, Places
<1>12. CASE ReadAdvance
  BY <1>12, DistAfter DEF ReadAdvance, Places
<1>13. CASE ReadStore \/ FlushLoad \/ FlushStore \/ ConsumerClose
  BY <1>13, DistAfter DEF ReadStore, FlushLoad, FlushStore, ConsumerClose, Places
<1>14. CASE UNCHANGED vars
  BY <1>14 DEF vars, Places
<1>15. QED
  BY <1>1, <1>2, <1>3, <1>4, <1>5, <1>6, <1>7, <1>8, <1>9, <1>10, <1>11, <1>12, <1>13, <1>14 DEF Next, Producer, Consumer

\* Every step writes frame numbers.
LEMMA ContentsStep ==
  ASSUME Places, Numbers, Contents, Order, [Next]_vars
  PROVE  Contents'
<1>1. ASSUME NEW n \in Batches, PushCheck(n)
     PROVE  Contents'
  BY <1>1 DEF PushCheck, Contents
<1>2. CASE PushLoad
  BY <1>2 DEF PushLoad, Contents
<1>3. CASE PushSample
  <2>1. nextFrame + pDone \in Frames
    BY <1>3, Bounds DEF PushSample, Numbers, Order, Writing, Frames, Batches
  <2>2. sample' = [sample EXCEPT ![pAt][pChannel] = nextFrame + pDone]
    BY <1>3 DEF PushSample
  <2>3. sample' \in [Ring -> [1 .. Channels -> Frames]]
    BY <2>1, <2>2 DEF Places, Contents
  <2>4. QED
    BY <1>3, <2>3 DEF PushSample, Contents
<1>4. CASE PushPosition
  <2>1. nextFrame + pDone \in Frames
    BY <1>4, Bounds DEF PushPosition, Numbers, Order, Writing, Frames, Batches
  <2>2. QED
    BY <1>4, <2>1 DEF PushPosition, Places, Contents
<1>5. CASE PushPublish \/ ProducerFlush \/ ProducerClose
  BY <1>5 DEF PushPublish, ProducerFlush, ProducerClose, Contents
<1>6. ASSUME NEW k \in Batches, Discard(k)
     PROVE  Contents'
  BY <1>6 DEF Discard, Contents
<1>7. ASSUME NEW n \in Batches, ReadCheck(n)
     PROVE  Contents'
  BY <1>7 DEF ReadCheck, Contents
<1>8. CASE ReadLoadHead \/ ReadLoadFlush
  BY <1>8 DEF ReadLoadHead, ReadLoadFlush, Contents
<1>9. CASE ReadSkip \/ ReadSkipped
  BY <1>9 DEF ReadSkip, ReadSkipped, Contents
<1>10. CASE ReadFrame
  BY <1>10 DEF ReadFrame, Contents
<1>11. CASE ReadSample
  <2>1. sample[cAt][cChannel] \in Frames
    BY DEF Places, Numbers, Contents
  <2>2. QED
    BY <1>11, <2>1 DEF ReadSample, Contents
<1>12. CASE ReadAdvance
  BY <1>12 DEF ReadAdvance, Contents
<1>13. CASE ReadStore \/ FlushLoad \/ FlushStore \/ ConsumerClose
  BY <1>13 DEF ReadStore, FlushLoad, FlushStore, ConsumerClose, Contents
<1>14. CASE UNCHANGED vars
  BY <1>14 DEF vars, Contents
<1>15. QED
  BY <1>1, <1>2, <1>3, <1>4, <1>5, <1>6, <1>7, <1>8, <1>9, <1>10, <1>11, <1>12, <1>13, <1>14 DEF Next, Producer, Consumer

\* Every step keeps the clocks and counts within their bounds.
LEMMA NumbersStep ==
  ASSUME Places, Numbers, Contents, Order, Written, [Next]_vars
  PROVE  Numbers'
<1>1. ASSUME NEW n \in Batches, PushCheck(n)
     PROVE  Numbers'
  BY <1>1, Bounds DEF PushCheck, Numbers, Writing, Copying, Frames, Batches
<1>2. CASE PushLoad
  <2>1. Accepted \in Batches /\ Accepted <= pWant
    <3>1. Available \in Nat
      BY RoomIs
    <3>2. QED
      BY <3>1, Bounds DEF Accepted, Numbers, Batches
  <2>2. QED
    BY <1>2, <2>1, Bounds DEF PushLoad, Numbers, Writing, Copying, Frames, Batches
<1>3. CASE PushSample
  BY <1>3, Bounds DEF PushSample, Numbers, Writing, Copying, Frames, Batches
<1>4. CASE PushPosition
  <2>1. pDone + 1 \in Batches
    BY <1>4, Bounds DEF PushPosition, Numbers, Order, Batches
  <2>2. QED
    BY <1>4, <2>1 DEF PushPosition, Numbers, Writing, Copying, Frames, Batches
<1>5. CASE PushPublish
  BY <1>5, Bounds DEF PushPublish, Numbers, Writing, Copying, Frames, Batches
<1>6. ASSUME NEW k \in Batches, Discard(k)
     PROVE  Numbers'
  BY <1>6, Bounds DEF Discard, Numbers, Writing, Copying, Frames, Batches
<1>7. CASE ProducerFlush
  BY <1>7, Bounds DEF ProducerFlush, Numbers, Writing, Copying, Frames, Batches
<1>8. CASE ProducerClose
  BY <1>8, Bounds DEF ProducerClose, Numbers, Writing, Copying, Frames, Batches
<1>9. ASSUME NEW n \in Batches, ReadCheck(n)
     PROVE  Numbers'
  BY <1>9, Bounds DEF ReadCheck, Numbers, Writing, Copying, Frames, Batches
<1>10. CASE ReadLoadHead
  BY <1>10, Bounds DEF ReadLoadHead, Numbers, Writing, Copying, Frames, Batches
<1>11. CASE ReadLoadFlush
  <2>1. 0 \in Batches /\ cWant \in 0 .. MaxBatch /\ 0 + cWant <= MaxBatch
    BY Bounds DEF Numbers, Batches
  <2>2. QED
    BY <1>11, <2>1 DEF ReadLoadFlush, Numbers, Writing, Copying
<1>12. CASE ReadSkip
  BY <1>12, Bounds DEF ReadSkip, Numbers, Writing, Copying, Frames, Batches
<1>13. CASE ReadSkipped
  BY <1>13, Bounds DEF ReadSkipped, Numbers, Writing, Copying, Frames, Batches
<1>14. CASE ReadFrame
  <2>1. pos[cAt] \in Frames
    BY DEF Places, Contents
  <2>2. first' \in Frames
    BY <1>14, <2>1 DEF ReadFrame, Numbers
  <2>3. gap' \in BOOLEAN
    BY <1>14 DEF ReadFrame, Numbers
  <2>4. cpc' = "sample" => cWant > 0
    BY <1>14, Bounds DEF ReadFrame, Numbers, Batches
  <2>5. QED
    BY <1>14, <2>2, <2>3, <2>4 DEF ReadFrame, Numbers, Writing, Copying
<1>15. CASE ReadSample
  BY <1>15, Bounds DEF ReadSample, Numbers, Writing, Copying, Frames, Batches
<1>16. CASE ReadAdvance
  <2>1. pos[cAt] < nextFrame /\ pos[cAt] \in Frames
    <3>1. Dist(tail, cAt) < Dist(tail, head)
      BY <1>16, Bounds, DistType DEF ReadAdvance, Places, Order, Reading
    <3>2. QED
      BY <3>1 DEF Written, Dated, Places, Contents
  <2>2. pos[cAt] + 1 \in Frames
    BY <2>1, Bounds DEF Numbers, Frames
  <2>3. got + 1 \in Batches /\ cWant - 1 \in Batches /\ (got + 1) + (cWant - 1) <= MaxBatch
    BY <1>16, Bounds DEF ReadAdvance, Numbers, Copying, Batches
  <2>4. QED
    BY <1>16, <2>2, <2>3 DEF ReadAdvance, Numbers, Writing, Copying
<1>17. CASE ReadStore
  BY <1>17, Bounds DEF ReadStore, Numbers, Writing, Copying, Frames, Batches
<1>18. CASE FlushLoad
  BY <1>18, Bounds DEF FlushLoad, Numbers, Writing, Copying, Frames, Batches
<1>19. CASE FlushStore
  BY <1>19, Bounds DEF FlushStore, Numbers, Writing, Copying, Frames, Batches
<1>20. CASE ConsumerClose
  BY <1>20, Bounds DEF ConsumerClose, Numbers, Writing, Copying, Frames, Batches
<1>21. CASE UNCHANGED vars
  BY <1>21 DEF vars, Numbers, Writing, Copying
<1>22. QED
  BY <1>1, <1>2, <1>3, <1>4, <1>5, <1>6, <1>7, <1>8, <1>9, <1>10, <1>11, <1>12, <1>13, <1>14, <1>15, <1>16, <1>17, <1>18, <1>19, <1>20, <1>21 DEF Next, Producer, Consumer

\* Every step keeps the order of the cursors.
LEMMA OrderStep ==
  ASSUME Places, Numbers, Order, [Next]_vars
  PROVE  Order'
<1>1. ASSUME NEW n \in Batches, PushCheck(n)
     PROVE  Order'
  BY <1>1 DEF PushCheck, Order, Writing, Reading
<1>2. CASE PushLoad
  <2>1. Accepted \in Nat /\ Dist(tail, head) + Accepted <= Capacity
    BY RoomIs, Bounds, DistType DEF Accepted, Numbers, Batches, Places
  <2>2. Dist(head, head) = 0
    BY DistType DEF Places
  <2>3. QED
    BY <1>2, <2>1, <2>2 DEF PushLoad, Order, Writing, Reading
<1>3. CASE PushSample
  BY <1>3 DEF PushSample, Order, Writing, Reading
<1>4. CASE PushPosition
  <2>1. Dist(head, pAt) = pDone /\ pDone < pWant /\ pDone < Capacity
    BY <1>4, Bounds, DistType DEF PushPosition, Order, Writing, Places, Numbers, Batches
  <2>2. Dist(head, After(pAt)) = pDone + 1
    BY <2>1, DistAfter DEF Places
  <2>3. pDone + 1 <= pWant /\ (pDone + 1 # pWant => pDone + 1 < pWant)
    BY <2>1, Bounds DEF Numbers, Batches
  <2>4. QED
    BY <1>4, <2>2, <2>3 DEF PushPosition, Order, Writing, Reading
<1>5. CASE PushPublish
  <2>1. /\ Dist(head, pAt) = pDone /\ Dist(tail, head) + pDone <= Capacity
        /\ Dist(tail, head) \in Nat /\ pDone \in Nat
    BY <1>5, Bounds, DistType DEF PushPublish, Order, Writing, Places, Numbers, Batches
  <2>2. Dist(tail, pAt) = Dist(tail, head) + pDone
    BY <2>1, DistSum DEF Places
  <2>3. Dist(tail, head) <= Dist(tail, pAt)
    BY <2>1, <2>2
  <2>4. Dist(tail, cHead) \in Nat /\ Dist(tail, pAt) \in Nat
    BY Bounds, DistType DEF Places
  <2>5. QED
    BY <1>5, <2>1, <2>3, <2>4 DEF PushPublish, Order, Writing, Reading
<1>6. ASSUME NEW k \in Batches, Discard(k)
     PROVE  Order'
  BY <1>6 DEF Discard, Order, Writing, Reading
<1>7. CASE ProducerFlush
  BY <1>7 DEF ProducerFlush, Order, Writing, Reading
<1>8. CASE ProducerClose
  BY <1>8 DEF ProducerClose, Order, Writing, Reading
<1>9. ASSUME NEW n \in Batches, ReadCheck(n)
     PROVE  Order'
  BY <1>9 DEF ReadCheck, Order, Writing, Reading
<1>10. CASE ReadLoadHead
  <2>1. Dist(tail, tail) = 0 /\ Dist(tail, head) \in Nat
    BY DistType, Bounds DEF Places
  <2>2. QED
    BY <1>10, <2>1 DEF ReadLoadHead, Order, Writing, Reading
<1>11. CASE ReadLoadFlush
  BY <1>11 DEF ReadLoadFlush, Order, Writing, Reading
<1>12. CASE ReadSkip
  <2>1. Dist(tail, cAt) < Dist(tail, cHead) /\ Dist(tail, cAt) \in Nat /\ Dist(tail, cHead) <= Capacity
    BY <1>12, Bounds, DistSame, DistType DEF ReadSkip, Stale, Order, Reading, Places
  <2>2. Dist(tail, After(cAt)) = Dist(tail, cAt) + 1
    BY <2>1, Bounds, DistAfter, DistType DEF Places
  <2>3. Dist(tail, After(cAt)) <= Dist(tail, cHead)
    BY <2>1, <2>2, Bounds, DistType DEF Places
  <2>4. QED
    BY <1>12, <2>3 DEF ReadSkip, Order, Writing, Reading
<1>13. CASE ReadSkipped
  BY <1>13 DEF ReadSkipped, Order, Writing, Reading
<1>14. CASE ReadFrame
  <2>1. cAt # cHead => Dist(tail, cAt) < Dist(tail, cHead)
    BY <1>14, Bounds, DistSame, DistType DEF ReadFrame, Order, Reading, Places
  <2>2. QED
    BY <1>14, <2>1 DEF ReadFrame, Order, Writing, Reading
<1>15. CASE ReadSample
  BY <1>15 DEF ReadSample, Order, Writing, Reading
<1>16. CASE ReadAdvance
  <2>1. Dist(tail, cAt) < Dist(tail, cHead) /\ Dist(tail, cAt) \in Nat /\ Dist(tail, cHead) <= Capacity
    BY <1>16, Bounds, DistType DEF ReadAdvance, Order, Reading, Places
  <2>2. Dist(tail, After(cAt)) = Dist(tail, cAt) + 1
    BY <2>1, Bounds, DistAfter, DistType DEF Places
  <2>3. Dist(tail, After(cAt)) <= Dist(tail, cHead)
    BY <2>1, <2>2, Bounds, DistType DEF Places
  <2>4. QED
    BY <1>16, <2>3 DEF ReadAdvance, Order, Writing, Reading
<1>17. CASE ReadStore
  <2>1. /\ Dist(tail, cAt) <= Dist(tail, head) /\ Dist(tail, cAt) \in Nat /\ Dist(tail, head) \in Nat
    BY <1>17, Bounds, DistType DEF ReadStore, Order, Reading, Places
  <2>2. Dist(cAt, head) = Dist(tail, head) - Dist(tail, cAt)
    BY <2>1, DistRest DEF Places
  <2>3. \A k \in Batches : Dist(tail, head) + k <= Capacity => Dist(cAt, head) + k <= Capacity
    BY <2>1, <2>2, Bounds DEF Batches
  <2>4. QED
    BY <1>17, <2>3 DEF ReadStore, Numbers, Order, Writing, Reading
<1>18. CASE FlushLoad
  <2>1. Dist(tail, head) \in Nat
    BY DistType, Bounds DEF Places
  <2>2. QED
    BY <1>18, <2>1 DEF FlushLoad, Order, Writing, Reading
<1>19. CASE FlushStore
  <2>1. /\ Dist(tail, cHead) <= Dist(tail, head) /\ Dist(tail, cHead) \in Nat /\ Dist(tail, head) \in Nat
    BY <1>19, Bounds, DistType DEF FlushStore, Order, Reading, Places
  <2>2. Dist(cHead, head) = Dist(tail, head) - Dist(tail, cHead)
    BY <2>1, DistRest DEF Places
  <2>3. \A k \in Batches : Dist(tail, head) + k <= Capacity => Dist(cHead, head) + k <= Capacity
    BY <2>1, <2>2, Bounds DEF Batches
  <2>4. QED
    BY <1>19, <2>3 DEF FlushStore, Numbers, Order, Writing, Reading
<1>20. CASE ConsumerClose
  BY <1>20 DEF ConsumerClose, Order, Writing, Reading
<1>21. CASE UNCHANGED vars
  BY <1>21 DEF vars, Order, Writing, Reading
<1>22. QED
  BY <1>1, <1>2, <1>3, <1>4, <1>5, <1>6, <1>7, <1>8, <1>9, <1>10, <1>11, <1>12, <1>13, <1>14, <1>15, <1>16, <1>17, <1>18, <1>19, <1>20, <1>21 DEF Next, Producer, Consumer

-----------------------------------------------------------------------------
(* What the slots hold.                                                    *)

\* Where the push is, seen from tail.
LEMMA PushAt ==
  ASSUME Places, Numbers, Order, Writing
  PROVE  /\ Dist(tail, pAt) = Dist(tail, head) + pDone
         /\ pDone \in Nat /\ pWant \in Nat /\ Dist(tail, head) \in Nat
         /\ Dist(tail, head) + pWant <= Capacity /\ pDone <= pWant
<1>1. /\ Dist(head, pAt) = pDone /\ pDone <= pWant /\ Dist(tail, head) + pWant <= Capacity
      /\ pDone \in Nat /\ pWant \in Nat /\ Dist(tail, head) \in Nat
  BY Bounds, DistType DEF Order, Places, Numbers, Batches
<1>2. Dist(tail, head) + Dist(head, pAt) <= Capacity
  BY <1>1, Bounds
<1>3. QED
  BY <1>1, <1>2, DistSum DEF Places

\* Where the read is, seen from tail.
LEMMA ReadAt ==
  ASSUME Places, Order, cpc \in {"sample", "advance"} \/ (Reading /\ cAt # cHead)
  PROVE  Dist(tail, cAt) < Dist(tail, head) /\ Dist(tail, cAt) \in Nat /\ Dist(tail, head) \in Nat
<1>1. Dist(tail, cAt) # Dist(tail, cHead) \/ Dist(tail, cAt) < Dist(tail, cHead)
  BY DistSame DEF Places, Order
<1>2. QED
  BY <1>1, Bounds, DistType DEF Places, Order, Reading

\* As tail moves towards head, the slots between tail and the push get fewer.
LEMMA TailMoves ==
  ASSUME Places, NEW t \in Ring, Dist(tail, t) <= Dist(tail, head), NEW k \in Nat,
         Dist(tail, head) + k <= Capacity, NEW s \in Ring, Dist(t, s) < Dist(t, head) + k
  PROVE  Dist(tail, s) < Dist(tail, head) + k
<1>1. /\ Dist(tail, t) \in Nat /\ Dist(tail, s) \in Nat /\ Dist(tail, head) \in Nat
      /\ Dist(t, head) = Dist(tail, head) - Dist(tail, t)
  BY Bounds, DistType, DistRest DEF Places
<1>2. Dist(tail, t) <= Dist(tail, s) => Dist(t, s) = Dist(tail, s) - Dist(tail, t)
  BY DistRest DEF Places
<1>3. QED
  BY <1>1, <1>2

\* Every step keeps the frames between tail and the push whole and numbered.
LEMMA WrittenStep ==
  ASSUME Places, Numbers, Contents, Order, Written, [Next]_vars
  PROVE  Written'
<1>1. ASSUME NEW n \in Batches, PushCheck(n)
     PROVE  Written'
  <2>1. Whole' /\ Dated' /\ Numbered'
    BY <1>1 DEF PushCheck, Written, Whole, Dated, Numbered, Writing, Filled
  <2>2. Pushing' /\ Framing'
    BY <1>1 DEF PushCheck, Written, Pushing, Framing
  <2>3. QED
    BY <2>1, <2>2 DEF Written
<1>2. CASE PushLoad
  <2>1. UNCHANGED <<sample, pos, head, tail, nextFrame, cpc, cAt, cChannel, frame>> /\ Filled = 0
    BY <1>2 DEF PushLoad, Filled, Writing
  <2>2. Filled' = 0 /\ (Writing' => pDone' = 0)
    BY <1>2 DEF PushLoad, Filled, Writing
  <2>3. \A s \in Ring : Dist(head, s) \in Nat
    BY Bounds, DistType DEF Places
  <2>4. Whole' /\ Dated' /\ Numbered'
    BY <2>1, <2>2, <2>3 DEF Written, Whole, Dated, Numbered
  <2>5. Framing'
    BY <2>1 DEF Written, Framing
  <2>6. Pushing'
    BY <1>2 DEF PushLoad, Written, Pushing
  <2>7. QED
    BY <2>4, <2>5, <2>6 DEF Written
<1>3. CASE PushSample
  <2>1. /\ sample' = [sample EXCEPT ![pAt][pChannel] = nextFrame + pDone]
        /\ UNCHANGED <<pos, head, tail, nextFrame, pDone, pAt, cpc, cAt, cChannel, frame>>
        /\ Writing /\ Writing' /\ pAt \in Ring /\ pChannel \in 1 .. Channels
    BY <1>3 DEF PushSample, Writing, Places, Numbers
  <2>2. /\ \A s \in Ring : s # pAt => sample'[s] = sample[s]
        /\ sample'[pAt][pChannel] = nextFrame + pDone
        /\ \A c \in 1 .. Channels : c # pChannel => sample'[pAt][c] = sample[pAt][c]
    BY <2>1 DEF Contents
  <2>3. Filled = pDone /\ Filled' = pDone /\ Dist(tail, pAt) = Dist(tail, head) + pDone
        /\ pDone \in Nat /\ Dist(tail, head) \in Nat
    BY <2>1, PushAt DEF Filled
  <2>4. Whole'
    BY <2>1, <2>2, <2>3 DEF Written, Whole
  <2>5. Dated' /\ Numbered' /\ Framing'
    BY <2>1 DEF Written, Dated, Numbered, Framing
  <2>6. CASE pChannel = Channels
    <3>1. ppc' = "position" /\ pChannel' = 1 /\ ppc = "sample"
      BY <1>3, <2>6 DEF PushSample
    <3>2. \A c \in 1 .. Channels : c # pChannel => sample[pAt][c] = nextFrame + pDone
      BY <2>6, <3>1, Bounds DEF Written, Pushing
    <3>3. QED
      BY <2>1, <2>2, <2>4, <2>5, <3>1, <3>2 DEF Written, Pushing
  <2>7. CASE pChannel # Channels
    <3>1. ppc' = "sample" /\ pChannel' = pChannel + 1 /\ ppc = "sample"
      BY <1>3, <2>7 DEF PushSample
    <3>2. \A c \in 1 .. pChannel' - 1 : sample'[pAt][c] = nextFrame + pDone
      BY <2>1, <2>2, <3>1, Bounds DEF Written, Pushing
    <3>3. QED
      BY <2>1, <2>4, <2>5, <3>1, <3>2 DEF Written, Pushing
  <2>8. QED
    BY <2>6, <2>7
<1>4. CASE PushPosition
  <2>1. /\ pos' = [pos EXCEPT ![pAt] = nextFrame + pDone] /\ pDone' = pDone + 1
        /\ UNCHANGED <<sample, head, tail, nextFrame, cpc, cAt, cChannel, frame>>
        /\ ppc = "position" /\ Writing /\ Writing' /\ pAt \in Ring /\ pDone < pWant
    BY <1>4 DEF PushPosition, Writing, Places, Order
  <2>2. pos'[pAt] = nextFrame + pDone /\ \A s \in Ring : s # pAt => pos'[s] = pos[s]
    BY <2>1 DEF Contents
  <2>3. /\ Filled = pDone /\ Filled' = pDone + 1 /\ Dist(tail, pAt) = Dist(tail, head) + pDone
        /\ pDone \in Nat /\ Dist(tail, head) \in Nat /\ Dist(head, pAt) = pDone
        /\ \A s \in Ring : Dist(tail, s) \in Nat /\ Dist(head, s) \in Nat
    BY <2>1, PushAt, Bounds, DistType DEF Filled, Order, Places
  <2>4. \A s \in Ring : s # pAt => Dist(tail, s) # Dist(tail, pAt) /\ Dist(head, s) # Dist(head, pAt)
    BY <2>1, DistSame DEF Places
  <2>5. \A c \in 1 .. Channels : sample[pAt][c] = nextFrame + pDone
    BY <2>1 DEF Written, Pushing
  <2>6. Whole'
    <3>1. ASSUME NEW s \in Ring, Dist(tail, s) < Dist(tail, head) + pDone + 1
          PROVE  \A c \in 1 .. Channels : sample[s][c] = pos'[s]
      <4>1. CASE s = pAt
        BY <2>2, <2>5, <4>1
      <4>2. CASE s # pAt
        <5>1. Dist(tail, s) < Dist(tail, head) + Filled
          BY <2>3, <2>4, <3>1, <4>2
        <5>2. QED
          BY <2>2, <4>2, <5>1 DEF Written, Whole
      <4>3. QED
        BY <4>1, <4>2
    <3>2. QED
      BY <2>1, <2>3, <3>1 DEF Whole
  <2>7. Dated'
    BY <2>1, <2>2, <2>3 DEF Written, Dated
  <2>8. Numbered'
    BY <2>1, <2>2, <2>3, <2>4 DEF Written, Numbered
  <2>9. Framing'
    <3>1. cpc \in {"sample", "advance"} => cAt # pAt
      BY <2>3, ReadAt DEF Places
    <3>2. QED
      BY <2>1, <2>2, <3>1 DEF Written, Framing, Places
  <2>10. Pushing'
    BY <1>4 DEF PushPosition, Written, Pushing
  <2>11. QED
    BY <2>6, <2>7, <2>8, <2>9, <2>10 DEF Written
<1>5. CASE PushPublish
  <2>1. /\ head' = pAt /\ nextFrame' = nextFrame + pWant /\ ~ Writing' /\ Writing /\ pDone = pWant
        /\ UNCHANGED <<sample, pos, tail, pDone, cpc, cAt, cChannel, frame>>
    BY <1>5 DEF PushPublish, Writing, Order
  <2>2. /\ Filled = pDone /\ Filled' = 0 /\ Dist(tail, pAt) = Dist(tail, head) + pDone
        /\ pDone \in Nat /\ Dist(tail, head) \in Nat /\ Dist(tail, head) + pDone <= Capacity
        /\ \A s \in Ring : Dist(tail, s) \in Nat
    BY <2>1, PushAt, Bounds, DistType DEF Filled, Places
  <2>3. Whole'
    BY <2>1, <2>2 DEF Written, Whole
  <2>4. Dated'
    <3>1. ASSUME NEW s \in Ring, Dist(tail, s) < Dist(tail, pAt)
          PROVE  pos[s] < nextFrame + pWant
      <4>1. CASE Dist(tail, s) < Dist(tail, head)
        <5>1. pos[s] < nextFrame /\ pos[s] \in Nat /\ nextFrame \in Nat
          BY <4>1, Bounds DEF Written, Dated, Contents, Numbers, Frames
        <5>2. QED
          BY <2>1, <2>2, <5>1
      <4>2. CASE ~ (Dist(tail, s) < Dist(tail, head))
        <5>1. Dist(head, s) = Dist(tail, s) - Dist(tail, head)
          BY <2>2, <4>2, DistRest DEF Places
        <5>2. Dist(head, s) < pDone
          BY <2>2, <3>1, <5>1
        <5>3. pos[s] = nextFrame + Dist(head, s) /\ Dist(head, s) \in Nat /\ nextFrame \in Nat
          BY <2>1, <5>2, Bounds, DistType DEF Written, Numbered, Places, Numbers, Frames
        <5>4. QED
          BY <2>1, <2>2, <5>2, <5>3
      <4>3. QED
        BY <4>1, <4>2
    <3>2. QED
      BY <2>1, <3>1 DEF Dated
  <2>5. Numbered' /\ Framing'
    BY <2>1 DEF Written, Numbered, Framing
  <2>6. Pushing'
    BY <1>5 DEF PushPublish, Written, Pushing
  <2>7. QED
    BY <2>3, <2>4, <2>5, <2>6 DEF Written
<1>6. ASSUME NEW k \in Batches, Discard(k)
     PROVE  Written'
  <2>1. nextFrame' = nextFrame + k /\ k \in Nat /\ UNCHANGED <<sample, pos, head, tail, ppc, pDone>> /\ ~ Writing
    BY <1>6, Bounds DEF Discard, Batches, Writing
  <2>2. Whole' /\ Numbered'
    BY <2>1 DEF Written, Whole, Numbered, Writing, Filled
  <2>3. \A x \in Frames : x < nextFrame => x < nextFrame + k
    BY <2>1, Bounds DEF Numbers, Frames
  <2>4. Dated'
    BY <2>1, <2>3 DEF Written, Dated, Contents
  <2>5. Pushing' /\ Framing'
    BY <1>6 DEF Discard, Written, Pushing, Framing
  <2>6. QED
    BY <2>2, <2>4, <2>5 DEF Written
<1>7. CASE ProducerFlush
  <2>1. Whole' /\ Dated' /\ Numbered'
    BY <1>7 DEF ProducerFlush, Written, Whole, Dated, Numbered, Writing, Filled
  <2>2. Pushing' /\ Framing'
    BY <1>7 DEF ProducerFlush, Written, Pushing, Framing
  <2>3. QED
    BY <2>1, <2>2 DEF Written
<1>8. CASE ProducerClose
  <2>1. Whole' /\ Dated' /\ Numbered'
    BY <1>8 DEF ProducerClose, Written, Whole, Dated, Numbered, Writing, Filled
  <2>2. Pushing' /\ Framing'
    BY <1>8 DEF ProducerClose, Written, Pushing, Framing
  <2>3. QED
    BY <2>1, <2>2 DEF Written
<1>9. ASSUME NEW n \in Batches, ReadCheck(n)
     PROVE  Written'
  <2>1. Whole' /\ Dated' /\ Numbered'
    BY <1>9 DEF ReadCheck, Written, Whole, Dated, Numbered, Writing, Filled
  <2>2. Pushing' /\ Framing'
    BY <1>9 DEF ReadCheck, Written, Pushing, Framing
  <2>3. QED
    BY <2>1, <2>2 DEF Written
<1>10. CASE ReadLoadHead
  <2>1. Whole' /\ Dated' /\ Numbered'
    BY <1>10 DEF ReadLoadHead, Written, Whole, Dated, Numbered, Writing, Filled
  <2>2. Pushing' /\ Framing'
    BY <1>10 DEF ReadLoadHead, Written, Pushing, Framing
  <2>3. QED
    BY <2>1, <2>2 DEF Written
<1>11. CASE ReadLoadFlush
  <2>1. Whole' /\ Dated' /\ Numbered'
    BY <1>11 DEF ReadLoadFlush, Written, Whole, Dated, Numbered, Writing, Filled
  <2>2. Pushing' /\ Framing'
    BY <1>11 DEF ReadLoadFlush, Written, Pushing, Framing
  <2>3. QED
    BY <2>1, <2>2 DEF Written
<1>12. CASE ReadSkip
  <2>1. Whole' /\ Dated' /\ Numbered'
    BY <1>12 DEF ReadSkip, Written, Whole, Dated, Numbered, Writing, Filled
  <2>2. Pushing' /\ Framing'
    BY <1>12 DEF ReadSkip, Written, Pushing, Framing
  <2>3. QED
    BY <2>1, <2>2 DEF Written
<1>13. CASE ReadSkipped
  <2>1. Whole' /\ Dated' /\ Numbered'
    BY <1>13 DEF ReadSkipped, Written, Whole, Dated, Numbered, Writing, Filled
  <2>2. Pushing' /\ Framing'
    BY <1>13 DEF ReadSkipped, Written, Pushing, Framing
  <2>3. QED
    BY <2>1, <2>2 DEF Written
<1>14. CASE ReadFrame
  <2>1. Whole' /\ Dated' /\ Numbered'
    BY <1>14 DEF ReadFrame, Written, Whole, Dated, Numbered, Writing, Filled
  <2>2. Pushing' /\ Framing'
    BY <1>14 DEF ReadFrame, Written, Pushing, Framing
  <2>3. QED
    BY <2>1, <2>2 DEF Written
<1>15. CASE ReadSample
  <2>1. UNCHANGED <<sample, pos, head, tail, nextFrame, ppc, pDone, pAt, pChannel, cAt>> /\ cpc = "sample"
        /\ frame' = [frame EXCEPT ![cChannel] = sample[cAt][cChannel]] /\ cChannel \in 1 .. Channels
    BY <1>15 DEF ReadSample, Numbers
  <2>2. Whole' /\ Dated' /\ Numbered' /\ Pushing'
    BY <2>1 DEF Written, Whole, Dated, Numbered, Pushing, Writing, Filled
  <2>3. sample[cAt][cChannel] = pos[cAt]
    <3>1. Dist(tail, cAt) < Dist(tail, head) + Filled
      BY <2>1, ReadAt, PushAt, Bounds DEF Filled, Writing
    <3>2. QED
      BY <2>1, <3>1 DEF Written, Whole, Places
  <2>4. frame'[cChannel] = pos[cAt] /\ \A c \in 1 .. Channels : c # cChannel => frame'[c] = frame[c]
    BY <2>1, <2>3 DEF Contents
  <2>5. CASE cChannel = Channels
    <3>1. cpc' = "advance" /\ cChannel' = 1
      BY <1>15, <2>5 DEF ReadSample
    <3>2. \A c \in 1 .. Channels : c # cChannel => frame[c] = pos[cAt]
      BY <2>1, <2>5, Bounds DEF Written, Framing
    <3>3. Framing'
      BY <2>1, <2>4, <3>1, <3>2 DEF Framing
    <3>4. QED
      BY <2>2, <3>3 DEF Written
  <2>6. CASE cChannel # Channels
    <3>1. cpc' = "sample" /\ cChannel' = cChannel + 1
      BY <1>15, <2>1, <2>6 DEF ReadSample
    <3>2. \A c \in 1 .. cChannel' - 1 : frame'[c] = pos[cAt]
      BY <2>1, <2>4, <3>1, Bounds DEF Written, Framing
    <3>3. Framing'
      BY <2>1, <3>1, <3>2 DEF Framing
    <3>4. QED
      BY <2>2, <3>3 DEF Written
  <2>7. QED
    BY <2>5, <2>6
<1>16. CASE ReadAdvance
  <2>1. Whole' /\ Dated' /\ Numbered'
    BY <1>16 DEF ReadAdvance, Written, Whole, Dated, Numbered, Writing, Filled
  <2>2. Pushing' /\ Framing'
    BY <1>16 DEF ReadAdvance, Written, Pushing, Framing
  <2>3. QED
    BY <2>1, <2>2 DEF Written
<1>17. CASE ReadStore
  <2>1. /\ cAt \in Ring /\ Dist(tail, cAt) <= Dist(tail, head)
        /\ tail' = cAt /\ UNCHANGED <<sample, pos, head, nextFrame, ppc, pDone, pAt>>
    BY <1>17, Bounds, DistType DEF ReadStore, Places, Order, Reading
  <2>2. Filled \in Nat /\ Dist(tail, head) + Filled <= Capacity /\ Filled' = Filled
    BY <1>17, PushAt, Bounds, DistType DEF ReadStore, Filled, Writing, Places
  <2>3. \A s \in Ring : Dist(cAt, s) < Dist(cAt, head) + Filled =>
          Dist(tail, s) < Dist(tail, head) + Filled
    BY <2>1, <2>2, TailMoves
  <2>4. \A s \in Ring : Dist(cAt, s) < Dist(cAt, head) => Dist(tail, s) < Dist(tail, head)
    <3>1. Dist(tail, head) \in Nat /\ Dist(tail, head) + 0 <= Capacity
      BY <2>2, Bounds, DistType DEF Places
    <3>2. \A s \in Ring : Dist(cAt, s) < Dist(cAt, head) + 0 => Dist(tail, s) < Dist(tail, head) + 0
      BY <2>1, <3>1, TailMoves
    <3>3. \A s \in Ring : Dist(cAt, s) \in Nat /\ Dist(cAt, head) \in Nat /\ Dist(tail, s) \in Nat
      BY <2>1, Bounds, DistType DEF Places
    <3>4. QED
      BY <3>1, <3>2, <3>3
  <2>5. Whole'
    BY <2>1, <2>2, <2>3 DEF Written, Whole
  <2>6. Dated'
    BY <2>1, <2>4 DEF Written, Dated
  <2>7. Numbered'
    BY <2>1 DEF Written, Numbered, Writing
  <2>8. Pushing' /\ Framing'
    BY <1>17 DEF ReadStore, Written, Pushing, Framing
  <2>9. QED
    BY <2>5, <2>6, <2>7, <2>8 DEF Written
<1>18. CASE FlushLoad
  <2>1. Whole' /\ Dated' /\ Numbered'
    BY <1>18 DEF FlushLoad, Written, Whole, Dated, Numbered, Writing, Filled
  <2>2. Pushing' /\ Framing'
    BY <1>18 DEF FlushLoad, Written, Pushing, Framing
  <2>3. QED
    BY <2>1, <2>2 DEF Written
<1>19. CASE FlushStore
  <2>1. /\ cHead \in Ring /\ Dist(tail, cHead) <= Dist(tail, head)
        /\ tail' = cHead /\ UNCHANGED <<sample, pos, head, nextFrame, ppc, pDone, pAt>>
    BY <1>19, Bounds, DistType DEF FlushStore, Places, Order, Reading
  <2>2. Filled \in Nat /\ Dist(tail, head) + Filled <= Capacity /\ Filled' = Filled
    BY <1>19, PushAt, Bounds, DistType DEF FlushStore, Filled, Writing, Places
  <2>3. \A s \in Ring : Dist(cHead, s) < Dist(cHead, head) + Filled =>
          Dist(tail, s) < Dist(tail, head) + Filled
    BY <2>1, <2>2, TailMoves
  <2>4. \A s \in Ring : Dist(cHead, s) < Dist(cHead, head) => Dist(tail, s) < Dist(tail, head)
    <3>1. Dist(tail, head) \in Nat /\ Dist(tail, head) + 0 <= Capacity
      BY <2>2, Bounds, DistType DEF Places
    <3>2. \A s \in Ring : Dist(cHead, s) < Dist(cHead, head) + 0 => Dist(tail, s) < Dist(tail, head) + 0
      BY <2>1, <3>1, TailMoves
    <3>3. \A s \in Ring : Dist(cHead, s) \in Nat /\ Dist(cHead, head) \in Nat /\ Dist(tail, s) \in Nat
      BY <2>1, Bounds, DistType DEF Places
    <3>4. QED
      BY <3>1, <3>2, <3>3
  <2>5. Whole'
    BY <2>1, <2>2, <2>3 DEF Written, Whole
  <2>6. Dated'
    BY <2>1, <2>4 DEF Written, Dated
  <2>7. Numbered'
    BY <2>1 DEF Written, Numbered, Writing
  <2>8. Pushing' /\ Framing'
    BY <1>19 DEF FlushStore, Written, Pushing, Framing
  <2>9. QED
    BY <2>5, <2>6, <2>7, <2>8 DEF Written
<1>20. CASE ConsumerClose
  <2>1. Whole' /\ Dated' /\ Numbered'
    BY <1>20 DEF ConsumerClose, Written, Whole, Dated, Numbered, Writing, Filled
  <2>2. Pushing' /\ Framing'
    BY <1>20 DEF ConsumerClose, Written, Pushing, Framing
  <2>3. QED
    BY <2>1, <2>2 DEF Written
<1>21. CASE UNCHANGED vars
  <2>1. Whole' /\ Dated' /\ Numbered'
    BY <1>21 DEF vars, Written, Whole, Dated, Numbered, Writing, Filled
  <2>2. Pushing' /\ Framing'
    BY <1>21 DEF vars, Written, Pushing, Framing
  <2>3. QED
    BY <2>1, <2>2 DEF Written
<1>22. QED
  BY <1>1, <1>2, <1>3, <1>4, <1>5, <1>6, <1>7, <1>8, <1>9, <1>10, <1>11, <1>12, <1>13, <1>14, <1>15, <1>16, <1>17, <1>18, <1>19, <1>20, <1>21 DEF Next, Producer, Consumer

-----------------------------------------------------------------------------
(* What the running read has skipped and taken.                            *)

\* The push leaves the published slots alone.
LEMMA PublishedStays ==
  ASSUME Places, Numbers, Contents, Order, PushPosition
  PROVE  \A s \in Ring : Dist(tail, s) < Dist(tail, head) => pos'[s] = pos[s]
<1>1. pos' = [pos EXCEPT ![pAt] = nextFrame + pDone] /\ Writing
  BY DEF PushPosition, Writing
<1>2. \A s \in Ring : Dist(tail, s) < Dist(tail, head) => s # pAt
  BY <1>1, PushAt, Bounds, DistType DEF Places
<1>3. QED
  BY <1>1, <1>2 DEF Contents

\* The slots of a read are published.
LEMMA ReadPublished ==
  ASSUME Places, Order, Reading
  PROVE  \A s \in Ring : Dist(tail, s) < Dist(tail, cAt) => Dist(tail, s) < Dist(tail, head)
<1>1. Dist(tail, cAt) <= Dist(tail, head) /\ Dist(tail, cAt) \in Nat /\ Dist(tail, head) \in Nat
  BY Bounds, DistType DEF Places, Order
<1>2. \A s \in Ring : Dist(tail, s) \in Nat
  BY Bounds, DistType DEF Places
<1>3. QED
  BY <1>1, <1>2

\* Every step keeps the order of the flush marks.
LEMMA MarksStep ==
  ASSUME Places, Numbers, Marks, [Next]_vars
  PROVE  Marks'
<1>1. ASSUME NEW n \in Batches, PushCheck(n)
     PROVE  Marks'
  BY <1>1, Bounds DEF PushCheck, Marks, Busy, Copying, Numbers, Frames
<1>2. CASE PushLoad
  BY <1>2, Bounds DEF PushLoad, Marks, Busy, Copying, Numbers, Frames
<1>3. CASE PushSample
  BY <1>3, Bounds DEF PushSample, Marks, Busy, Copying, Numbers, Frames
<1>4. CASE PushPosition
  BY <1>4, Bounds DEF PushPosition, Marks, Busy, Copying, Numbers, Frames
<1>5. CASE PushPublish
  BY <1>5, Bounds DEF PushPublish, Marks, Busy, Copying, Numbers, Frames, Batches
<1>6. ASSUME NEW k \in Batches, Discard(k)
     PROVE  Marks'
  BY <1>6, Bounds DEF Discard, Marks, Busy, Copying, Numbers, Frames, Batches
<1>7. CASE ProducerFlush
  BY <1>7, Bounds DEF ProducerFlush, Marks, Busy, Copying, Numbers, Frames
<1>8. CASE ProducerClose
  BY <1>8, Bounds DEF ProducerClose, Marks, Busy, Copying, Numbers, Frames
<1>9. ASSUME NEW n \in Batches, ReadCheck(n)
     PROVE  Marks'
  BY <1>9, Bounds DEF ReadCheck, Marks, Busy, Copying, Numbers, Frames
<1>10. CASE ReadLoadHead
  BY <1>10, Bounds DEF ReadLoadHead, Marks, Busy, Copying, Numbers, Frames
<1>11. CASE ReadLoadFlush
  BY <1>11, Bounds DEF ReadLoadFlush, Marks, Busy, Copying, Numbers, Frames
<1>12. CASE ReadSkip
  BY <1>12, Bounds DEF ReadSkip, Marks, Busy, Copying, Numbers, Frames
<1>13. CASE ReadSkipped
  BY <1>13, Bounds DEF ReadSkipped, Marks, Busy, Copying, Numbers, Frames
<1>14. CASE ReadFrame
  BY <1>14, Bounds DEF ReadFrame, Marks, Busy, Copying, Numbers, Frames
<1>15. CASE ReadSample
  BY <1>15, Bounds DEF ReadSample, Marks, Busy, Copying, Numbers, Frames
<1>16. CASE ReadAdvance
  BY <1>16, Bounds DEF ReadAdvance, Marks, Busy, Copying, Numbers, Frames
<1>17. CASE ReadStore
  BY <1>17, Bounds DEF ReadStore, Marks, Busy, Copying, Numbers, Frames
<1>18. CASE FlushLoad
  BY <1>18, Bounds DEF FlushLoad, Marks, Busy, Copying, Numbers, Frames
<1>19. CASE FlushStore
  BY <1>19, Bounds DEF FlushStore, Marks, Busy, Copying, Numbers, Frames
<1>20. CASE ConsumerClose
  BY <1>20, Bounds DEF ConsumerClose, Marks, Busy, Copying, Numbers, Frames
<1>21. CASE UNCHANGED vars
  BY <1>21 DEF vars, Marks, Busy, Copying
<1>22. QED
  BY <1>1, <1>2, <1>3, <1>4, <1>5, <1>6, <1>7, <1>8, <1>9, <1>10, <1>11, <1>12, <1>13, <1>14, <1>15, <1>16, <1>17, <1>18, <1>19, <1>20, <1>21 DEF Next, Producer, Consumer

\* Every step keeps what was skipped below the flush mark.
LEMMA SkippedStep ==
  ASSUME Places, Numbers, Contents, Order, Marks, Skipped, [Next]_vars
  PROVE  Skipped'
<1>1. ASSUME NEW n \in Batches, PushCheck(n)
     PROVE  Skipped'
  BY <1>1 DEF PushCheck, Skipped, Copying
<1>2. CASE PushLoad
  BY <1>2 DEF PushLoad, Skipped, Copying
<1>3. CASE PushSample
  BY <1>3 DEF PushSample, Skipped, Copying
<1>4. CASE PushPosition
  <2>1. UNCHANGED <<tail, cpc, cAt, got, cFlush>>
    BY <1>4 DEF PushPosition
  <2>2. ASSUME Copying \/ cpc = "skip", NEW s \in Ring, Dist(tail, s) < Dist(tail, cAt) - got
        PROVE  pos'[s] < cFlush
    <3>1. Dist(tail, s) < Dist(tail, cAt)
      BY <2>2, Bounds, DistType DEF Places, Numbers, Batches
    <3>2. Dist(tail, s) < Dist(tail, head)
      BY <2>2, <3>1, ReadPublished DEF Copying, Reading
    <3>3. pos'[s] = pos[s]
      BY <1>4, <3>2, PublishedStays
    <3>4. QED
      BY <2>2, <3>3 DEF Skipped
  <2>3. QED
    BY <2>1, <2>2 DEF Skipped, Copying
<1>5. CASE PushPublish
  BY <1>5 DEF PushPublish, Skipped, Copying
<1>6. ASSUME NEW k \in Batches, Discard(k)
     PROVE  Skipped'
  BY <1>6 DEF Discard, Skipped, Copying
<1>7. CASE ProducerFlush
  BY <1>7 DEF ProducerFlush, Skipped, Copying
<1>8. CASE ProducerClose
  BY <1>8 DEF ProducerClose, Skipped, Copying
<1>9. ASSUME NEW n \in Batches, ReadCheck(n)
     PROVE  Skipped'
  BY <1>9 DEF ReadCheck, Skipped, Copying
<1>10. CASE ReadLoadHead
  BY <1>10 DEF ReadLoadHead, Skipped, Copying
<1>11. CASE ReadLoadFlush
  <2>1. tail' = tail /\ cAt' = tail /\ got' = 0 /\ cpc' = "skip"
    BY <1>11 DEF ReadLoadFlush, Skipped
  <2>2. Dist(tail, tail) = 0 /\ \A s \in Ring : Dist(tail, s) \in Nat
    BY Bounds, DistType DEF Places
  <2>3. QED
    BY <2>1, <2>2 DEF Skipped
<1>12. CASE ReadSkip
  <2>1. /\ cpc = "skip" /\ got = 0 /\ pos[cAt] < cFlush /\ cAt # cHead
        /\ UNCHANGED <<tail, pos, cFlush, got>> /\ cAt' = After(cAt) /\ cpc' = "skip"
    BY <1>12 DEF ReadSkip, Stale, Marks
  <2>2. Dist(tail, cAt) < Capacity /\ Dist(tail, cAt) \in Nat
    BY <2>1, ReadAt, Bounds, DistType DEF Reading, Places
  <2>3. Dist(tail, After(cAt)) = Dist(tail, cAt) + 1
    BY <2>2, DistAfter DEF Places
  <2>4. ASSUME NEW s \in Ring, Dist(tail, s) < Dist(tail, cAt) + 1
        PROVE  pos[s] < cFlush
    <3>1. CASE s = cAt
      BY <2>1, <3>1
    <3>2. CASE s # cAt
      <4>1. Dist(tail, s) # Dist(tail, cAt) /\ Dist(tail, s) \in Nat
        BY <3>2, Bounds, DistSame, DistType DEF Places
      <4>2. Dist(tail, s) < Dist(tail, cAt) - got
        BY <2>1, <2>2, <2>4, <4>1
      <4>3. QED
        BY <2>1, <4>2 DEF Skipped
    <3>3. QED
      BY <3>1, <3>2
  <2>5. QED
    BY <2>1, <2>2, <2>3, <2>4 DEF Skipped
<1>13. CASE ReadSkipped
  BY <1>13 DEF ReadSkipped, Skipped, Copying
<1>14. CASE ReadFrame
  BY <1>14 DEF ReadFrame, Skipped, Copying
<1>15. CASE ReadSample
  BY <1>15 DEF ReadSample, Skipped, Copying
<1>16. CASE ReadAdvance
  <2>1. /\ cpc = "advance" /\ got' = got + 1 /\ got \in Nat
        /\ UNCHANGED <<tail, pos, cFlush>> /\ cAt' = After(cAt) /\ cpc' = "frame"
    BY <1>16, Bounds DEF ReadAdvance, Numbers, Batches
  <2>2. Dist(tail, cAt) < Capacity /\ Dist(tail, cAt) \in Nat
    BY <2>1, ReadAt, Bounds, DistType DEF Places
  <2>3. Dist(tail, After(cAt)) = Dist(tail, cAt) + 1
    BY <2>2, DistAfter DEF Places
  <2>4. Dist(tail, cAt) + 1 - (got + 1) = Dist(tail, cAt) - got
    BY <2>1, <2>2
  <2>5. QED
    BY <2>1, <2>2, <2>3, <2>4 DEF Skipped, Copying
<1>17. CASE ReadStore
  BY <1>17 DEF ReadStore, Skipped, Copying
<1>18. CASE FlushLoad
  BY <1>18 DEF FlushLoad, Skipped, Copying
<1>19. CASE FlushStore
  BY <1>19 DEF FlushStore, Skipped, Copying
<1>20. CASE ConsumerClose
  BY <1>20 DEF ConsumerClose, Skipped, Copying
<1>21. CASE UNCHANGED vars
  BY <1>21 DEF vars, Skipped, Copying
<1>22. QED
  BY <1>1, <1>2, <1>3, <1>4, <1>5, <1>6, <1>7, <1>8, <1>9, <1>10, <1>11, <1>12, <1>13, <1>14, <1>15, <1>16, <1>17, <1>18, <1>19, <1>20, <1>21 DEF Next, Producer, Consumer

\* Every step keeps what was taken one run of the frame clock.
LEMMA TakenStep ==
  ASSUME Places, Numbers, Contents, Order, Written, Marks, Skipped, Taken, Returned, [Next]_vars
  PROVE  Taken'
<1>1. ASSUME NEW n \in Batches, PushCheck(n)
     PROVE  Taken'
  BY <1>1 DEF PushCheck, Taken, Copying
<1>2. CASE PushLoad
  BY <1>2 DEF PushLoad, Taken, Copying
<1>3. CASE PushSample
  BY <1>3 DEF PushSample, Taken, Copying
<1>4. CASE PushPosition
  <2>1. UNCHANGED <<tail, cpc, cAt, got, first, expected>>
    BY <1>4 DEF PushPosition
  <2>2. ASSUME Copying, NEW s \in Ring, Dist(tail, s) < Dist(tail, cAt)
        PROVE  pos'[s] = pos[s]
    <3>1. Dist(tail, s) < Dist(tail, head)
      BY <2>2, ReadPublished DEF Copying, Reading
    <3>2. QED
      BY <1>4, <3>1, PublishedStays
  <2>3. QED
    BY <2>1, <2>2 DEF Taken, Copying
<1>5. CASE PushPublish
  BY <1>5 DEF PushPublish, Taken, Copying
<1>6. ASSUME NEW k \in Batches, Discard(k)
     PROVE  Taken'
  BY <1>6 DEF Discard, Taken, Copying
<1>7. CASE ProducerFlush
  BY <1>7 DEF ProducerFlush, Taken, Copying
<1>8. CASE ProducerClose
  BY <1>8 DEF ProducerClose, Taken, Copying
<1>9. ASSUME NEW n \in Batches, ReadCheck(n)
     PROVE  Taken'
  BY <1>9 DEF ReadCheck, Taken, Copying
<1>10. CASE ReadLoadHead
  BY <1>10 DEF ReadLoadHead, Taken, Copying
<1>11. CASE ReadLoadFlush
  BY <1>11 DEF ReadLoadFlush, Taken, Copying
<1>12. CASE ReadSkip
  BY <1>12 DEF ReadSkip, Taken, Copying
<1>13. CASE ReadSkipped
  <2>1. got = 0 /\ got' = 0 /\ UNCHANGED <<tail, pos, cAt>>
    BY <1>13 DEF ReadSkipped, Marks
  <2>2. \A s \in Ring : Dist(tail, s) \in Nat /\ Dist(tail, cAt) \in Nat
    BY Bounds, DistType DEF Places
  <2>3. QED
    BY <2>1, <2>2 DEF Taken
<1>14. CASE ReadFrame
  <2>1. UNCHANGED <<tail, pos, cAt, got, expected>> /\ (got # 0 => first' = first) /\ Copying
    BY <1>14 DEF ReadFrame, Copying
  <2>2. \A s \in Ring : Dist(tail, s) \in Nat /\ Dist(tail, cAt) \in Nat
    BY Bounds, DistType DEF Places
  <2>3. QED
    BY <2>1, <2>2 DEF Taken
<1>15. CASE ReadSample
  BY <1>15 DEF ReadSample, Taken, Copying
<1>16. CASE ReadAdvance
  <2>1. /\ cpc = "advance" /\ got' = got + 1 /\ got \in Nat /\ expected' = pos[cAt] + 1
        /\ UNCHANGED <<tail, pos, first>> /\ cAt' = After(cAt) /\ Copying
    BY <1>16, Bounds DEF ReadAdvance, Numbers, Batches, Copying
  <2>2. Dist(tail, cAt) < Capacity /\ Dist(tail, cAt) \in Nat
    BY <2>1, ReadAt, Bounds, DistType DEF Places
  <2>3. Dist(tail, After(cAt)) = Dist(tail, cAt) + 1
    BY <2>2, DistAfter DEF Places
  <2>4. Dist(tail, cAt) + 1 - (got + 1) = Dist(tail, cAt) - got
    BY <2>1, <2>2
  <2>5. pos[cAt] = first + got /\ first \in Int
    BY <2>1, Bounds DEF Returned, Taken, Numbers, Frames
  <2>6. expected' = first + (got + 1)
    BY <2>1, <2>5
  <2>7. ASSUME NEW s \in Ring, Dist(tail, s) < Dist(tail, cAt) + 1,
               Dist(tail, s) >= Dist(tail, cAt) - got
        PROVE  pos[s] = first + Dist(tail, s) - (Dist(tail, cAt) - got)
    <3>1. CASE s = cAt
      BY <2>1, <2>2, <2>5, <3>1
    <3>2. CASE s # cAt
      <4>1. Dist(tail, s) # Dist(tail, cAt) /\ Dist(tail, s) \in Nat
        BY <3>2, Bounds, DistSame, DistType DEF Places
      <4>2. Dist(tail, s) < Dist(tail, cAt)
        BY <2>2, <2>7, <4>1
      <4>3. QED
        BY <2>1, <2>7, <4>2 DEF Taken
    <3>3. QED
      BY <3>1, <3>2
  <2>8. ASSUME NEW s \in Ring, Dist(tail, s) < Dist(tail, After(cAt)),
               Dist(tail, s) >= Dist(tail, After(cAt)) - (got + 1)
        PROVE  pos[s] = first + Dist(tail, s) - (Dist(tail, After(cAt)) - (got + 1))
    BY <2>1, <2>2, <2>3, <2>4, <2>7, <2>8, Bounds, DistType DEF Places
  <2>9. QED
    BY <2>1, <2>6, <2>8 DEF Taken
<1>17. CASE ReadStore
  BY <1>17 DEF ReadStore, Taken, Copying
<1>18. CASE FlushLoad
  BY <1>18 DEF FlushLoad, Taken, Copying
<1>19. CASE FlushStore
  BY <1>19 DEF FlushStore, Taken, Copying
<1>20. CASE ConsumerClose
  BY <1>20 DEF ConsumerClose, Taken, Copying
<1>21. CASE UNCHANGED vars
  BY <1>21 DEF vars, Taken, Copying
<1>22. QED
  BY <1>1, <1>2, <1>3, <1>4, <1>5, <1>6, <1>7, <1>8, <1>9, <1>10, <1>11, <1>12, <1>13, <1>14, <1>15, <1>16, <1>17, <1>18, <1>19, <1>20, <1>21 DEF Next, Producer, Consumer

\* Every step keeps what the read is going to report.
LEMMA ReturnedStep ==
  ASSUME Places, Numbers, Contents, Order, Written, Marks, Taken, Returned, [Next]_vars
  PROVE  Returned'
<1>1. ASSUME NEW n \in Batches, PushCheck(n)
     PROVE  Returned'
  BY <1>1 DEF PushCheck, Returned, Copying, Busy
<1>2. CASE PushLoad
  BY <1>2 DEF PushLoad, Returned, Copying, Busy
<1>3. CASE PushSample
  BY <1>3 DEF PushSample, Returned, Copying, Busy
<1>4. CASE PushPosition
  <2>1. UNCHANGED <<cpc, cAt, cHead, got, first, gap, expected, expectedBefore, cFlush>>
    BY <1>4 DEF PushPosition
  <2>2. cpc \in {"sample", "advance"} \/ (cpc = "frame" /\ cAt # cHead) => pos'[cAt] = pos[cAt]
    BY <1>4, ReadAt, PublishedStays DEF Reading, Places
  <2>3. QED
    BY <2>1, <2>2 DEF Returned, Copying, Busy
<1>5. CASE PushPublish
  BY <1>5 DEF PushPublish, Returned, Copying, Busy
<1>6. ASSUME NEW k \in Batches, Discard(k)
     PROVE  Returned'
  BY <1>6 DEF Discard, Returned, Copying, Busy
<1>7. CASE ProducerFlush
  BY <1>7 DEF ProducerFlush, Returned, Copying, Busy
<1>8. CASE ProducerClose
  BY <1>8 DEF ProducerClose, Returned, Copying, Busy
<1>9. ASSUME NEW n \in Batches, ReadCheck(n)
     PROVE  Returned'
  BY <1>9 DEF ReadCheck, Returned, Copying, Busy
<1>10. CASE ReadLoadHead
  BY <1>10 DEF ReadLoadHead, Returned, Copying, Busy
<1>11. CASE ReadLoadFlush
  BY <1>11 DEF ReadLoadFlush, Marks, Returned, Copying, Busy
<1>12. CASE ReadSkip
  BY <1>12 DEF ReadSkip, Returned, Copying, Busy
<1>13. CASE ReadSkipped
  <2>1. pos[cAt] \in Int /\ cFlush \in Int
    BY Bounds DEF Places, Contents, Numbers, Frames
  <2>2. cAt # cHead => pos[cAt] >= cFlush
    BY <1>13, <2>1 DEF ReadSkipped, Stale
  <2>3. QED
    BY <1>13, <2>2 DEF ReadSkipped, Marks, Returned, Copying, Busy
<1>14. CASE ReadFrame
  <2>1. CASE cWant = 0 \/ cAt = cHead \/ CrossesGap
    BY <1>14, <2>1 DEF ReadFrame, Returned, Copying, Busy
  <2>2. CASE ~ (cWant = 0 \/ cAt = cHead \/ CrossesGap)
    <3>1. CASE got = 0
      BY <1>14, <2>2, <3>1 DEF ReadFrame, Returned, Copying, Busy
    <3>2. CASE got # 0
      BY <1>14, <2>2, <3>2 DEF ReadFrame, CrossesGap, Returned, Copying, Busy
    <3>3. QED
      BY <3>1, <3>2
  <2>3. QED
    BY <2>1, <2>2
<1>15. CASE ReadSample
  BY <1>15 DEF ReadSample, Returned, Copying, Busy
<1>16. CASE ReadAdvance
  <2>1. got' # 0
    BY <1>16, Bounds DEF ReadAdvance, Numbers, Batches
  <2>2. QED
    BY <1>16, <2>1 DEF ReadAdvance, Returned, Copying, Busy
<1>17. CASE ReadStore
  BY <1>17 DEF ReadStore, Returned, Copying, Busy
<1>18. CASE FlushLoad
  BY <1>18 DEF FlushLoad, Returned, Copying, Busy
<1>19. CASE FlushStore
  BY <1>19 DEF FlushStore, Returned, Copying, Busy
<1>20. CASE ConsumerClose
  BY <1>20 DEF ConsumerClose, Returned, Copying, Busy
<1>21. CASE UNCHANGED vars
  BY <1>21 DEF vars, Returned, Copying, Busy
<1>22. QED
  BY <1>1, <1>2, <1>3, <1>4, <1>5, <1>6, <1>7, <1>8, <1>9, <1>10, <1>11, <1>12, <1>13, <1>14, <1>15, <1>16, <1>17, <1>18, <1>19, <1>20, <1>21 DEF Next, Producer, Consumer

-----------------------------------------------------------------------------
(* The invariant, and the ownership of the slots.                          *)

\* The initial states satisfy the inductive invariant.
LEMMA InitInv ==
  ASSUME Init
  PROVE  IInv
<1>1. 0 \in Ring /\ Dist(0, 0) = 0 /\ 1 \in 1 .. Channels /\ 0 \in Frames /\ 0 \in Batches
  BY Bounds, SlotsNat, DistType DEF Frames, Batches
<1>2. Places /\ Numbers /\ Contents
  BY <1>1, Bounds DEF Init, Places, Numbers, Contents, Writing, Copying
<1>3. Order
  BY DEF Init, Order, Writing, Reading
<1>4. \A s \in Ring : Dist(0, s) \in Nat
  BY <1>1, Bounds, DistType
<1>5. Written
  BY <1>1, <1>4 DEF Init, Written, Whole, Dated, Numbered, Pushing, Framing, Writing, Filled
<1>6. Marks /\ Skipped /\ Taken /\ Returned
  BY DEF Init, Marks, Skipped, Taken, Returned, Busy, Copying
<1>7. QED
  BY <1>2, <1>3, <1>5, <1>6 DEF IInv

\* Every step keeps the inductive invariant.
LEMMA NextInv ==
  ASSUME IInv, [Next]_vars
  PROVE  IInv'
<1>1. Places' /\ Contents' /\ Numbers' /\ Order' /\ Written'
  BY PlacesStep, ContentsStep, NumbersStep, OrderStep, WrittenStep DEF IInv
<1>2. Marks' /\ Skipped' /\ Taken' /\ Returned'
  BY MarksStep, SkippedStep, TakenStep, ReturnedStep DEF IInv
<1>3. QED
  BY <1>1, <1>2 DEF IInv

\* Every reachable state satisfies the inductive invariant.
LEMMA Invariance == Spec => []IInv
<1>1. Init => IInv
  BY InitInv
<1>2. IInv /\ [Next]_vars => IInv'
  BY NextInv
<1>3. QED
  BY <1>1, <1>2, PTL DEF Spec

\* The i-th slot from a.
At(a, i) == (a + i - 1) % Slots

\* The slot i - 1 steps after a is at that distance from a.
LEMMA AtIs ==
  ASSUME NEW a \in Ring, NEW i \in 1 .. Slots
  PROVE  At(a, i) \in Ring /\ Dist(a, At(a, i)) = i - 1
<1> DEFINE k == i - 1
<1>1. k \in 0 .. Slots /\ a \in 0 .. Slots - 1 /\ Slots \in Nat \ {0}
  BY SlotsNat
<1>2. (a + k) % Slots = IF a + k >= Slots THEN a + k - Slots ELSE a + k
  BY <1>1, PlusMod
<1>3. a + i - 1 = a + k
  BY <1>1
<1>4. At(a, i) = IF a + k >= Slots THEN a + k - Slots ELSE a + k
  BY <1>2, <1>3 DEF At
<1>5. At(a, i) \in Ring
  BY <1>1, <1>4, SlotsNat
<1>6. Dist(a, At(a, i)) = IF At(a, i) >= a THEN At(a, i) - a ELSE At(a, i) + Slots - a
  BY <1>5, DistIs
<1>7. QED
  BY <1>1, <1>4, <1>5, <1>6

\* A slot of a window is nearer than the window's end.
LEMMA WindowIs ==
  ASSUME NEW a \in Ring, NEW b \in Ring, NEW s \in Window(a, b)
  PROVE  s \in Ring /\ Dist(a, s) < Dist(a, b)
<1>1. PICK k \in 0 .. Dist(a, b) - 1 : s = (a + k) % Slots
  BY DEF Window, Dist
<1>2. k + 1 \in 1 .. Slots /\ k < Dist(a, b) /\ k \in Nat
  <2>1. Dist(a, b) \in Nat /\ Dist(a, b) <= Capacity /\ Slots = Capacity + 1
    BY Bounds, SlotsNat, DistType
  <2>2. QED
    BY <1>1, <2>1, Bounds
<1>3. a + (k + 1) - 1 = a + k
  BY <1>2, SlotsNat
<1>4. s = At(a, k + 1)
  BY <1>1, <1>3 DEF At
<1>5. QED
  BY <1>2, <1>4, AtIs

\* The inductive invariant contains the type invariant.
LEMMA TypeInv == IInv => TypeOK
  BY DEF IInv, Places, Numbers, Contents, TypeOK

\* Every variable keeps its type: no clock passes MaxFrame and no cursor leaves the ring.
THEOREM TypeCorrect == Spec => []TypeOK
  BY Invariance, TypeInv, PTL

\* The producer never writes a slot that is published or still being read, and no frame handed
\* out is torn (queue.rs push, read), whatever the capacity and however the threads interleave.
THEOREM SlotsOwned == Spec => []SlotOwnership
<1>1. ASSUME IInv, ppc \in {"sample", "position"}
      PROVE  pAt \notin Window(tail, head)
  <2>1. Dist(tail, pAt) = Dist(tail, head) + pDone /\ pDone \in Nat /\ Dist(tail, head) \in Nat
    BY <1>1, PushAt DEF IInv, Writing
  <2>2. QED
    BY <1>1, <2>1, WindowIs DEF IInv, Places
<1>2. ASSUME IInv, ppc \in {"sample", "position"}, Reading
      PROVE  pAt \notin Window(cAt, cHead)
  <2>1. /\ Dist(tail, pAt) = Dist(tail, head) + pDone /\ pDone \in Nat /\ Dist(tail, head) \in Nat
        /\ Dist(tail, cAt) <= Dist(tail, cHead) /\ Dist(tail, cHead) <= Dist(tail, head)
        /\ Dist(tail, cAt) \in Nat /\ Dist(tail, cHead) \in Nat
    BY <1>2, PushAt, Bounds, DistType DEF IInv, Writing, Places, Order
  <2>2. /\ Dist(cAt, cHead) = Dist(tail, cHead) - Dist(tail, cAt)
        /\ Dist(cAt, pAt) = Dist(tail, pAt) - Dist(tail, cAt)
    BY <1>2, <2>1, DistRest DEF IInv, Places
  <2>3. ~ (Dist(cAt, pAt) < Dist(cAt, cHead))
    BY <2>1, <2>2
  <2>4. QED
    BY <1>2, <2>3, WindowIs DEF IInv, Places
<1>3. IInv => SlotOwnership
  BY <1>1, <1>2 DEF IInv, Written, Framing, SlotOwnership
<1>4. QED
  BY <1>3, Invariance, PTL

-----------------------------------------------------------------------------
(* The ring implements the queue of numbered frames.                       *)

\* What FrameQueue sees: the published frames, what is expected, and what the last read returned.
Queue == [i \in 1 .. Dist(tail, head) |-> pos[At(tail, i)]]
Expect == IF Busy THEN expectedBefore ELSE expected
Out == IF Busy THEN [first |-> 0, frames |-> -1, gap |-> FALSE]
       ELSE [first |-> first, frames |-> got, gap |-> gap]

\* A function on 1 .. n is a sequence of n elements.
LEMMA Functions ==
  ASSUME NEW S, NEW n \in Nat, NEW f \in [1 .. n -> S]
  PROVE  f \in Seq(S) /\ Len(f) = n
  OBVIOUS

\* The queue holds the frame numbers of the slots from tail to head.
LEMMA QueueIs ==
  ASSUME Places, Contents
  PROVE  /\ Queue \in Seq(Frames) /\ Len(Queue) = Dist(tail, head)
         /\ Dist(tail, head) \in Nat /\ Dist(tail, head) <= Capacity
         /\ \A i \in 1 .. Dist(tail, head) :
              /\ Queue[i] = pos[At(tail, i)]
              /\ At(tail, i) \in Ring /\ Dist(tail, At(tail, i)) = i - 1
<1>1. Dist(tail, head) \in Nat /\ Dist(tail, head) <= Capacity
  BY Bounds, DistType DEF Places
<1>2. \A i \in 1 .. Dist(tail, head) : i \in 1 .. Slots
  BY <1>1, SlotsNat
<1>3. \A i \in 1 .. Dist(tail, head) : At(tail, i) \in Ring /\ Dist(tail, At(tail, i)) = i - 1
  BY <1>2, AtIs DEF Places
<1>4. Queue \in [1 .. Dist(tail, head) -> Frames]
  BY <1>3 DEF Queue, Contents
<1>5. QED
  BY <1>1, <1>3, <1>4, Functions DEF Queue

\* A step that moves no cursor and writes no published slot leaves the queue as it is.
LEMMA QueueStays ==
  ASSUME Places, Contents, head' = head, tail' = tail,
         \A s \in Ring : Dist(tail, s) < Dist(tail, head) => pos'[s] = pos[s]
  PROVE  Queue' = Queue
<1>1. \A i \in 1 .. Dist(tail, head) : pos'[At(tail, i)] = pos[At(tail, i)]
  BY QueueIs
<1>2. QED
  BY <1>1 DEF Queue, Dist, At

\* The frames of a push, published at once, follow those before them.
LEMMA QueueGrows ==
  ASSUME IInv, PushPublish
  PROVE  /\ Queue' = Queue \o [i \in 1 .. pWant |-> nextFrame + i - 1]
         /\ pWant <= Capacity - Len(Queue) /\ nextFrame + pWant <= MaxFrame /\ pWant \in Nat
<1> DEFINE new == [i \in 1 .. pWant |-> nextFrame + i - 1]
<1>1. /\ head' = pAt /\ tail' = tail /\ pos' = pos /\ Writing /\ pDone = pWant
      /\ Places /\ Numbers /\ Contents /\ Order /\ Written
  BY DEF PushPublish, Writing, IInv, Order
<1>2. /\ Dist(tail, pAt) = Dist(tail, head) + pWant /\ pWant \in Nat /\ Dist(tail, head) \in Nat
      /\ Dist(tail, head) + pWant <= Capacity
  BY <1>1, PushAt
<1>3. nextFrame + pWant <= MaxFrame /\ nextFrame \in Nat
  BY <1>1, Bounds DEF Numbers, Frames
<1>4. new \in Seq(Nat) /\ Len(new) = pWant /\ \A i \in 1 .. pWant : new[i] = nextFrame + i - 1
  <2>1. new \in [1 .. pWant -> Nat]
    BY <1>2, <1>3
  <2>2. QED
    BY <1>2, <2>1, Functions
<1> HIDE DEF new
<1>5. Places' /\ Contents'
  BY <1>1, PlacesStep, ContentsStep DEF Next, Producer
<1>6. /\ Queue' \in Seq(Nat) /\ Len(Queue') = Dist(tail, head) + pWant
      /\ \A i \in 1 .. Dist(tail, head) + pWant : /\ Queue'[i] = pos[At(tail, i)]
                                                 /\ At(tail, i) \in Ring
                                                 /\ Dist(tail, At(tail, i)) = i - 1
  <2>1. Queue' = [i \in 1 .. Dist(tail, pAt) |-> pos[At(tail, i)]]
    BY <1>1 DEF Queue, Dist, At
  <2>2. \A i \in 1 .. Dist(tail, pAt) : i \in 1 .. Slots
    BY <1>2, SlotsNat
  <2>3. \A i \in 1 .. Dist(tail, pAt) : At(tail, i) \in Ring /\ Dist(tail, At(tail, i)) = i - 1
    BY <1>1, <2>2, AtIs DEF Places
  <2>4. Queue' \in [1 .. Dist(tail, head) + pWant -> Nat]
    BY <1>1, <1>2, <2>1, <2>3, Bounds DEF Contents, Frames
  <2>5. Queue' \in Seq(Nat) /\ Len(Queue') = Dist(tail, head) + pWant
    BY <1>2, <2>4, Functions
  <2>6. QED
    BY <1>2, <2>1, <2>3, <2>5
<1>7. /\ Queue \in Seq(Nat) /\ Len(Queue) = Dist(tail, head)
      /\ \A i \in 1 .. Dist(tail, head) : Queue[i] = pos[At(tail, i)]
  <2>1. Queue \in [1 .. Dist(tail, head) -> Nat]
    BY <1>1, <1>2, QueueIs, Bounds DEF Queue, Contents, Frames
  <2>2. QED
    BY <1>1, <1>2, <2>1, Functions, QueueIs
<1>8. \A i \in 1 .. Dist(tail, head) + pWant :
        i > Dist(tail, head) => pos[At(tail, i)] = nextFrame + (i - Dist(tail, head)) - 1
  <2>1. ASSUME NEW i \in 1 .. Dist(tail, head) + pWant, i > Dist(tail, head)
        PROVE  pos[At(tail, i)] = nextFrame + (i - Dist(tail, head)) - 1
    <3>1. At(tail, i) \in Ring /\ Dist(tail, At(tail, i)) = i - 1
      BY <1>6
    <3>2. Dist(head, At(tail, i)) = i - 1 - Dist(tail, head)
      BY <1>1, <1>2, <2>1, <3>1, DistRest DEF Places
    <3>3. Dist(head, At(tail, i)) < pDone
      BY <1>1, <1>2, <2>1, <3>2
    <3>4. pos[At(tail, i)] = nextFrame + Dist(head, At(tail, i))
      BY <1>1, <3>1, <3>3 DEF Written, Numbered
    <3>5. QED
      BY <1>2, <1>3, <3>2, <3>4
  <2>2. QED
    BY <2>1
<1>9. /\ Queue \o new \in Seq(Nat) /\ Len(Queue \o new) = Dist(tail, head) + pWant
      /\ \A i \in 1 .. Dist(tail, head) + pWant :
           (Queue \o new)[i] = IF i <= Dist(tail, head) THEN Queue[i] ELSE new[i - Dist(tail, head)]
  <2>1. /\ Queue \o new \in Seq(Nat) /\ Len(Queue \o new) = Len(Queue) + Len(new)
        /\ \A i \in 1 .. Len(Queue) + Len(new) :
             (Queue \o new)[i] = IF i <= Len(Queue) THEN Queue[i] ELSE new[i - Len(Queue)]
    BY <1>4, <1>7, ConcatProperties
  <2>2. QED
    BY <1>4, <1>7, <2>1
<1>10. \A i \in 1 .. Dist(tail, head) + pWant : Queue'[i] = (Queue \o new)[i]
  <2>1. ASSUME NEW i \in 1 .. Dist(tail, head) + pWant
        PROVE  Queue'[i] = (Queue \o new)[i]
    <3>1. CASE i <= Dist(tail, head)
      <4>1. i \in 1 .. Dist(tail, head)
        BY <1>2, <3>1
      <4>2. QED
        BY <1>6, <1>7, <1>9, <3>1, <4>1
    <3>2. CASE ~ (i <= Dist(tail, head))
      <4>1. i - Dist(tail, head) \in 1 .. pWant /\ i > Dist(tail, head)
        BY <1>2, <3>2
      <4>2. new[i - Dist(tail, head)] = nextFrame + (i - Dist(tail, head)) - 1
        BY <1>4, <4>1
      <4>3. QED
        BY <1>6, <1>8, <1>9, <3>2, <4>1, <4>2
    <3>3. QED
      BY <3>1, <3>2, Zenon
  <2>2. QED
    BY <2>1
<1>11. Queue' = Queue \o new
  BY <1>6, <1>9, <1>10, SeqEqual
<1>12. QED
  BY <1>2, <1>3, <1>7, <1>11, Bounds DEF new

\* A tail that moves towards head takes that many frames off the front.
LEMMA QueueShrinks ==
  ASSUME Places, Contents, NEW t \in Ring, Dist(tail, t) <= Dist(tail, head),
         tail' = t, head' = head, pos' = pos
  PROVE  /\ Queue' = SubSeq(Queue, Dist(tail, t) + 1, Len(Queue))
         /\ Dist(tail, t) \in Nat /\ Dist(tail, t) <= Len(Queue)
<1> DEFINE k == Dist(tail, t)
           n == Dist(tail, head)
<1>1. k \in Nat /\ n \in Nat /\ k <= n /\ n <= Capacity /\ Dist(t, head) = n - k
  BY Bounds, DistType, DistRest DEF Places
<1>2. /\ Queue \in Seq(Frames) /\ Len(Queue) = n
      /\ \A i \in 1 .. n : Queue[i] = pos[At(tail, i)] /\ At(tail, i) \in Ring
                           /\ Dist(tail, At(tail, i)) = i - 1
  BY QueueIs
<1>3. Queue' = [i \in 1 .. Dist(t, head) |-> pos[At(t, i)]]
  BY DEF Queue, Dist, At
<1>4. \A i \in 1 .. n - k : i \in 1 .. Slots /\ k + i \in 1 .. n
  BY <1>1, SlotsNat
<1>5. \A i \in 1 .. n - k : At(t, i) \in Ring /\ Dist(t, At(t, i)) = i - 1
  BY <1>4, AtIs
<1>6. ASSUME NEW i \in 1 .. n - k
      PROVE  At(t, i) = At(tail, k + i)
  <2>1. /\ At(tail, k + i) \in Ring /\ Dist(tail, At(tail, k + i)) = (k + i) - 1
    <3>1. k + i \in 1 .. n
      BY <1>4
    <3>2. \A j \in 1 .. n : At(tail, j) \in Ring /\ Dist(tail, At(tail, j)) = j - 1
      BY <1>2
    <3>3. QED
      BY <3>1, <3>2, Zenon
  <2>2. Dist(t, At(tail, k + i)) = i - 1
    BY <1>1, <2>1, DistRest DEF Places
  <2>3. QED
    BY <1>5, <2>1, <2>2, DistSame
<1>7. Queue' \in Seq(Frames) /\ Len(Queue') = n - k
  <2>1. Queue' \in [1 .. n - k -> Frames]
    BY <1>1, <1>3, <1>5 DEF Contents
  <2>2. QED
    BY <1>1, <2>1, Functions
<1>8. \A i \in 1 .. n - k : Queue'[i] = Queue[k + i]
  BY <1>1, <1>2, <1>3, <1>4, <1>6
<1>9. /\ SubSeq(Queue, k + 1, n) \in Seq(Frames) /\ Len(SubSeq(Queue, k + 1, n)) = n - k
      /\ \A i \in 1 .. n - k : SubSeq(Queue, k + 1, n)[i] = Queue[k + i]
  <2>1. \A i \in k + 1 .. n : Queue[i] \in Frames
    BY <1>1, <1>2 DEF Contents
  <2>2. /\ SubSeq(Queue, k + 1, n) \in Seq(Frames)
        /\ Len(SubSeq(Queue, k + 1, n)) = IF k + 1 <= n THEN n - (k + 1) + 1 ELSE 0
        /\ \A i \in 1 .. n - (k + 1) + 1 : SubSeq(Queue, k + 1, n)[i] = Queue[(k + 1) + i - 1]
    BY <1>1, <2>1, SubSeqProperties
  <2>3. \A i \in 1 .. n - k : (k + 1) + i - 1 = k + i /\ i \in 1 .. n - (k + 1) + 1
    BY <1>1
  <2>4. QED
    BY <1>1, <2>2, <2>3
<1>10. Queue' = SubSeq(Queue, k + 1, n)
  BY <1>1, <1>7, <1>8, <1>9, SeqEqual
<1>11. QED
  BY <1>1, <1>2, <1>10

\* The steps of FrameQueue, in terms of what it sees of the ring.
LEMMA AbstractPush ==
  ASSUME NEW n \in 1 .. Capacity, n <= Capacity - Len(Queue), nextFrame + n <= MaxFrame,
         Queue' = Queue \o [i \in 1 .. n |-> nextFrame + i - 1], nextFrame' = nextFrame + n,
         Expect' = Expect, Out' = Out, flushBefore' = flushBefore, flushOwed' = flushOwed,
         closed' = closed
  PROVE  Abstract!Next
<1>1. Abstract!Push(n)
  BY Zenon DEF Abstract!Push, Queue, Expect, Out, Dist, At
<1>2. QED
  BY <1>1 DEF Abstract!Next

\* Frames of the host that were lost.
LEMMA AbstractDiscard ==
  ASSUME NEW k \in 1 .. MaxFrame, ~ closed, nextFrame + k <= MaxFrame,
         nextFrame' = nextFrame + k, Queue' = Queue, Expect' = Expect, Out' = Out,
         flushBefore' = flushBefore, flushOwed' = flushOwed, closed' = closed
  PROVE  Abstract!Next
<1>1. Abstract!Discard(k)
  BY Zenon DEF Abstract!Discard, Queue, Expect, Out, Dist, At
<1>2. QED
  BY <1>1 DEF Abstract!Next

\* A flush by the producer.
LEMMA AbstractFlush ==
  ASSUME ~ closed, flushBefore' = nextFrame, nextFrame' = nextFrame,
         Queue' = Queue, Expect' = Expect, Out' = Out, flushOwed' = flushOwed, closed' = closed
  PROVE  Abstract!Next
<1>1. Abstract!Flush
  BY Zenon DEF Abstract!Flush, Queue, Expect, Out, Dist, At
<1>2. QED
  BY <1>1 DEF Abstract!Next

NoReadYet == [first |-> 0, frames |-> -1, gap |-> FALSE]

\* A read begins.
LEMMA AbstractCall ==
  ASSUME ~ closed, Out # NoReadYet, Out' = NoReadYet, flushOwed' = flushBefore,
         Queue' = Queue, Expect' = Expect, nextFrame' = nextFrame, flushBefore' = flushBefore,
         closed' = closed
  PROVE  Abstract!Next
<1>1. Abstract!Call
  BY Zenon DEF Abstract!Call, Abstract!NoRead, NoReadYet, Queue, Expect, Out, Dist, At
<1>2. QED
  BY <1>1 DEF Abstract!Next

\* A read returns n frames after skipping s.
LEMMA AbstractReturn ==
  ASSUME NEW s \in 0 .. Capacity, NEW n \in 0 .. Capacity,
         Out = NoReadYet, s + n <= Len(Queue),
         \A i \in 1 .. s : Queue[i] < flushBefore,
         \A i \in 1 .. n : Queue[s + i] = Queue[s + 1] + i - 1,
         n > 0 => Queue[s + 1] >= flushOwed,
         Out' = IF n = 0 THEN [first |-> Expect, frames |-> 0, gap |-> FALSE]
                ELSE [first |-> Queue[s + 1], frames |-> n, gap |-> Queue[s + 1] # Expect],
         Expect' = IF n = 0 THEN Expect ELSE Queue[s + n] + 1,
         Queue' = SubSeq(Queue, s + n + 1, Len(Queue)),
         nextFrame' = nextFrame, flushBefore' = flushBefore, flushOwed' = flushOwed,
         closed' = closed
  PROVE  Abstract!Next
<1>1. Abstract!Return(s, n)
  BY Zenon DEF Abstract!Return, Abstract!NoRead, NoReadYet, Queue, Expect, Out, Dist, At
<1>2. QED
  BY <1>1 DEF Abstract!Next

\* A flush by the consumer.
LEMMA AbstractDrop ==
  ASSUME NEW k \in 1 .. Capacity, k <= Len(Queue), Queue' = SubSeq(Queue, k + 1, Len(Queue)),
         Expect' = Expect, Out' = Out, nextFrame' = nextFrame, flushBefore' = flushBefore,
         flushOwed' = flushOwed, closed' = closed
  PROVE  Abstract!Next
<1>1. Abstract!Drop(k)
  BY Zenon DEF Abstract!Drop, Queue, Expect, Out, Dist, At
<1>2. QED
  BY <1>1 DEF Abstract!Next

\* Either owner closes the queue.
LEMMA AbstractClose ==
  ASSUME closed' = TRUE, Queue' = Queue, Expect' = Expect, Out' = Out, nextFrame' = nextFrame,
         flushBefore' = flushBefore, flushOwed' = flushOwed
  PROVE  Abstract!Next
<1>1. Abstract!Close
  BY Zenon DEF Abstract!Close, Queue, Expect, Out, Dist, At
<1>2. QED
  BY <1>1 DEF Abstract!Next

\* What FrameQueue does not see is a stutter of it.
LEMMA AbstractStutter ==
  ASSUME Queue' = Queue, Expect' = Expect, Out' = Out, nextFrame' = nextFrame,
         flushBefore' = flushBefore, flushOwed' = flushOwed, closed' = closed
  PROVE  UNCHANGED Abstract!vars
  BY Zenon DEF Abstract!vars, Queue, Expect, Out, Dist, At

\* A read that returns: the slots it skipped were flushed, and those it took are one run of
\* frame numbers, none from before the flush that had returned when the read was called.
LEMMA ReadReturns ==
  ASSUME IInv, ReadStore
  PROVE  Abstract!Next
<1> DEFINE s == Dist(tail, cAt) - got
<1>1. /\ Places /\ Numbers /\ Contents /\ Order /\ Marks /\ Skipped /\ Taken /\ Returned
      /\ Copying /\ Reading /\ Busy /\ cpc = "store"
  BY DEF IInv, ReadStore, Copying, Reading, Busy
<1>2. /\ tail' = cAt /\ head' = head /\ pos' = pos /\ cpc' = "idle" /\ closed' = closed
      /\ nextFrame' = nextFrame /\ flushBefore' = flushBefore /\ flushOwed' = flushOwed
      /\ expected' = expected /\ expectedBefore' = expectedBefore
      /\ first' = first /\ got' = got /\ gap' = gap
  BY DEF ReadStore
<1>3. /\ Dist(tail, cAt) \in Nat /\ Dist(tail, head) \in Nat /\ Dist(tail, cAt) <= Dist(tail, head)
      /\ Dist(tail, head) <= Capacity /\ got \in Nat /\ got <= Dist(tail, cAt) /\ cAt \in Ring
      /\ Capacity \in Nat
  BY <1>1, Bounds, DistType DEF Places, Order, Numbers, Batches, Skipped
<1>4. s \in 0 .. Capacity /\ got \in 0 .. Capacity /\ s + got = Dist(tail, cAt)
  BY <1>3
<1>5. /\ Queue' = SubSeq(Queue, Dist(tail, cAt) + 1, Len(Queue))
      /\ Dist(tail, cAt) <= Len(Queue)
  BY <1>1, <1>2, <1>3, QueueShrinks
<1>6. \A i \in 1 .. Dist(tail, head) :
        Queue[i] = pos[At(tail, i)] /\ At(tail, i) \in Ring /\ Dist(tail, At(tail, i)) = i - 1
        /\ pos[At(tail, i)] \in Nat
  BY <1>1, QueueIs, Bounds DEF Contents, Frames
<1>7. /\ Expect = expectedBefore /\ Expect' = expected
      /\ Out = NoReadYet /\ Out' = [first |-> first, frames |-> got, gap |-> gap]
  BY <1>1, <1>2 DEF Expect, Out, NoReadYet, Busy
<1>8. /\ expected \in Nat /\ first \in Nat /\ expectedBefore \in Nat /\ cFlush \in Nat
      /\ flushBefore \in Nat /\ flushOwed \in Nat /\ cFlush <= flushBefore /\ flushOwed <= cFlush
  BY <1>1, Bounds DEF Numbers, Frames, Marks
<1>9. \A i \in 1 .. s : Queue[i] < flushBefore
  <2>1. ASSUME NEW i \in 1 .. s
        PROVE  Queue[i] < flushBefore
    <3>1. i \in 1 .. Dist(tail, head) /\ i - 1 < Dist(tail, cAt) - got
      BY <1>3, <1>4
    <3>2. pos[At(tail, i)] < cFlush
      BY <1>1, <1>6, <3>1 DEF Skipped
    <3>3. QED
      BY <1>6, <1>8, <3>1, <3>2
  <2>2. QED
    BY <2>1
<1>10. \A i \in 1 .. got : Queue[s + i] = first + i - 1
  <2>1. ASSUME NEW i \in 1 .. got
        PROVE  Queue[s + i] = first + i - 1
    <3>1. /\ s + i \in 1 .. Dist(tail, head) /\ s \in Nat /\ i \in Nat
          /\ (s + i) - 1 < Dist(tail, cAt) /\ (s + i) - 1 >= Dist(tail, cAt) - got
          /\ (s + i) - 1 - (Dist(tail, cAt) - got) = i - 1
      BY <1>3, <1>4
    <3>2. /\ Queue[s + i] = pos[At(tail, s + i)] /\ At(tail, s + i) \in Ring
          /\ Dist(tail, At(tail, s + i)) = (s + i) - 1
      BY <1>6, <3>1
    <3>3. pos[At(tail, s + i)] = first + ((s + i) - 1) - (Dist(tail, cAt) - got)
      BY <1>1, <3>1, <3>2 DEF Taken
    <3>4. QED
      BY <1>3, <1>8, <3>1, <3>2, <3>3
  <2>2. QED
    BY <2>1
<1> HIDE DEF s
<1>11. CASE got = 0
  <2>1. first = expected /\ gap = FALSE /\ expected = expectedBefore
    BY <1>1, <1>11 DEF Returned
  <2>2. /\ 0 \in 0 .. Capacity /\ s \in 0 .. Capacity /\ s + 0 = s /\ s = Dist(tail, cAt)
        /\ 1 .. 0 = {}
    BY <1>3, <1>4, <1>11
  <2>3. \A i \in 1 .. 0 : Queue[s + i] = Queue[s + 1] + i - 1
    BY <2>2
  <2>4. Queue' = SubSeq(Queue, s + 0 + 1, Len(Queue)) /\ s + 0 <= Len(Queue)
    BY <1>5, <2>2
  <2>5. Expect' = Expect /\ Out' = [first |-> Expect, frames |-> 0, gap |-> FALSE]
    BY <1>7, <1>11, <2>1
  <2>6. /\ Out' = IF 0 = 0 THEN [first |-> Expect, frames |-> 0, gap |-> FALSE]
                 ELSE [first |-> Queue[s + 1], frames |-> 0, gap |-> Queue[s + 1] # Expect]
        /\ Expect' = IF 0 = 0 THEN Expect ELSE Queue[s + 0] + 1
        /\ 0 > 0 => Queue[s + 1] >= flushOwed
    BY <2>5
  <2>7. QED
    BY <1>2, <1>7, <1>9, <2>2, <2>3, <2>4, <2>6, AbstractReturn, Zenon
<1>12. CASE got # 0
  <2>1. got > 0 /\ 1 \in 1 .. got /\ got \in 1 .. got /\ s \in Nat
    BY <1>3, <1>4, <1>12
  <2>2. Queue[s + 1] = first /\ Queue[s + got] = first + got - 1
    BY <1>3, <1>8, <1>10, <2>1
  <2>3. first >= cFlush /\ gap = (first # expectedBefore) /\ expected = first + got
    BY <1>1, <1>12 DEF Returned, Taken
  <2>4. Queue[s + 1] >= flushOwed /\ expected = Queue[s + got] + 1
    BY <1>3, <1>8, <2>2, <2>3
  <2>5. gap = (Queue[s + 1] # Expect)
    BY <1>7, <2>2, <2>3, Zenon
  <2>6. /\ \A i \in 1 .. got : Queue[s + i] = Queue[s + 1] + i - 1
        /\ Queue' = SubSeq(Queue, s + got + 1, Len(Queue)) /\ s + got <= Len(Queue)
    BY <1>4, <1>5, <1>10, <2>2
  <2>7. Out' = [first |-> Queue[s + 1], frames |-> got, gap |-> Queue[s + 1] # Expect]
    BY <1>7, <2>2, <2>5
  <2>8. QED
    BY <1>2, <1>4, <1>7, <1>9, <1>12, <2>4, <2>6, <2>7, AbstractReturn
<1>13. QED
  BY <1>11, <1>12

\* A consumer's flush drops what was published when it began.
LEMMA FlushDrops ==
  ASSUME IInv, FlushStore
  PROVE  Abstract!Next \/ UNCHANGED Abstract!vars
<1>1. Places /\ Contents /\ Order /\ cpc = "flush" /\ cHead \in Ring
  BY DEF IInv, FlushStore, Places
<1>2. /\ tail' = cHead /\ head' = head /\ pos' = pos /\ closed' = closed
      /\ nextFrame' = nextFrame /\ flushBefore' = flushBefore /\ flushOwed' = flushOwed
      /\ Expect' = Expect /\ Out' = Out
  BY DEF FlushStore, Expect, Out, Busy
<1>3. /\ Dist(tail, cHead) \in Nat /\ Dist(tail, cHead) <= Dist(tail, head)
      /\ Dist(tail, cHead) <= Capacity /\ Capacity \in Nat
  BY <1>1, Bounds, DistType DEF Places, Order
<1>4. /\ Queue' = SubSeq(Queue, Dist(tail, cHead) + 1, Len(Queue))
      /\ Dist(tail, cHead) <= Len(Queue)
  BY <1>1, <1>2, <1>3, QueueShrinks
<1>5. CASE Dist(tail, cHead) = 0
  <2>1. cHead = tail
    BY <1>1, <1>5, DistType DEF Places
  <2>2. Queue' = Queue
    BY <1>1, <1>2, <2>1, QueueStays
  <2>3. QED
    BY <1>2, <2>2, AbstractStutter
<1>6. CASE Dist(tail, cHead) # 0
  <2>1. Dist(tail, cHead) \in 1 .. Capacity
    BY <1>3, <1>6
  <2>2. QED
    BY <1>2, <1>4, <2>1, AbstractDrop
<1>7. QED
  BY <1>5, <1>6

\* A publication adds the whole push; one that accepted nothing changes nothing.
LEMMA PublishPushes ==
  ASSUME IInv, PushPublish
  PROVE  Abstract!Next \/ UNCHANGED Abstract!vars
<1>1. /\ nextFrame' = nextFrame + pWant /\ closed' = closed
      /\ flushBefore' = flushBefore /\ flushOwed' = flushOwed
      /\ Expect' = Expect /\ Out' = Out
  BY DEF PushPublish, Expect, Out, Busy
<1>2. /\ Queue' = Queue \o [i \in 1 .. pWant |-> nextFrame + i - 1]
      /\ pWant <= Capacity - Len(Queue) /\ nextFrame + pWant <= MaxFrame /\ pWant \in Nat
  BY QueueGrows
<1>3. /\ Len(Queue) \in Nat /\ Queue \in Seq(Frames) /\ nextFrame \in Nat /\ Capacity \in Nat
  BY QueueIs, Bounds DEF IInv, Numbers, Frames
<1>4. CASE pWant = 0
  <2>1. nextFrame' = nextFrame
    BY <1>1, <1>3, <1>4
  <2>2. Queue' = Queue
    <3>1. pAt = head
      BY <1>4, DistType DEF IInv, Order, PushPublish, Writing, Places
    <3>2. QED
      BY <3>1, QueueStays DEF PushPublish, IInv
  <2>3. QED
    BY <1>1, <2>1, <2>2, AbstractStutter
<1>5. CASE pWant # 0
  <2>1. pWant \in 1 .. Capacity
    BY <1>2, <1>3, <1>5
  <2>2. QED
    BY <1>1, <1>2, <2>1, AbstractPush
<1>6. QED
  BY <1>4, <1>5

\* The accesses in between change nothing FrameQueue sees.
LEMMA InBetween ==
  ASSUME IInv,
         \/ \E n \in Batches : PushCheck(n)
         \/ PushLoad \/ PushSample \/ PushPosition
         \/ ReadLoadHead \/ ReadLoadFlush \/ ReadSkip \/ ReadSkipped
         \/ ReadFrame \/ ReadSample \/ ReadAdvance \/ FlushLoad \/ UNCHANGED vars
  PROVE  UNCHANGED Abstract!vars
<1>1. /\ head' = head /\ tail' = tail /\ closed' = closed /\ nextFrame' = nextFrame
      /\ flushBefore' = flushBefore /\ flushOwed' = flushOwed /\ expectedBefore' = expectedBefore
  BY DEF PushCheck, PushLoad, PushSample, PushPosition, ReadLoadHead, ReadLoadFlush, ReadSkip,
         ReadSkipped, ReadFrame, ReadSample, ReadAdvance, FlushLoad, vars
<1>2. Busy' = Busy /\ (~ Busy => expected' = expected /\ first' = first /\ got' = got /\ gap' = gap)
  BY DEF PushCheck, PushLoad, PushSample, PushPosition, ReadLoadHead, ReadLoadFlush, ReadSkip,
         ReadSkipped, ReadFrame, ReadSample, ReadAdvance, FlushLoad, vars, Busy
<1>3. \A s \in Ring : Dist(tail, s) < Dist(tail, head) => pos'[s] = pos[s]
  <2>1. CASE PushPosition
    BY <2>1, PublishedStays DEF IInv, PushPosition, Written
  <2>2. CASE pos' = pos
    BY <2>2
  <2>3. QED
    BY <2>1, <2>2 DEF PushCheck, PushLoad, PushSample, ReadLoadHead, ReadLoadFlush, ReadSkip,
         ReadSkipped, ReadFrame, ReadSample, ReadAdvance, FlushLoad, vars
<1>4. Queue' = Queue
  BY <1>1, <1>3, QueueStays DEF IInv
<1>5. Expect' = Expect /\ Out' = Out
  BY <1>1, <1>2 DEF Expect, Out
<1>6. QED
  BY <1>1, <1>4, <1>5, AbstractStutter

\* The rest are one step of FrameQueue each.
LEMMA OneStep ==
  ASSUME IInv,
         \/ \E k \in Batches : Discard(k)
         \/ ProducerFlush \/ ProducerClose \/ ConsumerClose
         \/ \E n \in Batches : ReadCheck(n)
  PROVE  Abstract!Next \/ UNCHANGED Abstract!vars
<1>1. /\ head' = head /\ tail' = tail /\ pos' = pos
  BY DEF Discard, ProducerFlush, ProducerClose, ConsumerClose, ReadCheck
<1>2. Queue' = Queue
  BY <1>1, QueueStays DEF IInv
<1>3. ASSUME NEW k \in Batches, Discard(k)
      PROVE  Abstract!Next \/ UNCHANGED Abstract!vars
  <2>1. /\ nextFrame' = nextFrame + k /\ nextFrame + k <= MaxFrame /\ ~ closed
        /\ Expect' = Expect /\ Out' = Out /\ flushBefore' = flushBefore
        /\ flushOwed' = flushOwed /\ closed' = closed
    BY <1>3 DEF Discard, Expect, Out, Busy
  <2>2. nextFrame \in Nat /\ k \in Nat /\ MaxFrame \in Nat
    BY Bounds DEF IInv, Numbers, Frames, Batches
  <2>3. CASE k = 0
    <3>1. nextFrame' = nextFrame
      BY <2>1, <2>2, <2>3
    <3>2. QED
      BY <1>2, <2>1, <3>1, AbstractStutter
  <2>4. CASE k # 0
    <3>1. k \in 1 .. MaxFrame
      BY <2>1, <2>2, <2>4
    <3>2. QED
      BY <1>2, <2>1, <3>1, AbstractDiscard
  <2>5. QED
    BY <2>3, <2>4
<1>4. CASE ProducerFlush
  <2>1. /\ ~ closed /\ flushBefore' = nextFrame /\ nextFrame' = nextFrame
        /\ Expect' = Expect /\ Out' = Out /\ flushOwed' = flushOwed /\ closed' = closed
    BY <1>4 DEF ProducerFlush, Expect, Out, Busy
  <2>2. QED
    BY <1>2, <2>1, AbstractFlush
<1>5. CASE ProducerClose \/ ConsumerClose
  <2>1. /\ closed' = TRUE /\ nextFrame' = nextFrame /\ flushBefore' = flushBefore
        /\ Expect' = Expect /\ Out' = Out /\ flushOwed' = flushOwed
    BY <1>5 DEF ProducerClose, ConsumerClose, Expect, Out, Busy
  <2>2. QED
    BY <1>2, <2>1, AbstractClose
<1>6. ASSUME NEW n \in Batches, ReadCheck(n)
      PROVE  Abstract!Next
  <2>1. /\ ~ closed /\ flushOwed' = flushBefore /\ nextFrame' = nextFrame
        /\ flushBefore' = flushBefore /\ closed' = closed /\ Expect' = Expect
        /\ Out' = NoReadYet
    BY <1>6 DEF ReadCheck, Expect, Out, Busy, NoReadYet
  <2>2. Out # NoReadYet
    <3>1. Out = [first |-> first, frames |-> got, gap |-> gap] /\ got \in Nat
      BY <1>6, Bounds DEF ReadCheck, Out, Busy, IInv, Numbers, Batches
    <3>2. got # -1
      BY <3>1
    <3>3. QED
      BY <3>1, <3>2 DEF NoReadYet
  <2>3. QED
    BY <1>2, <2>1, <2>2, AbstractCall
<1>7. QED
  BY <1>3, <1>4, <1>5, <1>6

\* Every behaviour of the ring is one of the queue of numbered frames (queue.rs
\* PcmProducer, PcmConsumer): frames are delivered once, in order and in contiguous segments,
\* every loss surfaces as a gap, and no frame from before a finished flush is delivered.
THEOREM Refinement == Spec => ImplementsQueue
<1>1. Init => Abstract!Init
  <2> SUFFICES ASSUME Init
               PROVE  Abstract!Init
    OBVIOUS
  <2>1. IInv /\ head = tail
    BY InitInv DEF Init
  <2>2. Queue = << >>
    <3>1. Len(Queue) = 0 /\ Queue \in Seq(Frames)
      BY <2>1, QueueIs, DistType DEF IInv, Places
    <3>2. QED
      BY <3>1
  <2>3. Expect = 0 /\ Out = [first |-> 0, frames |-> 0, gap |-> FALSE]
    BY DEF Init, Expect, Out, Busy
  <2>4. nextFrame = 0 /\ flushBefore = 0 /\ flushOwed = 0 /\ closed = FALSE
    BY DEF Init
  <2>5. QED
    BY <2>2, <2>3, <2>4, Zenon DEF Abstract!Init, Queue, Expect, Out, Dist, At
<1>2. IInv /\ [Next]_vars => [Abstract!Next]_(Abstract!vars)
  <2> SUFFICES ASSUME IInv, [Next]_vars
               PROVE  Abstract!Next \/ UNCHANGED Abstract!vars
    OBVIOUS
  <2>1. CASE UNCHANGED vars
    BY <2>1, InBetween
  <2>2. CASE Producer
    BY <2>2, InBetween, OneStep, PublishPushes DEF Producer
  <2>3. CASE Consumer
    BY <2>3, InBetween, OneStep, ReadReturns, FlushDrops DEF Consumer
  <2>4. QED
    BY <2>1, <2>2, <2>3 DEF Next
<1>3. QED
  BY <1>1, <1>2, Invariance, PTL DEF Spec, ImplementsQueue, Abstract!Spec
=============================================================================
