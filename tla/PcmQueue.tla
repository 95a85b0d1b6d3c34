------------------------------ MODULE PcmQueue ------------------------------
(***************************************************************************)
(* The lock-free PCM queue between an audio callback and its worker:       *)
(* gr_audio_contract::queue.                                               *)
(*                                                                         *)
(* One producer and one consumer share a ring of Capacity + 1 slots, two   *)
(* cursors, a flush mark and a closed flag.  Every atomic load and store   *)
(* of a cursor, of the flush mark, of a position and of a channel's sample *)
(* is a step of its own, so the threads interleave between any two of      *)
(* them.  Each cursor has one writer that releases it and one reader that  *)
(* acquires it: a stale load is a load taken earlier, and the relaxed      *)
(* accesses to a slot are ordered by the cursor that hands the slot over.  *)
(*                                                                         *)
(* A sample is abstracted to the number of the frame it belongs to.        *)
(***************************************************************************)
EXTENDS Integers, Sequences

CONSTANTS
  Capacity,  \* pcm_queue's capacity, in frames
  Channels,  \* samples of a frame
  MaxFrame,  \* last frame number (u64::MAX); the bound on the clock in a run
  MaxBatch   \* bound: frames offered to push, or asked of read, by one call

ASSUME QueueAssumption ==
  /\ Capacity \in 1 .. 65536
  /\ Channels \in Nat \ {0}
  /\ MaxFrame \in Nat /\ MaxBatch \in Nat

Slots == Capacity + 1
Ring == 0 .. Slots - 1

VARIABLES
  \* Shared.
  sample, pos, head, tail, closed, flushBefore,
  \* The producer: its place in a call, next_frame and the locals of push.
  ppc, nextFrame, pWant, pAt, pDone, pChannel,
  \* The consumer: its place in a call, expected_frame and the locals of read.
  cpc, expected, cWant, cAt, cHead, cFlush, cChannel, got, first, gap,
  \* History: the samples of the frame being read, and at the start of the current read the
  \* flush mark and expected_frame.
  frame, flushOwed, expectedBefore

sharedVars == <<sample, pos, head, tail, closed, flushBefore>>
prodVars == <<ppc, nextFrame, pWant, pAt, pDone, pChannel>>
consVars == <<cpc, expected, cWant, cAt, cHead, cFlush, cChannel, got, first, gap>>
histVars == <<frame, flushOwed, expectedBefore>>
vars == <<sharedVars, prodVars, consVars, histVars>>

\* Definitions named Faulty... are defects that test the properties.
After(i) == (i + 1) % Slots
\* The slots from cursor a up to, not including, cursor b.
Window(a, b) == {(a + k) % Slots : k \in 0 .. ((b + Slots - a) % Slots) - 1}

Init ==
  /\ sample = [s \in Ring |-> [c \in 1 .. Channels |-> 0]]
  /\ pos = [s \in Ring |-> 0]
  /\ head = 0 /\ tail = 0 /\ closed = FALSE /\ flushBefore = 0
  /\ ppc = "idle" /\ nextFrame = 0 /\ pWant = 0 /\ pAt = 0 /\ pDone = 0 /\ pChannel = 1
  /\ cpc = "idle" /\ expected = 0 /\ cWant = 0 /\ cAt = 0 /\ cHead = 0 /\ cFlush = 0
  /\ cChannel = 1 /\ got = 0 /\ first = 0 /\ gap = FALSE
  /\ frame = [c \in 1 .. Channels |-> 0]
  /\ flushOwed = 0 /\ expectedBefore = 0

-----------------------------------------------------------------------------
(* Producer.                                                               *)

\* push: the closed flag is checked before the cursors are loaded.
PushCheck(n) ==
  /\ ppc = "idle" /\ ~closed
  /\ ppc' = "load" /\ pWant' = n
  /\ UNCHANGED <<nextFrame, pAt, pDone, pChannel, sharedVars, consVars, histVars>>

\* One slot always stays empty, so that a full ring differs from an empty one.
FaultyAvailable == 1 + ((tail + Slots - head - 1) % Slots)
Available == (tail + Slots - head - 1) % Slots

Accepted == IF Available <= pWant THEN Available ELSE pWant

\* The prefix that fits; a frame clock that would overflow refuses the whole push.
PushLoad ==
  /\ ppc = "load"
  /\ IF nextFrame + Accepted > MaxFrame
     THEN ppc' = "idle" /\ UNCHANGED <<pWant, pAt, pDone, pChannel>>
     ELSE /\ pWant' = Accepted /\ pAt' = head /\ pDone' = 0 /\ pChannel' = 1
          /\ ppc' = IF Accepted = 0 THEN "publish" ELSE "sample"
  /\ UNCHANGED <<nextFrame, sharedVars, consVars, histVars>>

PushSample ==
  /\ ppc = "sample"
  /\ sample' = [sample EXCEPT ![pAt][pChannel] = nextFrame + pDone]
  /\ IF pChannel = Channels
     THEN ppc' = "position" /\ pChannel' = 1
     ELSE UNCHANGED ppc /\ pChannel' = pChannel + 1
  /\ UNCHANGED <<pos, head, tail, closed, flushBefore, nextFrame, pWant, pAt, pDone, consVars,
                 histVars>>

PushPosition ==
  /\ ppc = "position"
  /\ pos' = [pos EXCEPT ![pAt] = nextFrame + pDone]
  /\ pAt' = After(pAt)
  /\ pDone' = pDone + 1
  /\ ppc' = IF pDone' = pWant THEN "publish" ELSE "sample"
  /\ UNCHANGED <<sample, head, tail, closed, flushBefore, nextFrame, pWant, pChannel, consVars,
                 histVars>>

PushPublish ==
  /\ ppc = "publish"
  /\ nextFrame' = nextFrame + pWant
  /\ head' = pAt
  /\ ppc' = "idle"
  /\ UNCHANGED <<sample, pos, tail, closed, flushBefore, pWant, pAt, pDone, pChannel, consVars,
                 histVars>>

\* discard: frames of the host that were lost advance the clock.
Discard(k) ==
  /\ ppc = "idle" /\ ~closed
  /\ nextFrame + k <= MaxFrame
  /\ nextFrame' = nextFrame + k
  /\ UNCHANGED <<ppc, pWant, pAt, pDone, pChannel, sharedVars, consVars, histVars>>

\* flush by the producer only leaves a mark; the cursor stays the consumer's.
ProducerFlush ==
  /\ ppc = "idle" /\ ~closed
  /\ flushBefore' = nextFrame
  /\ UNCHANGED <<sample, pos, head, tail, closed, prodVars, consVars, histVars>>

\* close or Drop of the producer.
ProducerClose ==
  /\ ppc = "idle" /\ ~closed
  /\ closed' = TRUE
  /\ UNCHANGED <<sample, pos, head, tail, flushBefore, prodVars, consVars, histVars>>

-----------------------------------------------------------------------------
(* Consumer.                                                               *)

\* read, with a destination of n frames.
ReadCheck(n) ==
  /\ cpc = "idle" /\ ~closed
  /\ cpc' = "load_head" /\ cWant' = n
  /\ flushOwed' = flushBefore
  /\ expectedBefore' = expected
  /\ UNCHANGED <<expected, cAt, cHead, cFlush, cChannel, got, first, gap, sharedVars, prodVars,
                 frame>>

ReadLoadHead ==
  /\ cpc = "load_head"
  /\ cAt' = tail /\ cHead' = head
  /\ cpc' = "load_flush"
  /\ UNCHANGED <<expected, cWant, cFlush, cChannel, got, first, gap, sharedVars, prodVars,
                 histVars>>

ReadLoadFlush ==
  /\ cpc = "load_flush"
  /\ cFlush' = flushBefore
  /\ got' = 0 /\ first' = expected /\ gap' = FALSE
  /\ cpc' = "skip"
  /\ UNCHANGED <<expected, cWant, cAt, cHead, cChannel, sharedVars, prodVars, histVars>>

FaultyStale == cAt # cHead /\ pos[cAt] + 1 < cFlush
Stale == cAt # cHead /\ pos[cAt] < cFlush

ReadSkip ==
  /\ cpc = "skip" /\ Stale
  /\ cAt' = After(cAt)
  /\ UNCHANGED <<cpc, expected, cWant, cHead, cFlush, cChannel, got, first, gap, sharedVars,
                 prodVars, histVars>>

ReadSkipped ==
  /\ cpc = "skip" /\ ~Stale
  /\ cpc' = "frame"
  /\ UNCHANGED <<expected, cWant, cAt, cHead, cFlush, cChannel, got, first, gap, sharedVars,
                 prodVars, histVars>>

\* The next frame does not continue this segment.
CrossesGap == got # 0 /\ pos[cAt] # expected

\* Top of the copy loop: stop at the end of the destination, of the queue or of the segment.
ReadFrame ==
  /\ cpc = "frame"
  /\ IF cWant = 0 \/ cAt = cHead \/ CrossesGap
     THEN cpc' = "store" /\ UNCHANGED <<first, gap>>
     ELSE /\ cpc' = "sample"
          /\ first' = IF got = 0 THEN pos[cAt] ELSE first
          /\ gap' = IF got = 0 THEN pos[cAt] # expected ELSE gap
  /\ UNCHANGED <<expected, cWant, cAt, cHead, cFlush, cChannel, got, sharedVars, prodVars,
                 histVars>>

ReadSample ==
  /\ cpc = "sample"
  /\ frame' = [frame EXCEPT ![cChannel] = sample[cAt][cChannel]]
  /\ IF cChannel = Channels
     THEN /\ cpc' = "advance" /\ cChannel' = 1
     ELSE /\ UNCHANGED cpc /\ cChannel' = cChannel + 1
  /\ UNCHANGED <<expected, cWant, cAt, cHead, cFlush, got, first, gap, sharedVars, prodVars,
                 flushOwed, expectedBefore>>

ReadAdvance ==
  /\ cpc = "advance"
  /\ expected' = pos[cAt] + 1
  /\ got' = got + 1 /\ cWant' = cWant - 1
  /\ cAt' = After(cAt)
  /\ cpc' = "frame"
  /\ UNCHANGED <<cHead, cFlush, cChannel, first, gap, sharedVars, prodVars, histVars>>

\* The slots are handed back and PcmRead is returned.
ReadStore ==
  /\ cpc = "store"
  /\ tail' = cAt
  /\ cpc' = "idle"
  /\ UNCHANGED <<sample, pos, head, closed, flushBefore, expected, cWant, cAt, cHead, cFlush,
                 cChannel, got, first, gap, prodVars, histVars>>

\* flush by the consumer: head is loaded, then stored as the new tail.
FlushLoad ==
  /\ cpc = "idle" /\ ~closed
  /\ cHead' = head
  /\ cpc' = "flush"
  /\ UNCHANGED <<expected, cWant, cAt, cFlush, cChannel, got, first, gap, sharedVars, prodVars,
                 histVars>>

FlushStore ==
  /\ cpc = "flush"
  /\ tail' = cHead
  /\ cpc' = "idle"
  /\ UNCHANGED <<sample, pos, head, closed, flushBefore, expected, cWant, cAt, cHead, cFlush,
                 cChannel, got, first, gap, prodVars, histVars>>

ConsumerClose ==
  /\ cpc = "idle" /\ ~closed
  /\ closed' = TRUE
  /\ UNCHANGED <<sample, pos, head, tail, flushBefore, prodVars, consVars, histVars>>
-----------------------------------------------------------------------------
Batches == 0 .. MaxBatch

Producer ==
  \/ \E n \in Batches : PushCheck(n)
  \/ PushLoad \/ PushSample \/ PushPosition \/ PushPublish
  \/ \E k \in Batches : Discard(k)
  \/ ProducerFlush
  \/ ProducerClose

Consumer ==
  \/ \E n \in Batches : ReadCheck(n)
  \/ ReadLoadHead \/ ReadLoadFlush \/ ReadSkip \/ ReadSkipped
  \/ ReadFrame \/ ReadSample \/ ReadAdvance \/ ReadStore
  \/ FlushLoad \/ FlushStore
  \/ ConsumerClose

Next == Producer \/ Consumer

Spec == Init /\ [][Next]_vars

-----------------------------------------------------------------------------
Frames == 0 .. MaxFrame

TypeOK ==
  /\ sample \in [Ring -> [1 .. Channels -> Frames]] /\ pos \in [Ring -> Frames]
  /\ head \in Ring /\ tail \in Ring /\ closed \in BOOLEAN /\ flushBefore \in Frames
  /\ ppc \in {"idle", "load", "sample", "position", "publish"}
  /\ nextFrame \in Frames /\ pWant \in Batches /\ pAt \in Ring /\ pDone \in Batches
  /\ pChannel \in 1 .. Channels
  /\ cpc \in {"idle", "load_head", "load_flush", "skip", "frame", "sample", "advance", "store",
              "flush"}
  /\ expected \in Frames /\ cWant \in Batches /\ cAt \in Ring /\ cHead \in Ring
  /\ cFlush \in Frames /\ cChannel \in 1 .. Channels /\ got \in Batches
  /\ first \in Frames /\ gap \in BOOLEAN
  /\ frame \in [1 .. Channels -> Frames]
  /\ flushOwed \in Frames /\ expectedBefore \in Frames

Reading == cpc \in {"load_flush", "skip", "frame", "sample", "advance", "store"}

\* The slot the producer writes is never one the consumer may be reading: neither a
\* published slot nor one of a read that has not returned yet.  So no frame is torn: all
\* samples of a frame handed out are from the frame its position names.
SlotOwnership ==
  /\ ppc \in {"sample", "position"} =>
       /\ pAt \notin Window(tail, head)
       /\ Reading => pAt \notin Window(cAt, cHead)
  /\ cpc = "advance" => \A c \in 1 .. Channels : frame[c] = pos[cAt]

-----------------------------------------------------------------------------
(* The ring implements the queue of numbered frames.                       *)

Busy == cpc \notin {"idle", "flush"}
Abstract == INSTANCE FrameQueue WITH
  queued <- [i \in 1 .. (head + Slots - tail) % Slots |-> pos[(tail + i - 1) % Slots]],
  clock  <- nextFrame,
  expect <- IF Busy THEN expectedBefore ELSE expected,
  mark   <- flushBefore,
  owed   <- flushOwed,
  out    <- IF Busy THEN [first |-> 0, frames |-> -1, gap |-> FALSE]
            ELSE [first |-> first, frames |-> got, gap |-> gap],
  shut   <- closed

\* Single atomic accesses of two threads add up to the queue of FrameQueue: published frames
\* are delivered once, in order and in contiguous segments, every loss (discard, a flush from
\* either side) surfaces as one reported gap, and a read that starts after a producer's flush
\* has returned delivers nothing from before it.
ImplementsQueue == Abstract!Spec
=============================================================================
