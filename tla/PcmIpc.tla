------------------------------- MODULE PcmIpc -------------------------------
(***************************************************************************)
(* One direction of the PCM channel between the client and the audio       *)
(* worker: gr_usbip::pcm_ipc.  An Outbound pump moves blocks of frames     *)
(* from a source queue into a non-blocking stream socket, an Inbound pump  *)
(* rebuilds them and pushes them into a destination queue that may be      *)
(* full.  The two pumps run in different processes.                        *)
(*                                                                         *)
(* A frame is known by the position its producer gave it, so the samples   *)
(* of a block are the positions they came from; the destination queue      *)
(* assigns positions of its own.  The queues are atomic here: PcmQueue     *)
(* models their interleavings.                                             *)
(***************************************************************************)
EXTENDS Integers, Sequences, FiniteSets, SequencesExt

CONSTANTS
  SourceCapacity, \* frames the source queue holds
  DestCapacity,   \* frames the destination queue holds
  BlockFrames,    \* BLOCK_FRAMES: frames of one block
  HeaderUnits,    \* units of a block header as the socket splits it
  PipeUnits,      \* units the socket holds
  Deadline,       \* DEADLINE_US
  MaxFrame,       \* bound: positions the source assigns
  MaxTime         \* bound: last instant

ASSUME ChannelAssumption ==
  /\ SourceCapacity \in Nat \ {0} /\ DestCapacity \in Nat \ {0}
  /\ BlockFrames \in Nat \ {0} /\ HeaderUnits \in Nat \ {0} /\ PipeUnits \in Nat \ {0}
  /\ Deadline \in Nat \ {0} /\ MaxFrame \in Nat /\ MaxTime \in Nat

VARIABLES
  clock,      \* monotonic time
  source,     \* frames in the source queue, in order
  sourceNext, \* PcmProducer.next_frame of the source
  expected,   \* PcmConsumer.expected_frame of the source
  tx,         \* Sender: block being written, offset and deadline
  pipe,       \* units in the socket: [block, unit]
  rx,         \* Receiver: units held of the block being read, and its deadline
  rxNext,     \* Receiver.next_frame
  inNext,     \* Inbound.next_frame
  dest,       \* destination queue: [position, frame]
  destNext,   \* PcmProducer.next_frame of the destination
  discarded,  \* discarded_frames of the destination
  txOpen,     \* the sending end is open
  rxOpen,     \* the receiving end is open
  \* History for the properties only.
  flushed,    \* frames removed from the source by a flush
  arrived,    \* frames pushed into the destination
  dropped     \* frames that arrived and did not fit

sourceVars == <<source, sourceNext, expected, flushed>>
destVars == <<rx, rxNext, inNext, dest, destNext, discarded, arrived, dropped>>
vars == <<clock, sourceVars, tx, pipe, destVars, txOpen, rxOpen>>

NoTime == -1
NoBlock == [frames |-> <<>>, gap |-> FALSE]
IdleTx == [block |-> NoBlock, offset |-> 0, deadline |-> NoTime]
IdleRx == [units |-> <<>>, deadline |-> NoTime]

First(block) == block.frames[1]
Size(block) == HeaderUnits + Len(block.frames)
Minimum(a, b) == IF a < b THEN a ELSE b

(***************************************************************************)
(* Definitions named Faulty... are plausible defects of the definition     *)
(* that follows them.  They are used only to test that the properties can  *)
(* tell the defect from the code.                                          *)
(***************************************************************************)

-----------------------------------------------------------------------------
(* The owner of the source queue.                                          *)

SourcePush ==
  /\ txOpen /\ sourceNext < MaxFrame /\ Len(source) < SourceCapacity
  /\ source' = Append(source, sourceNext)
  /\ sourceNext' = sourceNext + 1
  /\ UNCHANGED <<clock, expected, flushed, tx, pipe, destVars, txOpen, rxOpen>>

SourceDiscard ==
  /\ txOpen /\ sourceNext < MaxFrame
  /\ sourceNext' = sourceNext + 1
  /\ flushed' = flushed \cup {sourceNext}
  /\ UNCHANGED <<clock, source, expected, tx, pipe, destVars, txOpen, rxOpen>>

SourceFlush ==
  /\ txOpen /\ source # <<>>
  /\ source' = <<>>
  /\ flushed' = flushed \cup Range(source)
  /\ UNCHANGED <<clock, sourceNext, expected, tx, pipe, destVars, txOpen, rxOpen>>

-----------------------------------------------------------------------------
(* The Outbound pump.                                                      *)

Overdue(deadline) == deadline # NoTime /\ clock >= deadline

\* n units of the block after the offset, as they enter the socket.
Units(t, n) == [k \in 1..n |-> [block |-> t.block, unit |-> t.offset + k]]

\* Sender::pump after a write of n units: a written block leaves the sender.
Written(t, n) ==
  IF t.offset + n = Size(t.block) THEN IdleTx ELSE [t EXCEPT !.offset = @ + n]

\* Sender.length is 0: no block is being written.
Idle(t) == t.block = NoBlock
Room(n) == Len(pipe) + n <= PipeUnits

\* PcmConsumer::read of at most one block: frames up to the next gap.
ReadBlock ==
  LET n == CHOOSE m \in 1..Minimum(BlockFrames, Len(source)) :
             /\ \A k \in 2..m : source[k] = source[k - 1] + 1
             /\ m < Minimum(BlockFrames, Len(source)) => source[m + 1] # source[m] + 1
  IN [frames |-> SubSeq(source, 1, n), gap |-> source[1] # expected]

\* One pump: finish the block under way with a units; when the sender is free,
\* read the next block, and write its first b units.
OutboundPump(a, b) ==
  /\ txOpen /\ rxOpen /\ ~ Overdue(tx.deadline)
  /\ IF Idle(tx) THEN a = 0 ELSE a <= Size(tx.block) - tx.offset
  /\ Room(a + b)
  /\ LET old == IF Idle(tx) THEN tx ELSE Written(tx, a)
     IN IF Idle(old) /\ source # <<>>
        THEN LET new == [block |-> ReadBlock, offset |-> 0, deadline |-> clock + Deadline]
             IN /\ b <= Size(new.block)
                /\ tx' = Written(new, b)
                /\ pipe' = pipe \o Units(tx, a) \o Units(new, b)
                /\ source' = SubSeq(source, Len(new.block.frames) + 1, Len(source))
                /\ expected' = Last(new.block.frames) + 1
        ELSE /\ b = 0
             /\ tx' = old
             /\ pipe' = pipe \o Units(tx, a)
             /\ UNCHANGED <<source, expected>>
  /\ UNCHANGED <<clock, sourceNext, flushed, destVars, txOpen, rxOpen>>

\* Outbound::pump closes both ends of what it owns on any error: a missed
\* deadline, a closed peer or a socket error; or its owner closes it.
OutboundClose ==
  /\ txOpen
  /\ txOpen' = FALSE
  /\ UNCHANGED <<clock, sourceVars, tx, pipe, destVars, rxOpen>>

-----------------------------------------------------------------------------
(* The Inbound pump.                                                       *)

\* Receiver.length: the header until it is decoded, then the whole block.
Wanted(held) ==
  IF Len(held) < HeaderUnits THEN HeaderUnits ELSE Size(held[1].block)

\* A block must continue the stream, or announce its gap.
Acceptable(block) == First(block) = rxNext \/ (First(block) > rxNext /\ block.gap)

\* One or two reads take n units: header and body at most.
Reads(n) ==
  LET held == rx.units \o SubSeq(pipe, 1, n)
  IN /\ n <= Len(pipe)
     /\ n <= Wanted(rx.units) - Len(rx.units)
        \/ (Len(rx.units) < HeaderUnits /\ Len(held) > HeaderUnits /\ Len(held) <= Wanted(held))

\* The deadline of a partial block runs from its first byte.
RxDeadline == IF rx.deadline = NoTime THEN clock + Deadline ELSE rx.deadline

\* The units do not complete a block; they are retained.
InboundPart(n) ==
  /\ rxOpen /\ ~ Overdue(rx.deadline) /\ n > 0 /\ Reads(n)
  /\ LET held == rx.units \o SubSeq(pipe, 1, n)
     IN /\ Len(held) < HeaderUnits \/ Len(held) < Size(held[1].block)
        /\ rx' = [units |-> held, deadline |-> RxDeadline]
  /\ pipe' = SubSeq(pipe, n + 1, Len(pipe))
  /\ UNCHANGED <<clock, sourceVars, tx, rxNext, inNext, dest, destNext, discarded, arrived,
                 dropped, txOpen, rxOpen>>

\* The samples of the units held after the header.
Samples(held) == [k \in 1..(Len(held) - HeaderUnits) |->
                    held[HeaderUnits + k].block.frames[held[HeaderUnits + k].unit - HeaderUnits]]

FaultyGapBefore(block) == 0

\* Frames the sender lost before this block.
GapBefore(block) == IF First(block) > inNext THEN First(block) - inNext ELSE 0

\* PcmProducer::push accepts a prefix.
Fits(frames) == Minimum(Len(frames), DestCapacity - Len(dest))

\* Frames of the block that did not fit are discarded.
Unaccepted(frames) == Len(frames) - Fits(frames)

\* The block is complete: account for the gap before it, push what fits and
\* account for the rest.
InboundBlock(n) ==
  /\ rxOpen /\ ~ Overdue(rx.deadline) /\ n > 0 /\ Reads(n)
  /\ LET held     == rx.units \o SubSeq(pipe, 1, n)
         block    == held[1].block
         frames   == Samples(held)
         accepted == Fits(frames)
         start    == destNext + GapBefore(block)
     IN /\ Len(held) >= HeaderUnits /\ Len(held) = Size(block) /\ Acceptable(block)
        /\ dest' = dest \o [k \in 1..accepted |-> [position |-> start + k - 1, frame |-> frames[k]]]
        /\ destNext' = start + accepted + Unaccepted(frames)
        /\ discarded' = discarded + GapBefore(block) + Unaccepted(frames)
        /\ rxNext' = First(block) + Len(block.frames)
        /\ inNext' = First(block) + Len(block.frames)
        /\ arrived' = arrived \cup {frames[k] : k \in 1..accepted}
        /\ dropped' = dropped \cup {frames[k] : k \in (accepted + 1)..Len(frames)}
  /\ rx' = IdleRx
  /\ pipe' = SubSeq(pipe, n + 1, Len(pipe))
  /\ UNCHANGED <<clock, sourceVars, tx, txOpen, rxOpen>>

\* Inbound::pump closes on any error: a missed deadline, the end of the stream,
\* a refused block or a socket error; or its owner closes it.
InboundClose ==
  /\ rxOpen
  /\ rxOpen' = FALSE
  /\ UNCHANGED <<clock, sourceVars, tx, pipe, destVars, txOpen>>

-----------------------------------------------------------------------------
(* The owner of the destination queue, and time.                           *)

DestRead ==
  /\ dest # <<>>
  /\ dest' = Tail(dest)
  /\ UNCHANGED <<clock, sourceVars, tx, pipe, rx, rxNext, inNext, destNext, discarded, arrived,
                 dropped, txOpen, rxOpen>>

Tick ==
  /\ clock < MaxTime
  /\ clock' = clock + 1
  /\ UNCHANGED <<sourceVars, tx, pipe, destVars, txOpen, rxOpen>>

-----------------------------------------------------------------------------

Init ==
  /\ clock = 0
  /\ source = <<>> /\ sourceNext = 0 /\ expected = 0 /\ flushed = {}
  /\ tx = IdleTx /\ pipe = <<>> /\ rx = IdleRx /\ rxNext = 0 /\ inNext = 0
  /\ dest = <<>> /\ destNext = 0 /\ discarded = 0 /\ arrived = {} /\ dropped = {}
  /\ txOpen = TRUE /\ rxOpen = TRUE

BlockUnits == HeaderUnits + BlockFrames

Source == SourcePush \/ SourceDiscard \/ SourceFlush
Outbound == (\E a, b \in 0..BlockUnits : OutboundPump(a, b)) \/ OutboundClose
Inbound == (\E n \in 1..BlockUnits : InboundPart(n) \/ InboundBlock(n)) \/ InboundClose

Next == Source \/ Outbound \/ Inbound \/ DestRead \/ Tick

Spec == Init /\ [][Next]_vars

\* Both pumps run again and again, and the socket moves what it can hold.
LiveSpec ==
  /\ Spec
  /\ SF_vars(\E a, b \in 0..BlockUnits : a + b > 0 /\ OutboundPump(a, b))
  /\ WF_vars(\E n \in 1..BlockUnits : InboundPart(n) \/ InboundBlock(n))
  /\ WF_vars(Overdue(tx.deadline) /\ OutboundClose)
  /\ WF_vars(Overdue(rx.deadline) /\ InboundClose)

-----------------------------------------------------------------------------
(* Properties.                                                             *)

Frames == 0..(MaxFrame - 1)

\* Types, and the capacities of the queues and the socket.
TypeOK ==
  /\ clock \in 0..MaxTime
  /\ source \in Seq(Frames) /\ Len(source) <= SourceCapacity
  /\ sourceNext \in 0..MaxFrame /\ expected \in 0..MaxFrame
  /\ tx.offset \in 0..BlockUnits /\ tx.deadline \in Nat \cup {NoTime}
  /\ Idle(tx) <=> tx = IdleTx
  /\ Len(pipe) <= PipeUnits /\ Len(rx.units) < BlockUnits
  /\ rxNext \in 0..MaxFrame /\ inNext \in 0..MaxFrame
  /\ Len(dest) <= DestCapacity /\ destNext \in 0..MaxFrame /\ discarded \in 0..MaxFrame
  /\ txOpen \in BOOLEAN /\ rxOpen \in BOOLEAN

\* A frame has the same position at the destination as at the source, however
\* many frames were lost on the way, and the destination's loss counter is
\* exactly the frames before the position the stream has reached that were not
\* pushed into it (Inbound::accept accounts for every gap).
PositionKept ==
  /\ \A k \in DOMAIN dest : dest[k].position = dest[k].frame
  /\ discarded + Cardinality(arrived) = inNext

\* Every frame the source accepted is in the source queue, on its way, at the
\* destination, dropped and counted there, or was flushed; it is in one of
\* these places only.  Backpressure therefore loses and repeats nothing, and
\* the receiver never refuses the block it reads next as a duplicate, a reorder
\* or an unannounced gap: loss at the source always arrives announced.
FrameConserved ==
  LET onWay == (UNION {Range(u.block.frames) : u \in Range(rx.units \o pipe)}) \cup Range(tx.block.frames)
  IN /\ 0..(sourceNext - 1) = Range(source) \cup onWay \cup arrived \cup dropped \cup flushed
     /\ Range(source) \cap (onWay \cup arrived \cup dropped \cup flushed) = {}
     /\ onWay \cap (arrived \cup dropped \cup flushed) = {}
     /\ arrived \cap (dropped \cup flushed) = {}
     /\ rxOpen /\ rx.units \o pipe # <<>> => Acceptable((rx.units \o pipe)[1].block)

\* Frames that cross a process boundary keep their positions, every gap is accounted for
\* at the destination, and each frame is in exactly one place: backpressure loses and
\* repeats nothing (pcm_ipc Outbound and Inbound).
FramesKept == PositionKept /\ FrameConserved

\* A frame has left the source queue, both ends are open, and it is nowhere yet.
Underway(f) ==
  f < expected /\ f \notin flushed \cup arrived \cup dropped /\ txOpen /\ rxOpen

\* A frame that left the source queue reaches the destination queue, is dropped
\* there and counted, or the channel ends.
FramesArrive ==
  \A f \in Frames :
    []<>(~ Underway(f))
=============================================================================
