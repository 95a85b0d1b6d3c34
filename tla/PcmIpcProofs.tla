---------------------------- MODULE PcmIpcProofs ----------------------------
(***************************************************************************)
(* Safety of one direction of the PCM channel for every capacity, block    *)
(* and header length, clock and number of frames.                          *)
(***************************************************************************)
EXTENDS PcmIpc, FiniteSetTheorems, SequenceTheorems, WellFoundedInduction, TLAPS

End(block) == First(block) + Len(block.frames)

\* Frames of a block are contiguous.
Blocks ==
  {b \in [frames : Seq(Nat), gap : BOOLEAN] :
     /\ Len(b.frames) \in 1..BlockFrames
     /\ \A k \in 1..Len(b.frames) : b.frames[k] = b.frames[1] + k - 1}

Cells == {u \in [block : Blocks, unit : Nat] : u.unit \in 1..Size(u.block)}

Writers == {t \in [block : Blocks, offset : Nat, deadline : Nat] : t.offset < Size(t.block)}

Stream == rx.units \o pipe

-----------------------------------------------------------------------------
(* What a stream S of units, the sender t that writes it, the frame e that  *)
(* the sender expects next and the frame r that the receiver expects next   *)
(* have to do with each other.                                              *)

\* The units of a block stand together and in order.
Whole(S) ==
  \A k, i \in DOMAIN S :
    i - k + S[k].unit \in 1..Size(S[k].block) =>
      S[i] = [block |-> S[k].block, unit |-> i - k + S[k].unit]

\* A block continues the one before it, or announces its gap.
Continues(b, c) == First(c) = End(b) \/ (First(c) > End(b) /\ c.gap)

Linked(S) ==
  \A k, i \in DOMAIN S :
    i - k + S[k].unit = Size(S[k].block) + 1 => S[i].unit = 1 /\ Continues(S[k].block, S[i].block)

Ascending(S) ==
  \A k, i \in DOMAIN S : k < i => S[k].block = S[i].block \/ End(S[k].block) <= First(S[i].block)

\* A block of which units are missing at the end is being written.
Unfinished(S, t) ==
  \A k \in DOMAIN S :
    Len(S) - k + S[k].unit < Size(S[k].block) =>
      t.block = S[k].block /\ t.offset = Len(S) - k + S[k].unit

\* What has been written of the block under way is at the end.
Sent(S, t) ==
  /\ t.offset <= Len(S)
  /\ \A i \in DOMAIN S :
       i - Len(S) + t.offset >= 1 => S[i] = [block |-> t.block, unit |-> i - Len(S) + t.offset]

\* The block after the last whole one is next to be written, or to be read.
Finished(S, t, e) ==
  \A k \in DOMAIN S :
    Len(S) - k + S[k].unit = Size(S[k].block) =>
      IF Idle(t) THEN End(S[k].block) = e ELSE t.offset = 0 /\ Continues(S[k].block, t.block)

\* Everything on its way is between the two expected frames.
Between(S, t, e, r) ==
  /\ r <= e
  /\ ~ Idle(t) => End(t.block) = e /\ r <= First(t.block)
  /\ \A k \in DOMAIN S :
       /\ r <= First(S[k].block) /\ End(S[k].block) <= e
       /\ ~ Idle(t) => S[k].block = t.block \/ End(S[k].block) <= First(t.block)

\* The receiver accepts the block it reads next.
Accepts(b, r) == First(b) = r \/ (First(b) > r /\ b.gap)

Awaited(S, t, e, r) ==
  IF S # << >> THEN S[1].unit = 1 /\ Accepts(S[1].block, r)
  ELSE IF Idle(t) THEN e = r ELSE Accepts(t.block, r)

Carried(S, t, e, r) ==
  /\ Whole(S) /\ Linked(S) /\ Ascending(S)
  /\ Unfinished(S, t) /\ Sent(S, t) /\ Finished(S, t, e)
  /\ Between(S, t, e, r) /\ Awaited(S, t, e, r)

-----------------------------------------------------------------------------
(* The inductive invariant.                                                *)

\* Types of the sending side, and of what is on its way.
SendTypes ==
  /\ clock \in Nat /\ clock <= MaxTime /\ txOpen \in BOOLEAN /\ rxOpen \in BOOLEAN
  /\ source \in Seq(Nat) /\ Len(source) <= SourceCapacity
  /\ sourceNext \in Nat /\ sourceNext <= MaxFrame
  /\ expected \in Nat /\ expected <= sourceNext
  /\ tx \in Writers \cup {IdleTx}
  /\ pipe \in Seq(Cells) /\ Len(pipe) <= PipeUnits

\* Types of the receiving side.
ReceiveTypes ==
  /\ rx \in [units : Seq(Cells), deadline : Nat \cup {NoTime}]
  /\ Len(rx.units) >= HeaderUnits => Len(rx.units) < Size(rx.units[1].block)
  /\ rxNext \in Nat /\ inNext = rxNext /\ destNext = rxNext
  /\ dest \in Seq([position : Nat, frame : Nat]) /\ Len(dest) <= DestCapacity
  /\ discarded \in Nat
  /\ IsFiniteSet(arrived)

\* The source holds frames in order, after those that left it.
SourceInOrder ==
  /\ \A k \in DOMAIN source : expected <= source[k] /\ source[k] < sourceNext
  /\ \A j, k \in DOMAIN source : j < k => source[j] < source[k]

OnWay == (UNION {Range(u.block.frames) : u \in Range(Stream)}) \cup Range(tx.block.frames)

\* Where the frames are.
Places ==
  /\ 0..(sourceNext - 1) = Range(source) \cup OnWay \cup arrived \cup dropped \cup flushed
  /\ arrived \cup dropped \subseteq 0..(rxNext - 1)
  /\ arrived \cap dropped = {}
  /\ flushed \cap (Range(source) \cup OnWay \cup arrived \cup dropped) = {}

IInv ==
  /\ SendTypes /\ ReceiveTypes /\ SourceInOrder
  /\ Carried(Stream, tx, expected, rxNext)
  /\ Places /\ PositionKept
-----------------------------------------------------------------------------
(* Blocks and units.                                                       *)

\* Lengths and positions of a block.
LEMMA BlockFacts ==
  ASSUME NEW b \in Blocks
  PROVE  /\ Len(b.frames) \in 1..BlockFrames /\ b.frames \in Seq(Nat) /\ b # NoBlock
         /\ Size(b) \in Nat /\ Size(b) = HeaderUnits + Len(b.frames) /\ Size(b) <= BlockUnits
         /\ First(b) \in Nat /\ End(b) \in Nat /\ End(b) = First(b) + Len(b.frames) /\ First(b) < End(b)
         /\ \A k \in 1..Len(b.frames) : b.frames[k] = First(b) + k - 1
         /\ Range(b.frames) = First(b)..(End(b) - 1)
<1>1. /\ BlockFrames \in Nat /\ HeaderUnits \in Nat /\ b.frames \in Seq(Nat) /\ Len(b.frames) \in 1..BlockFrames
      /\ \A k \in 1..Len(b.frames) : b.frames[k] = b.frames[1] + k - 1
  BY ChannelAssumption DEF Blocks
<1>2. b # NoBlock
  BY <1>1 DEF NoBlock
<1>3. First(b) \in Nat
  BY <1>1 DEF First
<1>4. \A k \in 1..Len(b.frames) : b.frames[k] = First(b) + k - 1
  BY <1>1 DEF First
<1>5. Range(b.frames) = {b.frames[k] : k \in 1..Len(b.frames)}
  BY <1>1, RangeEquality
<1>6. \A f \in First(b)..(First(b) + Len(b.frames) - 1) : \E k \in 1..Len(b.frames) : b.frames[k] = f
  <2>1. ASSUME NEW f \in First(b)..(First(b) + Len(b.frames) - 1) PROVE \E k \in 1..Len(b.frames) : b.frames[k] = f
    <3>1. f - First(b) + 1 \in 1..Len(b.frames)
      BY <1>1, <1>3, <2>1
    <3>2. b.frames[f - First(b) + 1] = f
      BY <1>3, <1>4, <2>1, <3>1
    <3>3. QED
      BY <3>1, <3>2
  <2>2. QED
    BY <2>1
<1>7. Range(b.frames) = First(b)..(First(b) + Len(b.frames) - 1)
  <2>1. \A k \in 1..Len(b.frames) : b.frames[k] \in First(b)..(First(b) + Len(b.frames) - 1)
    BY <1>1, <1>3, <1>4
  <2>2. QED
    BY <1>5, <1>6, <2>1
<1>8. QED
  BY <1>1, <1>2, <1>3, <1>4, <1>7 DEF Size, End, BlockUnits

\* Types of one unit of a stream.
LEMMA CellFacts ==
  ASSUME NEW S \in Seq(Cells)
  PROVE  /\ Len(S) \in Nat /\ DOMAIN S = 1..Len(S)
         /\ \A k \in DOMAIN S :
              /\ S[k].block \in Blocks /\ S[k].unit \in Nat /\ S[k].unit \in 1..Size(S[k].block)
              /\ S[k] = [block |-> S[k].block, unit |-> S[k].unit]
<1>1. Len(S) \in Nat /\ DOMAIN S = 1..Len(S) /\ \A k \in 1..Len(S) : S[k] \in Cells
  BY LenProperties
<1>2. ASSUME NEW u \in Cells
      PROVE  u.block \in Blocks /\ u.unit \in Nat /\ u.unit \in 1..Size(u.block) /\ u = [block |-> u.block, unit |-> u.unit]
  BY DEF Cells
<1>3. QED
  BY <1>1, <1>2

\* A sender that writes a block is not idle.
LEMMA WriterFacts ==
  ASSUME NEW t \in Writers
  PROVE  t.block \in Blocks /\ t.offset \in Nat /\ t.offset < Size(t.block) /\ ~ Idle(t)
<1>1. t.block \in Blocks /\ t.offset \in Nat /\ t.offset < Size(t.block)
  BY DEF Writers
<1>2. QED
  BY <1>1, BlockFacts DEF Idle

LEMMA IdleFacts == Idle(IdleTx) /\ IdleTx.offset = 0 /\ IdleTx.block = NoBlock /\ IdleTx \notin Writers
<1>1. Idle(IdleTx) /\ IdleTx.offset = 0 /\ IdleTx.block = NoBlock
  BY DEF Idle, IdleTx
<1>2. QED
  BY <1>1, WriterFacts

\* A write leaves the sender with the rest of the block, or idle.
LEMMA WrittenFacts ==
  ASSUME NEW t \in Writers, NEW n \in 0..(Size(t.block) - t.offset)
  PROVE  /\ t.offset + n = Size(t.block) => Written(t, n) = IdleTx
         /\ t.offset + n # Size(t.block) =>
              /\ Written(t, n) \in Writers /\ Written(t, n).block = t.block /\ Written(t, n).offset = t.offset + n
<1>1. t.offset \in Nat /\ Size(t.block) \in Nat /\ n \in Nat /\ t.offset + n <= Size(t.block)
  BY WriterFacts, BlockFacts
<1>2. CASE t.offset + n = Size(t.block)
  BY <1>2 DEF Written
<1>3. CASE t.offset + n # Size(t.block)
  <2>1. Written(t, n) = [t EXCEPT !.offset = t.offset + n]
    BY <1>3 DEF Written
  <2>2. t.offset + n \in Nat /\ t.offset + n < Size(t.block)
    BY <1>1, <1>3
  <2>3. QED
    BY <1>3, <2>1, <2>2 DEF Writers
<1>4. QED
  BY <1>2, <1>3

\* Units as they enter the stream.
LEMMA Extended ==
  ASSUME NEW S \in Seq(Cells), NEW t \in Writers, NEW n \in 0..(Size(t.block) - t.offset)
  PROVE  /\ S \o Units(t, n) \in Seq(Cells) /\ Len(S \o Units(t, n)) = Len(S) + n
         /\ Len(Units(t, n)) = n
         /\ \A i \in 1..Len(S) : (S \o Units(t, n))[i] = S[i]
         /\ \A i \in 1..(Len(S) + n) :
              i > Len(S) => /\ (S \o Units(t, n))[i].block = t.block
                            /\ (S \o Units(t, n))[i].unit = t.offset + (i - Len(S))
<1>1. /\ t.block \in Blocks /\ t.offset \in Nat /\ Size(t.block) \in Nat /\ n \in Nat
      /\ t.offset + n <= Size(t.block) /\ Len(S) \in Nat
  BY WriterFacts, BlockFacts, CellFacts
<1>2. \A k \in 1..n : [block |-> t.block, unit |-> t.offset + k] \in Cells
  BY <1>1 DEF Cells
<1> DEFINE U == Units(t, n)
<1>3. U \in Seq(Cells) /\ Len(U) = n /\ \A k \in 1..n : U[k] = [block |-> t.block, unit |-> t.offset + k]
  BY <1>1, <1>2 DEF Units
<1> HIDE DEF U
<1>4. /\ S \o U \in Seq(Cells) /\ Len(S \o U) = Len(S) + n
      /\ \A i \in 1..(Len(S) + n) : (S \o U)[i] = IF i <= Len(S) THEN S[i] ELSE U[i - Len(S)]
  BY <1>3, ConcatProperties
<1>5. \A i \in 1..Len(S) : (S \o U)[i] = S[i]
  BY <1>1, <1>4
<1>6. \A i \in 1..(Len(S) + n) : i > Len(S) => (S \o U)[i] = [block |-> t.block, unit |-> t.offset + (i - Len(S))]
  <2>1. ASSUME NEW i \in 1..(Len(S) + n), i > Len(S)
        PROVE  (S \o U)[i] = [block |-> t.block, unit |-> t.offset + (i - Len(S))]
    <3>1. i - Len(S) \in 1..n /\ ~ (i <= Len(S))
      BY <1>1, <2>1
    <3>2. QED
      BY <1>3, <1>4, <3>1
  <2>2. QED
    BY <2>1
<1>7. QED
  BY <1>3, <1>4, <1>5, <1>6 DEF U

-----------------------------------------------------------------------------
(* What the sender does to the stream.                                     *)

\* Arithmetic of places in a stream.
LEMMA Aligned ==
  ASSUME NEW L \in Nat, NEW k \in Nat, NEW i \in Nat, NEW u \in Nat, NEW o, o = L - k + u
  PROVE  o + (i - L) = i - k + u
OBVIOUS

LEMMA Beyond ==
  ASSUME NEW L \in Nat, NEW n \in Nat, NEW i \in Nat, NEW o \in Nat, NEW z \in Nat, NEW x,
         o + (i - L) = x, x = z + 1, o + n <= z, i <= L + n
  PROVE  FALSE
OBVIOUS

LEMMA Placed ==
  ASSUME NEW L \in Nat, NEW n \in Nat, NEW k \in Nat, NEW u \in Nat, NEW o, o = L - k + u
  PROVE  o + n = (L + n) - k + u
OBVIOUS

\* The two conditions on the units of a stream whose length is known.
LEMMA UnfinishedAt ==
  ASSUME NEW W, NEW w, NEW m, Len(W) = m,
         \A k \in DOMAIN W : m - k + W[k].unit < Size(W[k].block)
           => w.block = W[k].block /\ w.offset = m - k + W[k].unit
  PROVE  Unfinished(W, w)
BY DEF Unfinished

LEMMA FinishedAt ==
  ASSUME NEW W, NEW w, NEW e, NEW m, Len(W) = m,
         \A k \in DOMAIN W : m - k + W[k].unit = Size(W[k].block)
           => IF Idle(w) THEN End(W[k].block) = e ELSE w.offset = 0 /\ Continues(W[k].block, w.block)
  PROVE  Finished(W, w, e)
BY DEF Finished

\* Units of the block under way enter the stream.
LEMMA Writes ==
  ASSUME NEW S \in Seq(Cells), NEW t \in Writers, NEW e \in Nat, NEW r \in Nat, Carried(S, t, e, r),
         NEW n \in 0..(Size(t.block) - t.offset)
  PROVE  Carried(S \o Units(t, n), Written(t, n), e, r)
<1> DEFINE W == S \o Units(t, n)
           w == Written(t, n)
           L == Len(S)
           z == Size(t.block)
           o == t.offset
<1>1. /\ t.block \in Blocks /\ o \in Nat /\ o < z /\ z \in Nat /\ ~ Idle(t) /\ n \in Nat /\ o + n <= z
  BY WriterFacts, BlockFacts
<1>2. /\ L \in Nat /\ DOMAIN S = 1..L
      /\ \A k \in 1..L : S[k].block \in Blocks /\ S[k].unit \in Nat /\ Size(S[k].block) \in Nat
                         /\ S[k] = [block |-> S[k].block, unit |-> S[k].unit]
  BY CellFacts, BlockFacts
<1>3. /\ W \in Seq(Cells) /\ Len(W) = L + n /\ DOMAIN W = 1..(L + n)
      /\ \A i \in 1..L : W[i] = S[i]
      /\ \A i \in 1..(L + n) : i > L => W[i].block = t.block /\ W[i].unit = o + (i - L)
                                        /\ W[i] = [block |-> t.block, unit |-> o + (i - L)]
  BY Extended, CellFacts
<1>4. /\ o + n = z => Idle(w) /\ w.offset = 0
      /\ o + n # z => ~ Idle(w) /\ w.block = t.block /\ w.offset = o + n
  BY WrittenFacts, IdleFacts, WriterFacts
<1> HIDE DEF W, w, L, z, o
<1>5. ASSUME NEW i \in DOMAIN W PROVE \/ i \in 1..L /\ W[i] = S[i] /\ i \in DOMAIN S
                                      \/ /\ i \in Nat /\ i > L /\ i <= L + n /\ W[i].block = t.block
                                         /\ W[i].unit = o + (i - L)
                                         /\ W[i] = [block |-> t.block, unit |-> o + (i - L)]
  BY <1>1, <1>2, <1>3, <1>5
<1>6. /\ Whole(S) /\ Linked(S) /\ Ascending(S)
      /\ Unfinished(S, t) /\ Sent(S, t) /\ Finished(S, t, e)
      /\ Between(S, t, e, r) /\ Awaited(S, t, e, r)
  BY DEF Carried
\* A unit of the stream that belongs to a block not whole belongs to the block under way.
<1>7. ASSUME NEW k \in 1..L, L - k + S[k].unit < Size(S[k].block)
      PROVE  t.block = S[k].block /\ o = L - k + S[k].unit
  BY <1>2, <1>6, <1>7 DEF Unfinished, L, o
<1>8. /\ o <= L
      /\ \A i \in 1..L : i - L + o >= 1 => S[i] = [block |-> t.block, unit |-> i - L + o]
  BY <1>2, <1>6 DEF Sent, L, o
<1>9. Whole(W)
  <2>1. SUFFICES ASSUME NEW k \in DOMAIN W, NEW i \in DOMAIN W, i - k + W[k].unit \in 1..Size(W[k].block)
                 PROVE  W[i] = [block |-> W[k].block, unit |-> i - k + W[k].unit]
    BY DEF Whole
  <2>2. CASE k \in 1..L /\ i \in 1..L
    <3>1. W[k] = S[k] /\ W[i] = S[i] /\ k \in DOMAIN S /\ i \in DOMAIN S
      BY <1>2, <1>3, <2>2
    <3>2. i - k + S[k].unit \in 1..Size(S[k].block)
      BY <2>1, <3>1
    <3>3. S[i] = [block |-> S[k].block, unit |-> i - k + S[k].unit]
      <4>1. Whole(S)
        BY <1>6
      <4>2. QED
        BY <3>1, <3>2, <4>1 DEF Whole
    <3>4. QED
      BY <3>1, <3>3
  <2>3. CASE k \in 1..L /\ i \notin 1..L
    <3>1. i \in Nat /\ i > L /\ W[i] = [block |-> t.block, unit |-> o + (i - L)] /\ W[k] = S[k]
      BY <1>3, <1>5, <2>3
    <3>2. L - k + S[k].unit < Size(S[k].block)
      BY <1>2, <2>1, <2>3, <3>1
    <3>3. t.block = S[k].block /\ o = L - k + S[k].unit
      BY <1>7, <2>3, <3>2
    <3>4. S[k].unit \in Nat /\ k \in Nat /\ L \in Nat /\ W[k].unit = S[k].unit
      BY <1>2, <2>3, <3>1
    <3>5. o + (i - L) = i - k + S[k].unit
      <4>1. i \in Nat /\ o = L - k + S[k].unit
        BY <3>1, <3>3
      <4>2. QED
        BY <3>4, <4>1, Aligned
    <3>6. QED
      BY <3>1, <3>3, <3>4, <3>5
  <2>4. CASE k \notin 1..L /\ i \in 1..L
    <3>1. k \in Nat /\ k > L /\ W[k].block = t.block /\ W[k].unit = o + (k - L) /\ W[i] = S[i]
      BY <1>3, <1>5, <2>4
    <3>2. i - k + W[k].unit = i - L + o /\ i - L + o >= 1
      BY <1>1, <1>2, <2>1, <2>4, <3>1
    <3>3. QED
      BY <1>8, <2>4, <3>1, <3>2
  <2>5. CASE k \notin 1..L /\ i \notin 1..L
    <3>1. /\ k \in Nat /\ W[k].block = t.block /\ W[k].unit = o + (k - L)
          /\ i \in Nat /\ W[i] = [block |-> t.block, unit |-> o + (i - L)]
      BY <1>5, <2>5
    <3>2. i - k + W[k].unit = o + (i - L)
      BY <1>1, <1>2, <3>1
    <3>3. QED
      BY <3>1, <3>2
  <2>6. QED
    BY <2>2, <2>3, <2>4, <2>5
<1>10. Linked(W)
  <2>1. SUFFICES ASSUME NEW k \in DOMAIN W, NEW i \in DOMAIN W, i - k + W[k].unit = Size(W[k].block) + 1
                 PROVE  W[i].unit = 1 /\ Continues(W[k].block, W[i].block)
    BY DEF Linked
  <2>2. CASE k \in 1..L /\ i \in 1..L
    <3>1. W[k] = S[k] /\ W[i] = S[i] /\ k \in DOMAIN S /\ i \in DOMAIN S
      BY <1>2, <1>3, <2>2
    <3>2. i - k + S[k].unit = Size(S[k].block) + 1
      BY <2>1, <3>1
    <3>3. S[i].unit = 1 /\ Continues(S[k].block, S[i].block)
      <4>1. Linked(S)
        BY <1>6
      <4>2. QED
        BY <3>1, <3>2, <4>1 DEF Linked
    <3>4. QED
      BY <3>1, <3>3
  <2>3. CASE k \in 1..L /\ i \notin 1..L
    <3>1. /\ i \in Nat /\ i > L /\ i <= L + n /\ W[i].block = t.block /\ W[i].unit = o + (i - L) /\ W[k] = S[k]
      BY <1>3, <1>5, <2>3
    <3>2. ~ (L - k + S[k].unit < Size(S[k].block))
      <4>1. SUFFICES ASSUME L - k + S[k].unit < Size(S[k].block) PROVE FALSE
        OBVIOUS
      <4>2. t.block = S[k].block /\ o = L - k + S[k].unit /\ z = Size(S[k].block)
        BY <1>7, <2>3, <4>1 DEF z
      <4>3. k \in Nat /\ S[k].unit \in Nat /\ i - k + S[k].unit = z + 1
        BY <1>2, <2>1, <2>3, <3>1, <4>2
      <4>4. o + (i - L) = i - k + S[k].unit
        <5>1. i \in Nat /\ L \in Nat /\ o = L - k + S[k].unit
          BY <1>2, <3>1, <4>2
        <5>2. QED
          BY <4>3, <5>1, Aligned
      <4>5. QED
        BY <1>1, <1>2, <3>1, <4>3, <4>4, Beyond
    <3>3. L - k + S[k].unit = Size(S[k].block) /\ i = L + 1
      <4>1. k \in Nat /\ S[k].unit \in Nat /\ Size(S[k].block) \in Nat /\ i - k + S[k].unit = Size(S[k].block) + 1
        BY <1>2, <2>1, <2>3, <3>1
      <4>2. L \in Nat /\ i \in Nat /\ i > L
        BY <1>2, <3>1
      <4> DEFINE v == S[k].unit
                 y == Size(S[k].block)
      <4>3. v \in Nat /\ y \in Nat /\ k \in Nat /\ i - k + v = y + 1 /\ ~ (L - k + v < y)
        BY <3>2, <4>1
      <4> HIDE DEF v, y
      <4>4. L - k + v = y /\ i = L + 1
        BY <4>2, <4>3
      <4>5. QED
        BY <4>4 DEF v, y
    <3>4. o = 0 /\ Continues(S[k].block, t.block)
      BY <1>1, <1>2, <1>6, <2>3, <3>3 DEF Finished, L, o
    <3>5. QED
      BY <1>2, <3>1, <3>3, <3>4
  <2>4. CASE k \notin 1..L
    <3>1. k \in Nat /\ W[k].block = t.block /\ W[k].unit = o + (k - L) /\ i \in Nat /\ i <= L + n
      BY <1>3, <1>5, <2>4
    <3>2. i - L + o = z + 1
      BY <1>1, <1>2, <2>1, <3>1 DEF z
    <3>3. QED
      BY <1>1, <1>2, <3>1, <3>2
  <2>5. QED
    BY <2>2, <2>3, <2>4
<1>11. Ascending(W)
  <2>1. SUFFICES ASSUME NEW k \in DOMAIN W, NEW i \in DOMAIN W, k < i
                 PROVE  W[k].block = W[i].block \/ End(W[k].block) <= First(W[i].block)
    BY DEF Ascending
  <2>2. CASE i \in 1..L
    <3>1. k \in 1..L
      BY <1>2, <1>3, <2>1, <2>2
    <3>2. QED
      BY <1>2, <1>3, <1>6, <2>1, <2>2, <3>1 DEF Ascending
  <2>3. CASE i \notin 1..L /\ k \in 1..L
    BY <1>1, <1>2, <1>3, <1>5, <1>6, <2>3 DEF Between
  <2>4. CASE i \notin 1..L /\ k \notin 1..L
    BY <1>5, <2>4
  <2>5. QED
    BY <2>2, <2>3, <2>4
<1>12. Unfinished(W, w)
  <2> DEFINE m == L + n
  <2>0. Len(W) = m
    BY <1>3
  <2>1. ASSUME NEW k \in DOMAIN W, m - k + W[k].unit < Size(W[k].block)
        PROVE  w.block = W[k].block /\ w.offset = m - k + W[k].unit
    <3>1. CASE k \in 1..L
      <4>1. L - k + S[k].unit < Size(S[k].block) /\ W[k] = S[k]
        BY <1>1, <1>2, <1>3, <2>1, <3>1
      <4>2. t.block = S[k].block /\ o = L - k + S[k].unit /\ z = Size(S[k].block)
        BY <1>7, <3>1, <4>1 DEF z
      <4>3. o + n = (L + n) - k + S[k].unit
        <5>1. k \in Nat /\ S[k].unit \in Nat /\ o = L - k + S[k].unit
          BY <1>2, <3>1, <4>2
        <5>2. QED
          BY <1>1, <1>2, <5>1, Placed
      <4>4. o + n # z
        BY <1>1, <2>1, <4>1, <4>2, <4>3
      <4>5. QED
        BY <1>4, <4>1, <4>2, <4>3, <4>4
    <3>2. CASE k \notin 1..L
      <4>1. k \in Nat /\ W[k].block = t.block /\ W[k].unit = o + (k - L)
        BY <1>5, <3>2
      <4>2. (L + n) - k + W[k].unit = o + n
        BY <1>1, <1>2, <4>1
      <4>3. QED
        BY <1>1, <1>4, <2>1, <4>1, <4>2 DEF z
    <3>3. QED
      BY <3>1, <3>2
  <2> HIDE DEF m
  <2>2. QED
    BY <2>0, <2>1, UnfinishedAt
<1>13. Sent(W, w)
  <2>1. CASE o + n = z
    <3>1. \A i \in 1..(L + n) : ~ (i - (L + n) + 0 >= 1)
      BY <1>1, <1>2
    <3>2. QED
      BY <1>1, <1>2, <1>3, <1>4, <2>1, <3>1 DEF Sent
  <2>2. CASE o + n # z
    <3>1. w.offset <= L + n
      BY <1>1, <1>2, <1>4, <1>8, <2>2
    <3>2. ASSUME NEW i \in DOMAIN W, i - (L + n) + (o + n) >= 1
          PROVE  W[i] = [block |-> t.block, unit |-> i - (L + n) + (o + n)]
      <4>1. i \in Nat /\ i - (L + n) + (o + n) = i - L + o /\ i - L + o = o + (i - L)
        BY <1>1, <1>2, <1>3
      <4>2. CASE i \in 1..L
        BY <1>3, <1>8, <3>2, <4>1, <4>2
      <4>3. CASE i \notin 1..L
        BY <1>5, <4>1, <4>3
      <4>4. QED
        BY <4>2, <4>3
    <3>3. QED
      BY <1>3, <1>4, <2>2, <3>1, <3>2 DEF Sent
  <2>3. QED
    BY <2>1, <2>2
<1>14. Finished(W, w, e)
  <2> DEFINE m == L + n
  <2>0. Len(W) = m
    BY <1>3
  <2>1. ASSUME NEW k \in DOMAIN W, m - k + W[k].unit = Size(W[k].block)
        PROVE  IF Idle(w) THEN End(W[k].block) = e ELSE w.offset = 0 /\ Continues(W[k].block, w.block)
    <3>1. End(t.block) = e
      BY <1>1, <1>6 DEF Between
    <3>2. CASE k \notin 1..L
      <4>1. k \in Nat /\ W[k].block = t.block /\ W[k].unit = o + (k - L)
        BY <1>5, <3>2
      <4>2. o + n = z
        BY <1>1, <1>2, <2>1, <4>1 DEF z
      <4>3. QED
        BY <1>4, <3>1, <4>1, <4>2
    <3>3. CASE k \in 1..L /\ n = 0
      <4>1. W[k] = S[k] /\ L - k + S[k].unit = Size(S[k].block) /\ k \in DOMAIN S
        BY <1>2, <1>3, <2>1, <3>3
      <4>2. o = 0 /\ Continues(S[k].block, t.block)
        BY <1>1, <1>6, <4>1 DEF Finished, L, o
      <4>3. o + n # z
        BY <1>1, <3>3
      <4>4. QED
        BY <1>4, <3>3, <4>1, <4>2, <4>3
    <3>4. CASE k \in 1..L /\ n # 0
      <4>1. W[k] = S[k] /\ L - k + S[k].unit < Size(S[k].block)
        BY <1>1, <1>2, <1>3, <2>1, <3>4
      <4>2. t.block = S[k].block /\ o = L - k + S[k].unit /\ z = Size(S[k].block)
        BY <1>7, <3>4, <4>1 DEF z
      <4>3. o + n = z
        <5>1. k \in Nat /\ S[k].unit \in Nat /\ o = L - k + S[k].unit
          BY <1>2, <3>4, <4>2
        <5>2. o + n = (L + n) - k + S[k].unit
          BY <1>1, <1>2, <5>1, Placed
        <5>3. QED
          BY <2>1, <4>1, <4>2, <5>2
      <4>4. QED
        BY <1>4, <3>1, <4>1, <4>2, <4>3
    <3>5. QED
      BY <3>2, <3>3, <3>4
  <2> HIDE DEF m
  <2>2. QED
    BY <2>0, <2>1, FinishedAt
<1>15. Between(W, w, e, r)
  <2>1. /\ r <= e /\ End(t.block) = e /\ r <= First(t.block)
        /\ \A k \in 1..L : r <= First(S[k].block) /\ End(S[k].block) <= e
                           /\ (S[k].block = t.block \/ End(S[k].block) <= First(t.block))
    BY <1>1, <1>2, <1>6 DEF Between
  <2>2. ASSUME NEW k \in DOMAIN W
        PROVE  /\ r <= First(W[k].block) /\ End(W[k].block) <= e
               /\ W[k].block = t.block \/ End(W[k].block) <= First(t.block)
    BY <1>3, <1>5, <2>1
  <2>3. ~ Idle(w) => w.block = t.block
    BY <1>4
  <2>4. QED
    BY <2>1, <2>2, <2>3 DEF Between
<1>16. Awaited(W, w, e, r)
  <2>1. CASE S # << >>
    <3>1. 1 \in 1..L
      BY <1>2, <2>1 DEF L
    <3>2. W # << >> /\ W[1] = S[1]
      BY <1>2, <1>3, <3>1
    <3>3. QED
      BY <1>6, <2>1, <3>2 DEF Awaited
  <2>2. CASE S = << >>
    <3>1. L = 0 /\ o = 0 /\ Accepts(t.block, r)
      BY <1>1, <1>6, <1>8, <2>2 DEF L, Awaited
    <3>2. CASE n = 0
      <4>1. W = << >> /\ o + n # z
        BY <1>1, <1>3, <3>1, <3>2
      <4>2. QED
        BY <1>4, <3>1, <4>1 DEF Awaited
    <3>3. CASE n # 0
      <4>1. 1 \in 1..(L + n) /\ 1 > L
        BY <1>1, <3>1, <3>3
      <4>2. W # << >> /\ W[1].block = t.block /\ W[1].unit = 1
        BY <1>3, <3>1, <4>1
      <4>3. QED
        BY <3>1, <4>2 DEF Awaited
    <3>4. QED
      BY <3>2, <3>3
  <2>3. QED
    BY <2>1, <2>2
<1>17. Carried(W, w, e, r)
  BY <1>9, <1>10, <1>11, <1>12, <1>13, <1>14, <1>15, <1>16 DEF Carried
<1>18. QED
  BY <1>17 DEF W, w

\* The idle sender takes a block that continues the stream, or announces what was lost before it.
LEMMA Loads ==
  ASSUME NEW S \in Seq(Cells), NEW e \in Nat, NEW r \in Nat, Carried(S, IdleTx, e, r),
         NEW b \in Blocks, First(b) >= e, b.gap <=> First(b) # e, NEW d \in Nat
  PROVE  /\ [block |-> b, offset |-> 0, deadline |-> d] \in Writers
         /\ Carried(S, [block |-> b, offset |-> 0, deadline |-> d], End(b), r)
<1> DEFINE t == [block |-> b, offset |-> 0, deadline |-> d]
<1>1. t \in Writers /\ t.block = b /\ t.offset = 0
  BY BlockFacts, ChannelAssumption DEF Writers
<1>2. ~ Idle(t) /\ First(b) \in Nat /\ End(b) \in Nat /\ First(b) < End(b)
  BY <1>1, WriterFacts, BlockFacts
<1> HIDE DEF t
<1>3. Idle(IdleTx) /\ IdleTx.offset = 0 /\ IdleTx.block = NoBlock
  BY IdleFacts
<1>4. /\ Len(S) \in Nat /\ DOMAIN S = 1..Len(S)
      /\ \A k \in DOMAIN S : S[k].block \in Blocks /\ S[k].block # NoBlock /\ S[k].unit \in Nat
                             /\ First(S[k].block) \in Nat /\ End(S[k].block) \in Nat
  BY CellFacts, BlockFacts
<1>5. /\ Whole(S) /\ Linked(S) /\ Ascending(S)
      /\ Unfinished(S, IdleTx) /\ Finished(S, IdleTx, e)
      /\ Between(S, IdleTx, e, r) /\ Awaited(S, IdleTx, e, r)
  BY DEF Carried
<1>6. Unfinished(S, t)
  BY <1>3, <1>4, <1>5 DEF Unfinished
<1>7. Sent(S, t)
  BY <1>1, <1>4 DEF Sent
<1>8. Finished(S, t, End(b))
  BY <1>1, <1>2, <1>3, <1>4, <1>5 DEF Finished, Continues
<1>9. Between(S, t, End(b), r)
  <2>1. r <= e /\ r <= First(b) /\ r <= End(b)
    BY <1>2, <1>5 DEF Between
  <2>2. ASSUME NEW k \in DOMAIN S
        PROVE  r <= First(S[k].block) /\ End(S[k].block) <= End(b) /\ End(S[k].block) <= First(b)
    BY <1>2, <1>4, <1>5 DEF Between
  <2>3. QED
    BY <1>1, <2>1, <2>2 DEF Between
<1>10. Awaited(S, t, End(b), r)
  BY <1>1, <1>2, <1>3, <1>5 DEF Awaited, Accepts
<1>11. QED
  BY <1>1, <1>5, <1>6, <1>7, <1>8, <1>9, <1>10 DEF Carried, t

-----------------------------------------------------------------------------
(* What the receiver does to the stream.                                   *)

\* Places in a stream after a first part of z units has left it.
LEMMA Shifted ==
  ASSUME NEW z \in Nat, NEW m \in Nat, NEW i \in Nat, NEW k \in Nat, NEW u \in Nat
  PROVE  /\ (z + i) - (z + k) + u = i - k + u
         /\ (z + m) - (z + k) + u = m - k + u
         /\ (z + i) - (z + m) + u = i - m + u
OBVIOUS

\* A stream after its first part.
LEMMA Parts ==
  ASSUME NEW H \in Seq(Cells), NEW R \in Seq(Cells)
  PROVE  /\ H \o R \in Seq(Cells) /\ Len(H \o R) = Len(H) + Len(R)
         /\ Len(H) \in Nat /\ Len(R) \in Nat /\ DOMAIN H = 1..Len(H) /\ DOMAIN R = 1..Len(R)
         /\ DOMAIN (H \o R) = 1..(Len(H) + Len(R))
         /\ \A i \in 1..Len(H) : i \in 1..(Len(H) + Len(R)) /\ (H \o R)[i] = H[i]
         /\ \A i \in 1..Len(R) : /\ i \in Nat /\ Len(H) + i \in 1..(Len(H) + Len(R))
                                 /\ (H \o R)[Len(H) + i] = R[i]
<1>1. Len(H) \in Nat /\ Len(R) \in Nat /\ DOMAIN H = 1..Len(H) /\ DOMAIN R = 1..Len(R)
  BY LenProperties
<1>2. H \o R \in Seq(Cells) /\ Len(H \o R) = Len(H) + Len(R)
      /\ \A i \in 1..(Len(H) + Len(R)) : (H \o R)[i] = IF i <= Len(H) THEN H[i] ELSE R[i - Len(H)]
  BY ConcatProperties
<1>3. DOMAIN (H \o R) = 1..(Len(H) + Len(R))
  BY <1>2, LenProperties
<1>4. \A i \in 1..Len(H) : i \in 1..(Len(H) + Len(R)) /\ (H \o R)[i] = H[i]
  BY <1>1, <1>2
<1>5. ASSUME NEW i \in 1..Len(R)
      PROVE  i \in Nat /\ Len(H) + i \in 1..(Len(H) + Len(R)) /\ (H \o R)[Len(H) + i] = R[i]
  <2>1. i \in Nat /\ Len(H) + i \in 1..(Len(H) + Len(R)) /\ ~ (Len(H) + i <= Len(H)) /\ (Len(H) + i) - Len(H) = i
    BY <1>1
  <2>2. QED
    BY <1>2, <2>1
<1>6. QED
  BY <1>1, <1>2, <1>3, <1>4, <1>5

\* The first block of a stream, when all of it is there, is the one the receiver awaits, and what follows
\* continues it.
LEMMA Delivers ==
  ASSUME NEW H \in Seq(Cells), NEW R \in Seq(Cells), NEW t \in Writers \cup {IdleTx}, NEW e \in Nat, NEW r \in Nat,
         Carried(H \o R, t, e, r), H # << >>, Len(H) = Size(H[1].block)
  PROVE  /\ \A i \in 1..Len(H) : H[i] = [block |-> H[1].block, unit |-> i]
         /\ Accepts(H[1].block, r) /\ r <= First(H[1].block)
         /\ Carried(R, t, e, End(H[1].block))
<1> DEFINE S == H \o R
           z == Len(H)
           m == Len(R)
           b == H[1].block
<1>1. /\ S \in Seq(Cells) /\ Len(S) = z + m /\ z \in Nat /\ m \in Nat
      /\ DOMAIN S = 1..(z + m) /\ DOMAIN R = 1..m
      /\ \A i \in 1..z : i \in 1..(z + m) /\ S[i] = H[i]
      /\ \A i \in 1..m : i \in Nat /\ z + i \in 1..(z + m) /\ S[z + i] = R[i]
  BY Parts
<1>2. z # 0
  BY LenProperties, EmptySeq
<1>3. z = Size(b)
  OBVIOUS
<1>4. \A k \in 1..m : /\ R[k].block \in Blocks /\ R[k].unit \in Nat
                      /\ First(R[k].block) \in Nat /\ End(R[k].block) \in Nat /\ First(R[k].block) < End(R[k].block)
  BY <1>1, CellFacts, BlockFacts
<1>5. b \in Blocks
  BY <1>1, <1>2, CellFacts
<1>6. /\ Whole(S) /\ Linked(S) /\ Ascending(S)
      /\ Unfinished(S, t) /\ Sent(S, t) /\ Finished(S, t, e)
      /\ Between(S, t, e, r) /\ Awaited(S, t, e, r)
  BY DEF Carried
<1>7. First(b) \in Nat /\ End(b) \in Nat /\ First(b) < End(b)
  BY <1>5, BlockFacts
<1> SUFFICES /\ \A i \in 1..z : H[i] = [block |-> b, unit |-> i]
             /\ Accepts(b, r) /\ r <= First(b)
             /\ Carried(R, t, e, End(b))
  OBVIOUS
<1>8. S[1] = H[1] /\ 1 \in 1..z /\ 1 \in DOMAIN S
  BY <1>1, <1>2
<1> HIDE DEF S, z, m, b
<1>9. S # << >>
  BY <1>8
<1>10. S[1].block = b /\ S[1].unit = 1 /\ Accepts(b, r)
  BY <1>6, <1>8, <1>9 DEF Awaited, b
<1>11. ASSUME NEW i \in 1..z PROVE H[i] = [block |-> b, unit |-> i]
  <2>1. i \in DOMAIN S /\ S[i] = H[i] /\ i \in Nat
    BY <1>1
  <2>2. i - 1 + 1 = i /\ i - 1 + 1 \in 1..Size(b)
    BY <1>1, <1>3, <2>1
  <2>3. S[i] = [block |-> b, unit |-> i]
    BY <1>6, <1>8, <1>10, <2>1, <2>2 DEF Whole
  <2>4. QED
    BY <2>1, <2>3
<1>12. r <= First(b) /\ End(b) <= e
  BY <1>6, <1>8, <1>10 DEF Between
<1>13. ASSUME m # 0
       PROVE  R # << >> /\ 1 \in 1..m /\ R[1].unit = 1 /\ Continues(b, R[1].block) /\ End(b) <= First(R[1].block)
  <2>1. 1 \in 1..m /\ z + 1 \in DOMAIN S /\ S[z + 1] = R[1]
    BY <1>1, <1>13
  <2>2. (z + 1) - 1 + 1 = Size(b) + 1
    BY <1>1, <1>3
  <2>3. R[1].unit = 1 /\ Continues(b, R[1].block)
    BY <1>6, <1>8, <1>10, <2>1, <2>2 DEF Linked
  <2>4. End(b) <= First(R[1].block)
    BY <1>4, <1>7, <2>1, <2>3 DEF Continues
  <2>5. R # << >>
    BY <1>1, <2>1
  <2>6. QED
    BY <2>1, <2>3, <2>4, <2>5
<1>14. ASSUME m = 0
       PROVE  R = << >> /\ (IF Idle(t) THEN End(b) = e ELSE Continues(b, t.block))
  <2>1. R = << >>
    BY <1>14, EmptySeq DEF m
  <2>2. Len(S) - 1 + 1 = Size(b)
    BY <1>1, <1>3, <1>14
  <2>3. QED
    BY <1>6, <1>8, <1>10, <2>1, <2>2 DEF Finished
\* Nothing that is left precedes the end of the block.
<1>15. ASSUME NEW k \in 1..m PROVE End(b) <= First(R[k].block)
  <2>1. m # 0 /\ z + 1 \in DOMAIN S /\ z + k \in DOMAIN S /\ S[z + k] = R[k] /\ S[z + 1] = R[1] /\ k \in Nat /\ 1 \in 1..m
    <3>1. m # 0 /\ 1 \in 1..m
      BY <1>1
    <3>2. k \in Nat /\ z + k \in DOMAIN S /\ S[z + k] = R[k]
      BY <1>1
    <3>3. z + 1 \in DOMAIN S /\ S[z + 1] = R[1]
      BY <1>1, <3>1
    <3>4. QED
      BY <3>1, <3>2, <3>3
  <2>2. CASE k = 1
    BY <1>13, <2>1, <2>2
  <2>3. CASE k # 1
    <3>1. z + 1 < z + k
      BY <1>1, <2>1, <2>3
    <3>2. R[1].block = R[k].block \/ End(R[1].block) <= First(R[k].block)
      BY <1>6, <2>1, <3>1 DEF Ascending
    <3>3. QED
      BY <1>4, <1>7, <1>13, <2>1, <3>2
  <2>4. QED
    BY <2>2, <2>3
<1>16. Whole(R)
  <2>1. SUFFICES ASSUME NEW k \in 1..m, NEW i \in 1..m, i - k + R[k].unit \in 1..Size(R[k].block)
                 PROVE  R[i] = [block |-> R[k].block, unit |-> i - k + R[k].unit]
    BY <1>1 DEF Whole
  <2>2. (z + i) - (z + k) + R[k].unit = i - k + R[k].unit
    BY <1>1, <1>4, Shifted
  <2>3. z + k \in DOMAIN S /\ z + i \in DOMAIN S /\ S[z + k] = R[k] /\ S[z + i] = R[i]
    BY <1>1
  <2>4. QED
    BY <1>6, <2>1, <2>2, <2>3 DEF Whole
<1>17. Linked(R)
  <2>1. SUFFICES ASSUME NEW k \in 1..m, NEW i \in 1..m, i - k + R[k].unit = Size(R[k].block) + 1
                 PROVE  R[i].unit = 1 /\ Continues(R[k].block, R[i].block)
    BY <1>1 DEF Linked
  <2>2. (z + i) - (z + k) + R[k].unit = i - k + R[k].unit
    BY <1>1, <1>4, Shifted
  <2>3. z + k \in DOMAIN S /\ z + i \in DOMAIN S /\ S[z + k] = R[k] /\ S[z + i] = R[i]
    BY <1>1
  <2>4. QED
    BY <1>6, <2>1, <2>2, <2>3 DEF Linked
<1>18. Ascending(R)
  <2>1. SUFFICES ASSUME NEW k \in 1..m, NEW i \in 1..m, k < i
                 PROVE  R[k].block = R[i].block \/ End(R[k].block) <= First(R[i].block)
    BY <1>1 DEF Ascending
  <2>2. z + k < z + i
    BY <1>1, <2>1
  <2>3. QED
    BY <1>1, <1>6, <2>2 DEF Ascending
<1>19. Unfinished(R, t)
  <2>1. SUFFICES ASSUME NEW k \in 1..m, Len(R) - k + R[k].unit < Size(R[k].block)
                 PROVE  t.block = R[k].block /\ t.offset = Len(R) - k + R[k].unit
    BY <1>1 DEF Unfinished
  <2>2. Len(S) - (z + k) + R[k].unit = Len(R) - k + R[k].unit
    BY <1>1, <1>4, Shifted DEF m
  <2>3. QED
    BY <1>1, <1>6, <2>1, <2>2 DEF Unfinished
<1>20. t.offset \in Nat /\ (t # IdleTx => t.offset < Size(t.block)) /\ (t = IdleTx => t.offset = 0)
  BY WriterFacts, IdleFacts
<1>21. t.offset <= m
  <2>1. SUFFICES ASSUME t.offset > m PROVE FALSE
    BY <1>1, <1>20
  <2>2. z \in DOMAIN S /\ z \in 1..z /\ z - (z + m) + t.offset = t.offset - m /\ z - (z + m) + t.offset >= 1
    BY <1>1, <1>2, <1>20, <2>1
  <2>3. S[z] = [block |-> t.block, unit |-> t.offset - m]
    BY <1>1, <1>6, <2>2 DEF Sent
  <2>4. S[z] = [block |-> b, unit |-> z]
    BY <1>1, <1>11, <2>2
  <2>5. t.block = b /\ t.offset - m = z
    BY <2>3, <2>4
  <2>6. t # IdleTx
    BY <1>1, <1>20, <2>1
  <2>7. t.offset < z
    BY <1>3, <1>20, <2>5, <2>6
  <2>8. QED
    BY <1>1, <1>20, <2>5, <2>7
<1>22. Sent(R, t)
  <2>1. ASSUME NEW i \in 1..m, i - m + t.offset >= 1
        PROVE  R[i] = [block |-> t.block, unit |-> i - m + t.offset]
    <3>1. (z + i) - (z + m) + t.offset = i - m + t.offset
      BY <1>1, <1>20, Shifted
    <3>2. QED
      BY <1>1, <1>6, <2>1, <3>1 DEF Sent
  <2>2. QED
    BY <1>1, <1>21, <2>1 DEF Sent, m
<1>23. Finished(R, t, e)
  <2>1. SUFFICES ASSUME NEW k \in 1..m, Len(R) - k + R[k].unit = Size(R[k].block)
                 PROVE  IF Idle(t) THEN End(R[k].block) = e ELSE t.offset = 0 /\ Continues(R[k].block, t.block)
    BY <1>1 DEF Finished
  <2>2. Len(S) - (z + k) + R[k].unit = Len(R) - k + R[k].unit
    BY <1>1, <1>4, Shifted DEF m
  <2>3. QED
    BY <1>1, <1>6, <2>1, <2>2 DEF Finished
<1>24. Between(R, t, e, End(b))
  <2>1. ASSUME NEW k \in 1..m
        PROVE  /\ End(R[k].block) <= e
               /\ ~ Idle(t) => R[k].block = t.block \/ End(R[k].block) <= First(t.block)
    BY <1>1, <1>6 DEF Between
  <2>2. ASSUME ~ Idle(t) PROVE End(t.block) = e /\ End(b) <= First(t.block)
    <3>1. End(t.block) = e
      BY <1>6, <2>2 DEF Between
    <3>2. t \in Writers
      BY <2>2, IdleFacts
    <3>3. t.block \in Blocks /\ First(t.block) \in Nat
      BY <3>2, WriterFacts, BlockFacts
    <3>4. CASE m = 0
      BY <1>7, <1>14, <2>2, <3>1, <3>3, <3>4 DEF Continues
    <3>5. CASE m # 0
      BY <1>4, <1>7, <1>13, <2>1, <2>2, <3>1, <3>3, <3>5
    <3>6. QED
      BY <3>1, <3>4, <3>5
  <2>3. QED
    BY <1>1, <1>12, <1>15, <2>1, <2>2 DEF Between
<1>25. Awaited(R, t, e, End(b))
  BY <1>13, <1>14 DEF Awaited, Continues, Accepts
<1>26. QED
  BY <1>10, <1>11, <1>12, <1>16, <1>17, <1>18, <1>19, <1>22, <1>23, <1>24, <1>25 DEF Carried

-----------------------------------------------------------------------------
(* The frames of a stream and its sender.                                  *)

Held(S, t) == (UNION {Range(u.block.frames) : u \in Range(S)}) \cup Range(t.block.frames)

Interval(b) == First(b)..(End(b) - 1)

\* A frame is held by a unit of the stream or by the sender.
LEMMA HeldIs ==
  ASSUME NEW S \in Seq(Cells), NEW t \in Writers \cup {IdleTx}
  PROVE  /\ \A k \in DOMAIN S : Interval(S[k].block) \subseteq Held(S, t)
         /\ ~ Idle(t) => Interval(t.block) \subseteq Held(S, t)
         /\ \A f \in Held(S, t) :
              \/ \E k \in DOMAIN S : f \in Interval(S[k].block)
              \/ ~ Idle(t) /\ f \in Interval(t.block)
<1>1. \A k \in DOMAIN S : Range(S[k].block.frames) = Interval(S[k].block)
  BY CellFacts, BlockFacts DEF Interval
<1>2. \A u \in Range(S) : \E k \in DOMAIN S : u = S[k]
  BY DEF Range
<1>3. \A k \in DOMAIN S : S[k] \in Range(S)
  BY DEF Range
<1>4. ~ Idle(t) => Range(t.block.frames) = Interval(t.block)
  BY IdleFacts, WriterFacts, BlockFacts DEF Interval
<1>5. Idle(t) => Range(t.block.frames) = {}
  <2>1. ASSUME Idle(t) PROVE t.block.frames = << >>
    BY <2>1 DEF Idle, NoBlock
  <2>2. Range(<< >>) = {}
    BY DEF Range
  <2>3. QED
    BY <2>1, <2>2
<1> DEFINE U == UNION {Range(u.block.frames) : u \in Range(S)}
<1>6. Held(S, t) = U \cup Range(t.block.frames)
  BY DEF Held
<1>7. \A k \in DOMAIN S : Interval(S[k].block) \subseteq U
  BY <1>1, <1>3
<1>10. \A f \in U : \E k \in DOMAIN S : f \in Interval(S[k].block)
  BY <1>1, <1>2
<1> HIDE DEF U
<1>8. ASSUME NEW f \in Held(S, t)
      PROVE  \/ \E k \in DOMAIN S : f \in Interval(S[k].block)
             \/ ~ Idle(t) /\ f \in Interval(t.block)
  <2>1. CASE f \in Range(t.block.frames)
    BY <1>4, <1>5, <2>1
  <2>2. CASE f \notin Range(t.block.frames)
    <3>1. f \in U
      BY <1>6, <1>8, <2>2
    <3>2. QED
      BY <1>10, <3>1
  <2>3. QED
    BY <2>1, <2>2
<1>9. QED
  BY <1>4, <1>6, <1>7, <1>8

\* A write moves frames from the sender to the stream.
LEMMA HeldWritten ==
  ASSUME NEW S \in Seq(Cells), NEW t \in Writers, NEW n \in 0..(Size(t.block) - t.offset)
  PROVE  Held(S \o Units(t, n), Written(t, n)) = Held(S, t)
<1> DEFINE W == S \o Units(t, n)
           w == Written(t, n)
<1>1. /\ W \in Seq(Cells) /\ Len(W) = Len(S) + n /\ DOMAIN W = 1..(Len(S) + n)
      /\ \A i \in 1..Len(S) : W[i] = S[i]
      /\ \A i \in 1..(Len(S) + n) : i > Len(S) => W[i].block = t.block
  BY Extended, CellFacts
<1>2. Len(S) \in Nat /\ DOMAIN S = 1..Len(S) /\ n \in Nat
  BY CellFacts, WriterFacts, BlockFacts
<1>3. /\ t.offset + n = Size(t.block) => w = IdleTx
      /\ t.offset + n # Size(t.block) => w \in Writers /\ w.block = t.block
  BY WrittenFacts
<1>4. ~ Idle(t) /\ t.offset \in Nat /\ Size(t.block) \in Nat /\ t.offset < Size(t.block)
  BY WriterFacts, BlockFacts
<1> HIDE DEF W, w
<1>5. w \in Writers \cup {IdleTx}
  BY <1>3
<1>6. ASSUME NEW f \in Held(W, w) PROVE f \in Held(S, t)
  <2>1. Interval(t.block) \subseteq Held(S, t) /\ \A k \in DOMAIN S : Interval(S[k].block) \subseteq Held(S, t)
    BY <1>4, HeldIs
  <2>2. \/ \E k \in DOMAIN W : f \in Interval(W[k].block)
        \/ ~ Idle(w) /\ f \in Interval(w.block)
    BY <1>1, <1>5, HeldIs
  <2>3. CASE \E k \in DOMAIN W : f \in Interval(W[k].block)
    <3>1. PICK k \in DOMAIN W : f \in Interval(W[k].block)
      BY <2>3
    <3>2. CASE k \in 1..Len(S)
      BY <1>1, <1>2, <2>1, <3>1, <3>2
    <3>3. CASE k \notin 1..Len(S)
      BY <1>1, <1>2, <2>1, <3>1, <3>3
    <3>4. QED
      BY <3>2, <3>3
  <2>4. CASE ~ Idle(w) /\ f \in Interval(w.block)
    BY <1>3, <2>1, <2>4, IdleFacts
  <2>5. QED
    BY <2>2, <2>3, <2>4
<1>7. ASSUME NEW f \in Held(S, t) PROVE f \in Held(W, w)
  <2>1. /\ \A k \in DOMAIN W : Interval(W[k].block) \subseteq Held(W, w)
        /\ ~ Idle(w) => Interval(w.block) \subseteq Held(W, w)
    BY <1>1, <1>5, HeldIs
  <2>2. \/ \E k \in DOMAIN S : f \in Interval(S[k].block)
        \/ f \in Interval(t.block)
    BY HeldIs
  <2>3. CASE \E k \in DOMAIN S : f \in Interval(S[k].block)
    <3>1. PICK k \in DOMAIN S : f \in Interval(S[k].block)
      BY <2>3
    <3>2. k \in DOMAIN W /\ W[k] = S[k]
      BY <1>1, <1>2
    <3>3. QED
      BY <2>1, <3>1, <3>2
  <2>4. CASE f \in Interval(t.block) /\ n = 0
    <3>1. w \in Writers /\ w.block = t.block
      BY <1>3, <1>4, <2>4
    <3>2. QED
      BY <2>1, <2>4, <3>1, WriterFacts
  <2>5. CASE f \in Interval(t.block) /\ n # 0
    <3>1. Len(S) + n \in DOMAIN W /\ Len(S) + n > Len(S)
      BY <1>1, <1>2, <2>5
    <3>2. W[Len(S) + n].block = t.block
      BY <1>1, <3>1
    <3>3. QED
      BY <2>1, <2>5, <3>1, <3>2
  <2>6. QED
    BY <2>2, <2>3, <2>4, <2>5
<1>8. Held(W, w) = Held(S, t)
  BY <1>6, <1>7
<1>9. QED
  BY <1>8 DEF W, w

\* A block read from the source adds its frames.
LEMMA HeldLoaded ==
  ASSUME NEW S \in Seq(Cells), NEW t \in Writers
  PROVE  Held(S, t) = Held(S, IdleTx) \cup Interval(t.block)
<1>1. Range(t.block.frames) = Interval(t.block)
  BY WriterFacts, BlockFacts DEF Interval
<1>2. Range(IdleTx.block.frames) = {}
  <2>1. IdleTx.block.frames = << >>
    BY DEF IdleTx, NoBlock
  <2>2. Range(<< >>) = {}
    BY DEF Range
  <2>3. QED
    BY <2>1, <2>2
<1> DEFINE U == UNION {Range(u.block.frames) : u \in Range(S)}
<1>3. Held(S, t) = U \cup Range(t.block.frames) /\ Held(S, IdleTx) = U \cup Range(IdleTx.block.frames)
  BY DEF Held
<1> HIDE DEF U
<1>4. QED
  BY <1>1, <1>2, <1>3

\* The block delivered takes its frames away.
LEMMA HeldDelivered ==
  ASSUME NEW H \in Seq(Cells), NEW R \in Seq(Cells), NEW t \in Writers \cup {IdleTx}, NEW b \in Blocks,
         H # << >>, \A i \in 1..Len(H) : H[i].block = b
  PROVE  Held(H \o R, t) = Interval(b) \cup Held(R, t)
<1> DEFINE S == H \o R
<1>1. /\ S \in Seq(Cells) /\ Len(H) \in Nat /\ Len(R) \in Nat
      /\ DOMAIN S = 1..(Len(H) + Len(R)) /\ DOMAIN R = 1..Len(R)
      /\ \A i \in 1..Len(H) : i \in 1..(Len(H) + Len(R)) /\ S[i] = H[i]
      /\ \A i \in 1..Len(R) : /\ i \in Nat /\ Len(H) + i \in 1..(Len(H) + Len(R))
                              /\ S[Len(H) + i] = R[i]
  BY Parts
<1>2. Len(H) # 0
  BY LenProperties, EmptySeq
<1> HIDE DEF S
<1>3. /\ \A k \in DOMAIN S : Interval(S[k].block) \subseteq Held(S, t)
      /\ ~ Idle(t) => Interval(t.block) \subseteq Held(S, t)
      /\ \A f \in Held(S, t) :
           \/ \E k \in DOMAIN S : f \in Interval(S[k].block)
           \/ ~ Idle(t) /\ f \in Interval(t.block)
  BY <1>1, HeldIs
<1>4. /\ \A k \in DOMAIN R : Interval(R[k].block) \subseteq Held(R, t)
      /\ ~ Idle(t) => Interval(t.block) \subseteq Held(R, t)
      /\ \A f \in Held(R, t) :
           \/ \E k \in DOMAIN R : f \in Interval(R[k].block)
           \/ ~ Idle(t) /\ f \in Interval(t.block)
  BY HeldIs
<1>5. Interval(b) \subseteq Held(S, t)
  <2>1. 1 \in 1..Len(H)
    BY <1>1, <1>2
  <2>2. 1 \in DOMAIN S /\ S[1].block = b
    BY <1>1, <2>1
  <2>3. QED
    BY <1>3, <2>2
<1>6. ASSUME NEW f \in Held(R, t) PROVE f \in Held(S, t)
  <2>1. CASE ~ Idle(t) /\ f \in Interval(t.block)
    BY <1>3, <2>1
  <2>2. CASE \E k \in DOMAIN R : f \in Interval(R[k].block)
    <3>1. PICK k \in DOMAIN R : f \in Interval(R[k].block)
      BY <2>2
    <3>2. Len(H) + k \in DOMAIN S /\ S[Len(H) + k] = R[k]
      BY <1>1
    <3>3. QED
      BY <1>3, <3>1, <3>2
  <2>3. QED
    BY <1>4, <2>1, <2>2
<1>7. ASSUME NEW f \in Held(S, t) PROVE f \in Interval(b) \cup Held(R, t)
  <2>1. CASE ~ Idle(t) /\ f \in Interval(t.block)
    BY <1>4, <2>1
  <2>2. CASE \E k \in DOMAIN S : f \in Interval(S[k].block)
    <3>1. PICK k \in DOMAIN S : f \in Interval(S[k].block)
      BY <2>2
    <3>2. CASE k \in 1..Len(H)
      BY <1>1, <3>1, <3>2
    <3>3. CASE k \notin 1..Len(H)
      <4>1. k - Len(H) \in 1..Len(R) /\ Len(H) + (k - Len(H)) = k
        BY <1>1, <3>3
      <4>2. S[k] = R[k - Len(H)] /\ k - Len(H) \in DOMAIN R
        BY <1>1, <4>1
      <4>3. QED
        BY <1>4, <3>1, <4>2
    <3>4. QED
      BY <3>2, <3>3
  <2>3. QED
    BY <1>3, <2>1, <2>2
<1>8. Held(S, t) = Interval(b) \cup Held(R, t)
  BY <1>5, <1>6, <1>7
<1>9. QED
  BY <1>8 DEF S

\* What is on its way lies between the frames the two sides expect.
LEMMA HeldBetween ==
  ASSUME NEW S \in Seq(Cells), NEW t \in Writers \cup {IdleTx}, NEW e \in Nat, NEW r \in Nat, Between(S, t, e, r)
  PROVE  /\ r <= e
         /\ \A f \in Held(S, t) : f \in Nat /\ r <= f /\ f < e
<1>1. r <= e
  BY DEF Between
<1>2. ASSUME NEW f \in Held(S, t) PROVE f \in Nat /\ r <= f /\ f < e
  <2>1. ASSUME NEW b \in Blocks, f \in Interval(b), r <= First(b), End(b) <= e PROVE f \in Nat /\ r <= f /\ f < e
    <3>1. First(b) \in Nat /\ End(b) \in Nat
      BY BlockFacts
    <3>2. QED
      BY <2>1, <3>1 DEF Interval
  <2>2. CASE ~ Idle(t) /\ f \in Interval(t.block)
    <3>1. t \in Writers
      BY <2>2, IdleFacts
    <3>2. t.block \in Blocks /\ End(t.block) \in Nat /\ r <= First(t.block) /\ End(t.block) = e
      BY <2>2, <3>1, WriterFacts, BlockFacts DEF Between
    <3>3. End(t.block) <= e
      BY <3>2
    <3>4. QED
      BY <2>1, <2>2, <3>2, <3>3
  <2>3. CASE \E k \in DOMAIN S : f \in Interval(S[k].block)
    <3>1. PICK k \in DOMAIN S : f \in Interval(S[k].block)
      BY <2>3
    <3>2. S[k].block \in Blocks /\ r <= First(S[k].block) /\ End(S[k].block) <= e
      BY CellFacts DEF Between
    <3>3. QED
      BY <2>1, <3>1, <3>2
  <2>4. QED
    BY <2>2, <2>3, HeldIs
<1>3. QED
  BY <1>1, <1>2

-----------------------------------------------------------------------------
(* What the sender reads from the source.                                  *)

\* A set of natural numbers that is not empty has a least element.
LEMMA Least ==
  ASSUME NEW T \in SUBSET Nat, T # {}
  PROVE  \E x \in T : \A y \in T : x <= y
<1>1. IsWellFoundedOn(OpToRel(<, Nat), Nat)
  BY NatLessThanWellFounded
<1>2. PICK x \in T : \A y \in T : ~ (<<y, x>> \in OpToRel(<, Nat))
  BY <1>1, WFMin
<1>3. \A y \in T : x <= y
  <2>1. ASSUME NEW y \in T, y < x PROVE FALSE
    BY <1>2, <2>1 DEF OpToRel
  <2>2. QED
    BY <2>1
<1>4. QED
  BY <1>3

\* Consecutive numbers are known from the first.
LEMMA Consecutive ==
  ASSUME NEW s \in Seq(Nat), NEW n \in 1..Len(s), \A k \in 2..n : s[k] = s[k - 1] + 1
  PROVE  \A k \in 1..n : s[k] = s[1] + k - 1
<1> DEFINE T == {k \in 1..n : s[k] # s[1] + k - 1}
<1>1. Len(s) \in Nat /\ n \in Nat /\ \A k \in 1..n : s[k] \in Nat
  BY LenProperties
<1>2. SUFFICES ASSUME T # {} PROVE FALSE
  OBVIOUS
<1>3. T \in SUBSET Nat
  BY <1>1
<1>4. PICK x \in T : \A y \in T : x <= y
  BY <1>2, <1>3, Least
<1>5. x \in 1..n /\ x \in Nat /\ s[x] # s[1] + x - 1
  BY <1>1, <1>4
<1>6. x # 1
  BY <1>1, <1>5
<1>7. x - 1 \in 1..n /\ x \in 2..n /\ ~ (x <= x - 1)
  BY <1>1, <1>5, <1>6
<1>8. s[x - 1] = s[1] + (x - 1) - 1
  BY <1>4, <1>7
<1>9. s[x] = s[x - 1] + 1
  BY <1>7
<1>10. s[1] \in Nat
  BY <1>1, <1>7
<1>11. QED
  BY <1>5, <1>8, <1>9, <1>10

\* Frames consecutive from the first of the source, as many as a block holds: PcmConsumer::read.
Prefix(m) ==
  /\ \A k \in 2..m : source[k] = source[k - 1] + 1
  /\ m < Minimum(BlockFrames, Len(source)) => source[m + 1] # source[m] + 1

LEMMA PrefixExists ==
  ASSUME source \in Seq(Nat), source # << >>
  PROVE  /\ Minimum(BlockFrames, Len(source)) \in Nat /\ Minimum(BlockFrames, Len(source)) <= BlockFrames
         /\ Minimum(BlockFrames, Len(source)) <= Len(source) /\ Len(source) \in Nat
         /\ \E m \in 1..Minimum(BlockFrames, Len(source)) : Prefix(m)
<1> DEFINE M == Minimum(BlockFrames, Len(source))
<1>1. Len(source) \in Nat /\ Len(source) # 0 /\ BlockFrames \in Nat /\ BlockFrames # 0
  BY LenProperties, EmptySeq, ChannelAssumption
<1>2. M \in Nat /\ M >= 1 /\ M <= Len(source) /\ M <= BlockFrames
  BY <1>1 DEF Minimum
<1> HIDE DEF M
<1> DEFINE T == {m \in 1..M : m < M => source[m + 1] # source[m] + 1}
<1>3. M \in T /\ T \in SUBSET Nat
  BY <1>2
<1>4. PICK x \in T : \A y \in T : x <= y
  <2>1. T # {}
    BY <1>3
  <2> HIDE DEF T
  <2>2. QED
    BY <1>3, <2>1, Least
<1>5. x \in 1..M /\ x \in Nat /\ (x < M => source[x + 1] # source[x] + 1)
  BY <1>2
<1>6. ASSUME NEW k \in 2..x PROVE source[k] = source[k - 1] + 1
  <2>1. k - 1 \in 1..M /\ k - 1 < M /\ ~ (x <= k - 1) /\ (k - 1) + 1 = k
    BY <1>2, <1>5
  <2>2. k - 1 \notin T
    BY <1>4, <2>1
  <2>3. source[(k - 1) + 1] = source[k - 1] + 1
    BY <2>1, <2>2
  <2>4. QED
    BY <2>1, <2>3
<1>7. QED
  BY <1>1, <1>2, <1>5, <1>6 DEF Prefix, M

\* The block read: the first frames of the source, contiguous, with the gap before them announced.
LEMMA ReadFacts ==
  ASSUME source \in Seq(Nat), source # << >>, \A k \in DOMAIN source : expected <= source[k],
         \A j, k \in DOMAIN source : j < k => source[j] < source[k], expected \in Nat
  PROVE  /\ ReadBlock \in Blocks
         /\ ReadBlock.gap <=> First(ReadBlock) # expected
         /\ expected <= First(ReadBlock)
         /\ Len(ReadBlock.frames) \in 1..Len(source) /\ Len(source) \in Nat
         /\ \A k \in 1..Len(ReadBlock.frames) : source[k] = First(ReadBlock) + k - 1
         /\ Last(ReadBlock.frames) + 1 = End(ReadBlock)
         /\ Size(ReadBlock) \in Nat
<1> DEFINE M == Minimum(BlockFrames, Len(source))
           n == CHOOSE m \in 1..M : Prefix(m)
           b == [frames |-> SubSeq(source, 1, n), gap |-> source[1] # expected]
<1>1. ReadBlock = b
  BY DEF ReadBlock, Prefix
<1>2. M \in Nat /\ M <= BlockFrames /\ M <= Len(source) /\ Len(source) \in Nat /\ \E m \in 1..M : Prefix(m)
  BY PrefixExists
<1>3. n \in 1..M /\ Prefix(n)
  BY <1>2
<1> HIDE DEF n, M
<1>4. n \in Nat /\ n >= 1 /\ n <= BlockFrames /\ n <= Len(source) /\ n \in 1..Len(source) /\ BlockFrames \in Nat
  BY <1>2, <1>3, ChannelAssumption
<1>5. \A k \in 1..n : source[k] = source[1] + k - 1
  BY <1>3, <1>4, Consecutive DEF Prefix
<1>6. \A k \in 1..Len(source) : source[k] \in Nat
  OBVIOUS
<1> DEFINE s == SubSeq(source, 1, n)
<1>7. s \in Seq(Nat) /\ Len(s) = n /\ \A k \in 1..n : s[k] = source[k]
  <2>1. \A k \in 1..n : source[k] \in Nat
    BY <1>4, <1>6
  <2>2. /\ s \in Seq(Nat) /\ Len(s) = IF 1 <= n THEN n - 1 + 1 ELSE 0
        /\ \A k \in 1..(n - 1 + 1) : s[k] = source[1 + k - 1]
    BY <1>4, <2>1, SubSeqProperties
  <2> HIDE DEF s
  <2>3. n - 1 + 1 = n /\ 1 <= n
    BY <1>4
  <2>4. ASSUME NEW k \in 1..n PROVE s[k] = source[k]
    <3>1. 1 + k - 1 = k
      BY <1>4
    <3>2. QED
      BY <2>2, <2>3, <3>1
  <2>5. QED
    BY <2>2, <2>3, <2>4
<1>8. b.frames = s /\ b.gap = (source[1] # expected)
  OBVIOUS
<1> HIDE DEF s
<1>9. 1 \in 1..n /\ 1 \in 1..Len(source) /\ 1 \in DOMAIN source /\ source[1] \in Nat
  BY <1>4, <1>6
<1>10. s[1] = source[1] /\ First(b) = source[1]
  BY <1>7, <1>8, <1>9 DEF First
<1>11. \A k \in 1..n : s[k] = s[1] + k - 1
  BY <1>5, <1>7, <1>10
<1>12. b \in Blocks
  <2>1. b \in [frames : Seq(Nat), gap : BOOLEAN]
    BY <1>7 DEF s
  <2>2. n \in 1..BlockFrames
    BY <1>4
  <2> HIDE DEF b
  <2>3. QED
    BY <1>7, <1>8, <1>11, <2>1, <2>2 DEF Blocks
<1>13. End(b) = First(b) + n /\ Last(b.frames) + 1 = End(b)
  <2>1. End(b) = First(b) + n
    BY <1>7, <1>8 DEF End
  <2>2. n \in 1..n /\ Last(b.frames) = s[n]
    BY <1>4, <1>7, <1>8 DEF Last
  <2>3. s[n] = source[1] + n - 1
    BY <1>10, <1>11, <2>2
  <2> HIDE DEF b
  <2>4. QED
    BY <1>4, <1>9, <1>10, <2>1, <2>2, <2>3
<1>14. expected <= First(b)
  BY <1>9, <1>10
<1>15. b.gap <=> First(b) # expected
  BY <1>8, <1>10
<1>16. Size(b) \in Nat
  BY <1>12, BlockFacts
<1> HIDE DEF b
<1>17. QED
  BY <1>1, <1>4, <1>5, <1>7, <1>8, <1>10, <1>12, <1>13, <1>14, <1>15, <1>16

\* What the source keeps after a read.
LEMMA Remainder ==
  ASSUME source \in Seq(Nat), NEW n \in 1..Len(source)
  PROVE  /\ SubSeq(source, n + 1, Len(source)) \in Seq(Nat)
         /\ Len(SubSeq(source, n + 1, Len(source))) = Len(source) - n
         /\ \A k \in 1..(Len(source) - n) :
              n + k \in 1..Len(source) /\ SubSeq(source, n + 1, Len(source))[k] = source[n + k]
<1> DEFINE s == SubSeq(source, n + 1, Len(source))
           L == Len(source)
<1>1. L \in Nat /\ n \in Nat /\ n >= 1 /\ n <= L /\ \A k \in 1..L : source[k] \in Nat
  BY LenProperties
<1>2. /\ s \in Seq(Nat) /\ Len(s) = IF n + 1 <= L THEN L - (n + 1) + 1 ELSE 0
      /\ \A k \in 1..(L - (n + 1) + 1) : s[k] = source[(n + 1) + k - 1]
  <2>1. n + 1 \in Int /\ L \in Int /\ \A k \in (n + 1)..L : source[k] \in Nat
    BY <1>1
  <2>2. QED
    BY <2>1, SubSeqProperties
<1> HIDE DEF s, L
<1>3. L - (n + 1) + 1 = L - n /\ (~ (n + 1 <= L) => L - n = 0)
  BY <1>1
<1>4. ASSUME NEW k \in 1..(L - n) PROVE n + k \in 1..L /\ s[k] = source[n + k]
  <2>1. (n + 1) + k - 1 = n + k /\ n + k \in 1..L
    BY <1>1
  <2>2. QED
    BY <1>2, <1>3, <2>1
<1>5. s \in Seq(Nat) /\ Len(s) = L - n
  BY <1>2, <1>3
<1>6. QED
  BY <1>4, <1>5 DEF s, L

-----------------------------------------------------------------------------
(* Each step keeps the invariant.                                          *)

\* The facts the actions start from.
LEMMA StateFacts ==
  ASSUME IInv
  PROVE  /\ Stream \in Seq(Cells) /\ rx.units \in Seq(Cells) /\ pipe \in Seq(Cells)
         /\ tx \in Writers \cup {IdleTx} /\ expected \in Nat /\ rxNext \in Nat /\ sourceNext \in Nat
         /\ rxNext <= expected /\ expected <= sourceNext
         /\ OnWay = Held(Stream, tx)
         /\ \A f \in OnWay : f \in Nat /\ rxNext <= f /\ f < expected
<1>1. /\ rx.units \in Seq(Cells) /\ pipe \in Seq(Cells) /\ tx \in Writers \cup {IdleTx}
      /\ expected \in Nat /\ rxNext \in Nat /\ sourceNext \in Nat /\ expected <= sourceNext
  BY DEF IInv, SendTypes, ReceiveTypes
<1>2. Stream \in Seq(Cells)
  BY <1>1, ConcatProperties DEF Stream
<1>3. OnWay = Held(Stream, tx)
  BY DEF OnWay, Held
<1>4. Between(Stream, tx, expected, rxNext)
  BY DEF IInv, Carried
<1>5. QED
  BY <1>1, <1>2, <1>3, <1>4, HeldBetween

\* The frames of the source, as a set.
LEMMA SourceRange ==
  ASSUME NEW s \in Seq(Nat)
  PROVE  /\ DOMAIN s = 1..Len(s) /\ Len(s) \in Nat
         /\ \A k \in 1..Len(s) : s[k] \in Range(s) /\ s[k] \in Nat
         /\ \A f \in Range(s) : f \in Nat /\ \E k \in 1..Len(s) : f = s[k]
BY LenProperties DEF Range

LEMMA IInvInit == Init => IInv
<1> SUFFICES ASSUME Init PROVE IInv
  OBVIOUS
<1>1. << >> \in Seq(Cells) /\ << >> \in Seq(Nat) /\ Len(<< >>) = 0 /\ DOMAIN << >> = {} /\ << >> \o << >> = << >>
  OBVIOUS
<1>2. 0 \in Nat /\ ~ (0 >= HeaderUnits) /\ MaxFrame \in Nat /\ MaxTime \in Nat
      /\ SourceCapacity >= 0 /\ PipeUnits >= 0 /\ DestCapacity >= 0
  BY ChannelAssumption
<1>3. SendTypes
  BY <1>1, <1>2 DEF Init, SendTypes
<1>4. ReceiveTypes
  <2>1. rx.units = << >> /\ rx.deadline = NoTime /\ rx = [units |-> << >>, deadline |-> NoTime]
    BY DEF Init, IdleRx
  <2>2. rx \in [units : Seq(Cells), deadline : Nat \cup {NoTime}]
    BY <1>1, <2>1
  <2>3. IsFiniteSet({}) /\ << >> \in Seq([position : Nat, frame : Nat])
    BY FS_EmptySet
  <2>4. QED
    BY <1>1, <1>2, <2>1, <2>2, <2>3 DEF Init, ReceiveTypes
<1>5. SourceInOrder
  BY <1>1 DEF Init, SourceInOrder
<1>6. Stream = << >>
  BY <1>1 DEF Init, Stream, IdleRx
<1>7. Carried(Stream, tx, expected, rxNext)
  <2>1. Carried(<< >>, IdleTx, 0, 0)
    <3>1. Whole(<< >>) /\ Linked(<< >>) /\ Ascending(<< >>)
      BY <1>1 DEF Whole, Linked, Ascending
    <3>2. Unfinished(<< >>, IdleTx) /\ Sent(<< >>, IdleTx) /\ Finished(<< >>, IdleTx, 0)
      BY <1>1, IdleFacts DEF Unfinished, Sent, Finished
    <3>3. Between(<< >>, IdleTx, 0, 0) /\ Awaited(<< >>, IdleTx, 0, 0)
      BY <1>1, IdleFacts DEF Between, Awaited
    <3>4. QED
      BY <3>1, <3>2, <3>3 DEF Carried
  <2>2. QED
    BY <1>6, <2>1 DEF Init
<1>8. Places
  <2>1. Range(<< >>) = {}
    BY <1>1 DEF Range
  <2>2. OnWay = {}
    <3>1. tx.block.frames = << >>
      BY DEF Init, IdleTx, NoBlock
    <3>2. QED
      BY <1>6, <2>1, <3>1 DEF OnWay
  <2>3. 0..(0 - 1) = {}
    OBVIOUS
  <2>4. QED
    BY <2>1, <2>2, <2>3 DEF Init, Places
<1>9. PositionKept
  <2>1. Cardinality({}) = 0
    BY FS_EmptySet
  <2>2. QED
    BY <1>1, <2>1 DEF Init, PositionKept
<1>10. QED
  BY <1>3, <1>4, <1>5, <1>7, <1>8, <1>9 DEF IInv

\* Steps that leave what the invariant is about alone.
LEMMA OtherStep ==
  ASSUME IInv, OutboundClose \/ InboundClose \/ Tick \/ UNCHANGED vars
  PROVE  IInv'
<1>1. /\ source' = source /\ sourceNext' = sourceNext /\ expected' = expected /\ flushed' = flushed
      /\ tx' = tx /\ pipe' = pipe /\ rx' = rx /\ rxNext' = rxNext /\ inNext' = inNext /\ dest' = dest
      /\ destNext' = destNext /\ discarded' = discarded /\ arrived' = arrived /\ dropped' = dropped
  BY DEF OutboundClose, InboundClose, Tick, vars, sourceVars, destVars
<1>2. clock' \in Nat /\ clock' <= MaxTime /\ txOpen' \in BOOLEAN /\ rxOpen' \in BOOLEAN
  <2>1. clock \in Nat /\ clock <= MaxTime /\ MaxTime \in Nat /\ txOpen \in BOOLEAN /\ rxOpen \in BOOLEAN
    BY ChannelAssumption DEF IInv, SendTypes
  <2>2. CASE Tick
    <3>1. clock' = clock + 1 /\ clock < MaxTime /\ txOpen' = txOpen /\ rxOpen' = rxOpen
      BY <2>2 DEF Tick
    <3>2. QED
      BY <2>1, <3>1
  <2>3. CASE OutboundClose
    BY <2>1, <2>3 DEF OutboundClose
  <2>4. CASE InboundClose
    BY <2>1, <2>4 DEF InboundClose
  <2>5. CASE UNCHANGED vars
    BY <2>1, <2>5 DEF vars
  <2>6. QED
    BY <2>2, <2>3, <2>4, <2>5
<1>3. SendTypes' /\ ReceiveTypes'
  BY <1>1, <1>2 DEF IInv, SendTypes, ReceiveTypes
<1>4. SourceInOrder' /\ PositionKept'
  BY <1>1 DEF IInv, SourceInOrder, PositionKept
<1>5. Stream' = Stream /\ OnWay' = OnWay
  BY <1>1 DEF Stream, OnWay
<1>6. Carried(Stream, tx, expected, rxNext)' /\ Places'
  BY <1>1, <1>5 DEF IInv, Places
<1>7. QED
  BY <1>3, <1>4, <1>6 DEF IInv

\* Frames enter the source, or are lost before it.
LEMMA SourcePushStep ==
  ASSUME IInv, SourcePush
  PROVE  IInv'
<1> DEFINE n == sourceNext
<1>1. /\ source' = Append(source, n) /\ sourceNext' = n + 1 /\ n < MaxFrame /\ Len(source) < SourceCapacity
      /\ expected' = expected /\ flushed' = flushed
      /\ tx' = tx /\ pipe' = pipe /\ rx' = rx /\ rxNext' = rxNext /\ inNext' = inNext /\ dest' = dest
      /\ destNext' = destNext /\ discarded' = discarded /\ arrived' = arrived /\ dropped' = dropped
      /\ clock' = clock /\ txOpen' = txOpen /\ rxOpen' = rxOpen
  BY DEF SourcePush, destVars
<1>2. /\ source \in Seq(Nat) /\ Len(source) \in Nat /\ DOMAIN source = 1..Len(source) /\ n \in Nat
      /\ expected \in Nat /\ expected <= n /\ MaxFrame \in Nat /\ SourceCapacity \in Nat
      /\ \A k \in 1..Len(source) : source[k] \in Nat
  BY LenProperties, ChannelAssumption DEF IInv, SendTypes
<1> DEFINE s == Append(source, n)
<1>3. /\ s \in Seq(Nat) /\ Len(s) = Len(source) + 1 /\ DOMAIN s = 1..(Len(source) + 1)
      /\ \A k \in 1..Len(source) : s[k] = source[k]
      /\ s[Len(source) + 1] = n
  BY <1>2, AppendProperties, LenProperties
<1> HIDE DEF s, n
<1>4. source' = s
  BY <1>1 DEF s
<1>5. SendTypes'
  <2>1. n + 1 \in Nat /\ n + 1 <= MaxFrame /\ expected <= n + 1 /\ Len(s) <= SourceCapacity
    BY <1>1, <1>2, <1>3
  <2>2. QED
    BY <1>1, <1>3, <1>4, <2>1 DEF IInv, SendTypes
<1>6. ReceiveTypes' /\ PositionKept'
  BY <1>1 DEF IInv, ReceiveTypes, PositionKept
<1>7. ASSUME NEW k \in 1..Len(source) PROVE expected <= source[k] /\ source[k] < n
  BY <1>2 DEF IInv, SourceInOrder, n
<1>8. SourceInOrder'
  <2>1. ASSUME NEW k \in DOMAIN s PROVE k \in 1..Len(source) \/ k = Len(source) + 1
    BY <1>2, <1>3
  <2>2. ASSUME NEW k \in DOMAIN s PROVE expected <= s[k] /\ s[k] < n + 1
    <3>1. CASE k \in 1..Len(source)
      BY <1>2, <1>3, <1>7, <3>1
    <3>2. CASE k = Len(source) + 1
      BY <1>2, <1>3, <3>2
    <3>3. QED
      BY <2>1, <3>1, <3>2
  <2>3. ASSUME NEW j \in DOMAIN s, NEW k \in DOMAIN s, j < k PROVE s[j] < s[k]
    <3>1. j \in 1..Len(source)
      BY <1>2, <1>3, <2>3
    <3>2. CASE k \in 1..Len(source)
      <4>1. source[j] < source[k]
        BY <1>2, <2>3, <3>1, <3>2 DEF IInv, SourceInOrder
      <4>2. QED
        BY <1>3, <3>1, <3>2, <4>1
    <3>3. CASE k = Len(source) + 1
      BY <1>3, <1>7, <3>1, <3>3
    <3>4. QED
      BY <2>1, <3>2, <3>3
  <2>4. QED
    BY <1>1, <1>4, <2>2, <2>3 DEF SourceInOrder
<1>9. Stream' = Stream /\ OnWay' = OnWay
  BY <1>1 DEF Stream, OnWay
<1>10. Range(s) = Range(source) \cup {n}
  <2>1. \A f \in Range(s) : f \in Range(source) \/ f = n
    <3>1. ASSUME NEW k \in 1..(Len(source) + 1) PROVE s[k] \in Range(source) \/ s[k] = n
      <4>1. k \in 1..Len(source) \/ k = Len(source) + 1
        BY <1>2
      <4>2. QED
        BY <1>2, <1>3, <4>1, SourceRange
    <3>2. QED
      BY <1>3, <3>1, SourceRange
  <2>2. \A f \in Range(source) : f \in Range(s)
    <3>1. ASSUME NEW k \in 1..Len(source) PROVE source[k] \in Range(s)
      <4>1. k \in 1..Len(s) /\ s[k] = source[k]
        BY <1>2, <1>3
      <4>2. QED
        BY <1>3, <4>1, SourceRange
    <3>2. QED
      BY <1>2, <3>1, SourceRange
  <2>3. n \in Range(s)
    <3>1. Len(source) + 1 \in 1..Len(s)
      BY <1>2, <1>3
    <3>2. QED
      BY <1>3, <3>1, SourceRange
  <2>4. QED
    BY <2>1, <2>2, <2>3
<1>11. 0..((n + 1) - 1) = (0..(n - 1)) \cup {n} /\ n \notin 0..(n - 1)
  BY <1>2
<1>12. Places'
  <2>1. /\ 0..(n - 1) = Range(source) \cup OnWay \cup arrived \cup dropped \cup flushed
        /\ arrived \cup dropped \subseteq 0..(rxNext - 1) /\ arrived \cap dropped = {}
        /\ flushed \cap (Range(source) \cup OnWay \cup arrived \cup dropped) = {}
    BY DEF IInv, Places, n
  <2>2. n \notin flushed
    BY <1>11, <2>1
  <2>3. /\ 0..(n + 1 - 1) = Range(s) \cup OnWay \cup arrived \cup dropped \cup flushed
        /\ flushed \cap (Range(s) \cup OnWay \cup arrived \cup dropped) = {}
    BY <1>10, <1>11, <2>1, <2>2
  <2>4. /\ sourceNext' = n + 1 /\ Range(source') = Range(s) /\ OnWay' = OnWay /\ rxNext' = rxNext
        /\ arrived' = arrived /\ dropped' = dropped /\ flushed' = flushed
    BY <1>1, <1>4, <1>9
  <2>5. Range(source)' = Range(s)
    BY <2>4
  <2>6. (0..(sourceNext - 1) = Range(source) \cup OnWay \cup arrived \cup dropped \cup flushed)'
    <3>1. sourceNext' - 1 = n /\ n + 1 - 1 = n
      BY <1>2, <2>4
    <3>2. 0..n = Range(s) \cup OnWay \cup arrived \cup dropped \cup flushed
      BY <2>3, <3>1
    <3>3. QED
      BY <2>4, <2>5, <3>1, <3>2
  <2>7. (flushed \cap (Range(source) \cup OnWay \cup arrived \cup dropped) = {})'
    BY <2>3, <2>4, <2>5
  <2>8. (arrived \cup dropped \subseteq 0..(rxNext - 1) /\ arrived \cap dropped = {})'
    BY <2>1, <2>4
  <2>9. QED
    BY <2>6, <2>7, <2>8 DEF Places
<1>13. Carried(Stream, tx, expected, rxNext)'
  BY <1>1, <1>9 DEF IInv
<1>14. QED
  BY <1>5, <1>6, <1>8, <1>12, <1>13 DEF IInv


LEMMA SourceDiscardStep ==
  ASSUME IInv, SourceDiscard
  PROVE  IInv'
<1> DEFINE n == sourceNext
<1>1. /\ source' = source /\ sourceNext' = n + 1 /\ n < MaxFrame
      /\ expected' = expected /\ flushed' = flushed \cup {n}
      /\ tx' = tx /\ pipe' = pipe /\ rx' = rx /\ rxNext' = rxNext /\ inNext' = inNext /\ dest' = dest
      /\ destNext' = destNext /\ discarded' = discarded /\ arrived' = arrived /\ dropped' = dropped
      /\ clock' = clock /\ txOpen' = txOpen /\ rxOpen' = rxOpen
  BY DEF SourceDiscard, destVars
<1>2. /\ n \in Nat /\ expected \in Nat /\ expected <= n /\ MaxFrame \in Nat
      /\ DOMAIN source = 1..Len(source) /\ \A k \in 1..Len(source) : source[k] \in Nat
  BY LenProperties, ChannelAssumption DEF IInv, SendTypes
<1> HIDE DEF n
<1>3. SendTypes'
  <2>1. n + 1 \in Nat /\ n + 1 <= MaxFrame /\ expected <= n + 1
    BY <1>1, <1>2
  <2>2. QED
    BY <1>1, <2>1 DEF IInv, SendTypes
<1>4. ReceiveTypes' /\ PositionKept'
  BY <1>1 DEF IInv, ReceiveTypes, PositionKept
<1>5. SourceInOrder'
  <2>1. ASSUME NEW k \in DOMAIN source PROVE expected <= source[k] /\ source[k] < n + 1
    <3>1. expected <= source[k] /\ source[k] < n /\ source[k] \in Nat
      BY <1>2 DEF IInv, SourceInOrder, n
    <3>2. QED
      BY <1>2, <3>1
  <2>2. \A j, k \in DOMAIN source : j < k => source[j] < source[k]
    BY DEF IInv, SourceInOrder
  <2>3. QED
    BY <1>1, <2>1, <2>2 DEF SourceInOrder
<1>6. Stream' = Stream /\ OnWay' = OnWay
  BY <1>1 DEF Stream, OnWay
<1>7. 0..((n + 1) - 1) = (0..(n - 1)) \cup {n} /\ n \notin 0..(n - 1)
  BY <1>2
<1>8. Places'
  <2>1. /\ 0..(n - 1) = Range(source) \cup OnWay \cup arrived \cup dropped \cup flushed
        /\ arrived \cup dropped \subseteq 0..(rxNext - 1) /\ arrived \cap dropped = {}
        /\ flushed \cap (Range(source) \cup OnWay \cup arrived \cup dropped) = {}
    BY DEF IInv, Places, n
  <2>2. n \notin Range(source) \cup OnWay \cup arrived \cup dropped
    BY <1>7, <2>1
  <2>3. /\ 0..(n + 1 - 1) = Range(source) \cup OnWay \cup arrived \cup dropped \cup (flushed \cup {n})
        /\ (flushed \cup {n}) \cap (Range(source) \cup OnWay \cup arrived \cup dropped) = {}
    BY <1>7, <2>1, <2>2
  <2>4. QED
    BY <1>1, <1>6, <2>1, <2>3 DEF Places
<1>9. Carried(Stream, tx, expected, rxNext)'
  BY <1>1, <1>6 DEF IInv
<1>10. QED
  BY <1>3, <1>4, <1>5, <1>8, <1>9 DEF IInv

\* The frames of the source are neither on their way nor beyond.
LEMMA SourceApart ==
  ASSUME IInv
  PROVE  Range(source) \cap (OnWay \cup arrived \cup dropped) = {}
<1>1. /\ rxNext \in Nat /\ expected \in Nat /\ rxNext <= expected
      /\ \A f \in OnWay : f \in Nat /\ f < expected
  BY StateFacts
<1>2. source \in Seq(Nat)
  BY DEF IInv, SendTypes
<1>3. ASSUME NEW f \in Range(source) PROVE f \in Nat /\ expected <= f
  <2>1. PICK k \in 1..Len(source) : f = source[k]
    BY <1>2, SourceRange
  <2>2. k \in DOMAIN source
    BY <1>2, SourceRange
  <2>3. QED
    BY <1>2, <1>3, <2>1, <2>2, SourceRange DEF IInv, SourceInOrder
<1>4. \A f \in arrived \cup dropped : f \in 0..(rxNext - 1)
  BY DEF IInv, Places
<1>5. ASSUME NEW f \in Range(source), f \in OnWay \cup arrived \cup dropped PROVE FALSE
  <2>1. f \in Nat /\ expected <= f
    BY <1>3
  <2>2. CASE f \in OnWay
    BY <1>1, <2>1, <2>2
  <2>3. CASE f \in arrived \cup dropped
    <3>1. f \in 0..(rxNext - 1)
      BY <1>4, <2>3
    <3>2. QED
      BY <1>1, <2>1, <3>1
  <2>4. QED
    BY <1>5, <2>2, <2>3
<1>6. QED
  BY <1>5

LEMMA SourceFlushStep ==
  ASSUME IInv, SourceFlush
  PROVE  IInv'
<1>1. /\ source' = << >> /\ sourceNext' = sourceNext
      /\ expected' = expected /\ flushed' = flushed \cup Range(source)
      /\ tx' = tx /\ pipe' = pipe /\ rx' = rx /\ rxNext' = rxNext /\ inNext' = inNext /\ dest' = dest
      /\ destNext' = destNext /\ discarded' = discarded /\ arrived' = arrived /\ dropped' = dropped
      /\ clock' = clock /\ txOpen' = txOpen /\ rxOpen' = rxOpen
  BY DEF SourceFlush, destVars
<1>2. << >> \in Seq(Nat) /\ Len(<< >>) = 0 /\ DOMAIN << >> = {} /\ 0 <= SourceCapacity
  BY ChannelAssumption
<1>3. SendTypes'
  BY <1>1, <1>2 DEF IInv, SendTypes
<1>4. ReceiveTypes' /\ PositionKept'
  BY <1>1 DEF IInv, ReceiveTypes, PositionKept
<1>5. SourceInOrder'
  BY <1>1, <1>2 DEF SourceInOrder
<1>6. Stream' = Stream /\ OnWay' = OnWay
  BY <1>1 DEF Stream, OnWay
<1>7. Places'
  <2>1. /\ 0..(sourceNext - 1) = Range(source) \cup OnWay \cup arrived \cup dropped \cup flushed
        /\ arrived \cup dropped \subseteq 0..(rxNext - 1) /\ arrived \cap dropped = {}
        /\ flushed \cap (Range(source) \cup OnWay \cup arrived \cup dropped) = {}
    BY DEF IInv, Places
  <2>2. Range(source) \cap (OnWay \cup arrived \cup dropped) = {}
    BY SourceApart
  <2>3. Range(<< >>) = {}
    BY <1>2 DEF Range
  <2>4. /\ 0..(sourceNext - 1) = Range(<< >>) \cup OnWay \cup arrived \cup dropped \cup (flushed \cup Range(source))
        /\ (flushed \cup Range(source)) \cap (Range(<< >>) \cup OnWay \cup arrived \cup dropped) = {}
    BY <2>1, <2>2, <2>3
  <2>5. QED
    BY <1>1, <1>6, <2>1, <2>4 DEF Places
<1>8. Carried(Stream, tx, expected, rxNext)'
  BY <1>1, <1>6 DEF IInv
<1>9. QED
  BY <1>3, <1>4, <1>5, <1>7, <1>8 DEF IInv

LEMMA DestReadStep ==
  ASSUME IInv, DestRead
  PROVE  IInv'
<1>1. /\ source' = source /\ sourceNext' = sourceNext /\ expected' = expected /\ flushed' = flushed
      /\ tx' = tx /\ pipe' = pipe /\ rx' = rx /\ rxNext' = rxNext /\ inNext' = inNext
      /\ dest # << >> /\ dest' = Tail(dest)
      /\ destNext' = destNext /\ discarded' = discarded /\ arrived' = arrived /\ dropped' = dropped
      /\ clock' = clock /\ txOpen' = txOpen /\ rxOpen' = rxOpen
  BY DEF DestRead, sourceVars
<1> DEFINE Out == [position : Nat, frame : Nat]
           d == Tail(dest)
<1>2. dest \in Seq(Out) /\ Len(dest) <= DestCapacity /\ Len(dest) \in Nat /\ DOMAIN dest = 1..Len(dest)
  BY LenProperties DEF IInv, ReceiveTypes
<1> HIDE DEF Out
<1>3. d \in Seq(Out) /\ Len(d) = Len(dest) - 1 /\ \A i \in 1..Len(d) : d[i] = dest[i + 1]
  BY <1>1, <1>2, HeadTailProperties
<1>4. DOMAIN d = 1..Len(d) /\ Len(d) \in Nat
  BY <1>3, LenProperties
<1> HIDE DEF d
<1>5. dest' = d
  BY <1>1 DEF d
<1>6. SendTypes'
  BY <1>1 DEF IInv, SendTypes
<1>7. ReceiveTypes'
  <2>1. Len(d) <= DestCapacity
    BY <1>2, <1>3, ChannelAssumption
  <2>2. QED
    BY <1>1, <1>3, <1>5, <2>1 DEF IInv, ReceiveTypes, Out
<1>8. PositionKept'
  <2>1. ASSUME NEW k \in DOMAIN d PROVE d[k].position = d[k].frame
    <3>1. k + 1 \in DOMAIN dest /\ d[k] = dest[k + 1]
      BY <1>2, <1>3, <1>4
    <3>2. QED
      BY <3>1 DEF IInv, PositionKept
  <2>2. discarded + Cardinality(arrived) = inNext
    BY DEF IInv, PositionKept
  <2>3. QED
    BY <1>1, <1>5, <2>1, <2>2 DEF PositionKept
<1>9. SourceInOrder'
  BY <1>1 DEF IInv, SourceInOrder
<1>10. Stream' = Stream /\ OnWay' = OnWay
  BY <1>1 DEF Stream, OnWay
<1>11. Carried(Stream, tx, expected, rxNext)' /\ Places'
  BY <1>1, <1>10 DEF IInv, Places
<1>12. QED
  BY <1>6, <1>7, <1>8, <1>9, <1>11 DEF IInv


-----------------------------------------------------------------------------
(* The receiver takes n units from the socket.                             *)

LEMMA Split ==
  ASSUME NEW p \in Seq(Cells), NEW n \in 0..Len(p)
  PROVE  /\ SubSeq(p, 1, n) \in Seq(Cells) /\ Len(SubSeq(p, 1, n)) = n
         /\ SubSeq(p, n + 1, Len(p)) \in Seq(Cells) /\ Len(SubSeq(p, n + 1, Len(p))) = Len(p) - n
         /\ p = SubSeq(p, 1, n) \o SubSeq(p, n + 1, Len(p))
<1> DEFINE A == SubSeq(p, 1, n)
           B == SubSeq(p, n + 1, Len(p))
           L == Len(p)
<1>1. L \in Nat /\ n \in Nat /\ n <= L /\ \A k \in 1..L : p[k] \in Cells
  BY LenProperties
<1>2. A \in Seq(Cells) /\ Len(A) = n /\ \A k \in 1..n : A[k] = p[k]
  <2>1. \A k \in 1..n : p[k] \in Cells
    BY <1>1
  <2>2. /\ A \in Seq(Cells) /\ Len(A) = IF 1 <= n THEN n - 1 + 1 ELSE 0
        /\ \A k \in 1..(n - 1 + 1) : A[k] = p[1 + k - 1]
    BY <1>1, <2>1, SubSeqProperties
  <2> HIDE DEF A
  <2>3. n - 1 + 1 = n /\ (~ (1 <= n) => n = 0)
    BY <1>1
  <2>4. ASSUME NEW k \in 1..n PROVE A[k] = p[k]
    <3>1. 1 + k - 1 = k
      BY <1>1
    <3>2. QED
      BY <2>2, <2>3, <3>1
  <2>5. Len(A) = n
    BY <2>2, <2>3
  <2>6. QED
    BY <2>2, <2>4, <2>5
<1>3. B \in Seq(Cells) /\ Len(B) = L - n /\ \A k \in 1..(L - n) : B[k] = p[n + k]
  <2>1. \A k \in (n + 1)..L : p[k] \in Cells
    BY <1>1
  <2>2. /\ B \in Seq(Cells) /\ Len(B) = IF n + 1 <= L THEN L - (n + 1) + 1 ELSE 0
        /\ \A k \in 1..(L - (n + 1) + 1) : B[k] = p[(n + 1) + k - 1]
    BY <1>1, <2>1, SubSeqProperties
  <2> HIDE DEF B, L
  <2>3. L - (n + 1) + 1 = L - n /\ (~ (n + 1 <= L) => L - n = 0)
    BY <1>1
  <2>4. ASSUME NEW k \in 1..(L - n) PROVE B[k] = p[n + k]
    <3>1. (n + 1) + k - 1 = n + k
      BY <1>1
    <3>2. QED
      BY <2>2, <2>3, <3>1
  <2>5. Len(B) = L - n
    BY <2>2, <2>3
  <2>6. QED
    BY <2>2, <2>4, <2>5
<1> HIDE DEF A, B
<1>4. p = A \o B
  <2>1. /\ A \o B \in Seq(Cells) /\ Len(A \o B) = n + (L - n)
        /\ \A i \in 1..(n + (L - n)) : (A \o B)[i] = IF i <= n THEN A[i] ELSE B[i - n]
    BY <1>2, <1>3, ConcatProperties
  <2>2. n + (L - n) = L
    BY <1>1
  <2>3. ASSUME NEW i \in 1..L PROVE (A \o B)[i] = p[i]
    <3>1. CASE i <= n
      <4>1. i \in 1..n
        BY <1>1, <3>1
      <4>2. QED
        BY <1>2, <2>1, <2>2, <3>1, <4>1
    <3>2. CASE ~ (i <= n)
      <4>1. i - n \in 1..(L - n) /\ n + (i - n) = i
        BY <1>1, <3>2
      <4>2. QED
        BY <1>3, <2>1, <2>2, <3>2, <4>1
    <3>3. QED
      BY <3>1, <3>2
  <2>4. QED
    BY <2>1, <2>2, <2>3, SeqEqual DEF L
<1>5. QED
  BY <1>2, <1>3, <1>4 DEF A, B, L

LEMMA Associative ==
  ASSUME NEW s \in Seq(Cells), NEW t \in Seq(Cells), NEW u \in Seq(Cells)
  PROVE  (s \o t) \o u = s \o (t \o u)
BY ConcatAssociative

LEMMA Taken ==
  ASSUME IInv, NEW n \in 1..BlockUnits, n <= Len(pipe)
  PROVE  /\ rx.units \o SubSeq(pipe, 1, n) \in Seq(Cells)
         /\ Len(rx.units \o SubSeq(pipe, 1, n)) = Len(rx.units) + n
         /\ rx.units \o SubSeq(pipe, 1, n) # << >>
         /\ SubSeq(pipe, n + 1, Len(pipe)) \in Seq(Cells)
         /\ Len(SubSeq(pipe, n + 1, Len(pipe))) = Len(pipe) - n
         /\ Len(SubSeq(pipe, n + 1, Len(pipe))) <= PipeUnits
         /\ Stream = (rx.units \o SubSeq(pipe, 1, n)) \o SubSeq(pipe, n + 1, Len(pipe))
<1>1. rx.units \in Seq(Cells) /\ pipe \in Seq(Cells)
  BY StateFacts
<1>2. Len(pipe) \in Nat /\ Len(rx.units) \in Nat /\ Len(pipe) <= PipeUnits /\ PipeUnits \in Nat /\ BlockUnits \in Nat
  BY <1>1, LenProperties, ChannelAssumption DEF IInv, SendTypes, BlockUnits
<1>3. n \in 0..Len(pipe) /\ n \in Nat /\ n >= 1
  BY <1>2
<1> DEFINE A == SubSeq(pipe, 1, n)
           B == SubSeq(pipe, n + 1, Len(pipe))
<1>4. A \in Seq(Cells) /\ Len(A) = n /\ B \in Seq(Cells) /\ Len(B) = Len(pipe) - n /\ pipe = A \o B
  BY <1>1, <1>3, Split
<1> HIDE DEF A, B
<1>5. rx.units \o A \in Seq(Cells) /\ Len(rx.units \o A) = Len(rx.units) + n
  <2>1. rx.units \in Seq(Cells) /\ A \in Seq(Cells) /\ Len(A) = n
    BY <1>1, <1>4
  <2>2. rx.units \o A \in Seq(Cells) /\ Len(rx.units \o A) = Len(rx.units) + Len(A)
    BY <2>1, ConcatProperties
  <2>3. QED
    BY <2>1, <2>2
<1>6. rx.units \o A # << >>
  <2>1. Len(rx.units \o A) # 0
    BY <1>2, <1>3, <1>5
  <2>2. QED
    BY <2>1
<1>7. Stream = (rx.units \o A) \o B
  <2>1. (rx.units \o A) \o B = rx.units \o (A \o B)
    BY <1>1, <1>4, Associative
  <2>2. Stream = rx.units \o (A \o B)
    BY <1>4 DEF Stream
  <2>3. QED
    BY <2>1, <2>2
<1>8. Len(B) <= PipeUnits
  BY <1>2, <1>3, <1>4
<1>9. QED
  BY <1>4, <1>5, <1>6, <1>7, <1>8 DEF A, B

LEMMA InboundPartStep ==
  ASSUME IInv, NEW n \in 1..BlockUnits, InboundPart(n)
  PROVE  IInv'
<1> DEFINE held == rx.units \o SubSeq(pipe, 1, n)
           rest == SubSeq(pipe, n + 1, Len(pipe))
<1>1. n <= Len(pipe)
  BY DEF InboundPart, Reads
<1>2. /\ held \in Seq(Cells) /\ rest \in Seq(Cells) /\ Len(rest) <= PipeUnits /\ Stream = held \o rest
  BY <1>1, Taken
<1>3. /\ source' = source /\ sourceNext' = sourceNext /\ expected' = expected /\ flushed' = flushed
      /\ tx' = tx /\ pipe' = rest /\ rx' = [units |-> held, deadline |-> RxDeadline]
      /\ rxNext' = rxNext /\ inNext' = inNext /\ dest' = dest
      /\ destNext' = destNext /\ discarded' = discarded /\ arrived' = arrived /\ dropped' = dropped
      /\ clock' = clock /\ txOpen' = txOpen /\ rxOpen' = rxOpen
      /\ Len(held) < HeaderUnits \/ Len(held) < Size(held[1].block)
  BY DEF InboundPart, sourceVars
<1>4. RxDeadline \in Nat \cup {NoTime}
  <2>1. clock \in Nat /\ rx.deadline \in Nat \cup {NoTime} /\ Deadline \in Nat
    BY ChannelAssumption DEF IInv, SendTypes, ReceiveTypes
  <2>2. clock + Deadline \in Nat
    BY <2>1
  <2>3. QED
    BY <2>1, <2>2 DEF RxDeadline
<1> HIDE DEF held, rest
<1>5. rx'.units = held /\ rx' \in [units : Seq(Cells), deadline : Nat \cup {NoTime}]
  BY <1>2, <1>3, <1>4
<1>6. Len(held) >= HeaderUnits => Len(held) < Size(held[1].block)
  BY <1>2, <1>3, LenProperties, ChannelAssumption
<1>7. SendTypes'
  BY <1>2, <1>3 DEF IInv, SendTypes
<1>8. ReceiveTypes'
  BY <1>3, <1>5, <1>6 DEF IInv, ReceiveTypes
<1>9. SourceInOrder' /\ PositionKept'
  BY <1>3 DEF IInv, SourceInOrder, PositionKept
<1>10. Stream' = Stream
  BY <1>2, <1>3, <1>5 DEF Stream
<1>11. OnWay' = OnWay
  BY <1>3, <1>10 DEF OnWay
<1>12. Carried(Stream, tx, expected, rxNext)' /\ Places'
  BY <1>3, <1>10, <1>11 DEF IInv, Places
<1>13. QED
  BY <1>7, <1>8, <1>9, <1>12 DEF IInv


\* The samples of a whole block are its frames.
LEMMA SamplesAre ==
  ASSUME NEW H \in Seq(Cells), NEW b \in Blocks, Len(H) = Size(b),
         \A i \in 1..Len(H) : H[i] = [block |-> b, unit |-> i]
  PROVE  /\ Samples(H) \in Seq(Nat) /\ Len(Samples(H)) = Len(b.frames)
         /\ \A k \in 1..Len(b.frames) : Samples(H)[k] = First(b) + k - 1
<1> DEFINE l == Len(b.frames)
<1>1. /\ l \in Nat /\ Size(b) = HeaderUnits + l /\ HeaderUnits \in Nat /\ First(b) \in Nat
      /\ \A k \in 1..l : b.frames[k] = First(b) + k - 1
  BY BlockFacts, ChannelAssumption
<1> HIDE DEF l
<1>2. Len(H) - HeaderUnits = l
  BY <1>1
<1>3. ASSUME NEW k \in 1..l
      PROVE  H[HeaderUnits + k].block.frames[H[HeaderUnits + k].unit - HeaderUnits] = First(b) + k - 1
             /\ First(b) + k - 1 \in Nat
  <2>1. HeaderUnits + k \in 1..Len(H) /\ (HeaderUnits + k) - HeaderUnits = k /\ First(b) + k - 1 \in Nat
    BY <1>1
  <2>2. H[HeaderUnits + k] = [block |-> b, unit |-> HeaderUnits + k]
    BY <2>1
  <2>3. QED
    BY <1>1, <2>1, <2>2
<1>4. Samples(H) = [k \in 1..l |-> First(b) + k - 1]
  <2>1. Samples(H) = [k \in 1..l |-> H[HeaderUnits + k].block.frames[H[HeaderUnits + k].unit - HeaderUnits]]
    BY <1>2 DEF Samples
  <2>2. QED
    BY <1>3, <2>1
<1>5. \A k \in 1..l : Samples(H)[k] = First(b) + k - 1
  BY <1>4
<1>6. Samples(H) \in Seq(Nat) /\ Len(Samples(H)) = l
  <2>1. \A k \in 1..l : First(b) + k - 1 \in Nat
    BY <1>3
  <2>2. QED
    BY <1>1, <1>4, <2>1
<1>7. QED
  BY <1>5, <1>6 DEF l

\* The frames pushed and those that do not fit.
LEMMA Pushed ==
  ASSUME NEW s \in Seq(Nat), NEW F \in Nat, \A k \in 1..Len(s) : s[k] = F + k - 1, NEW a \in 0..Len(s)
  PROVE  /\ {s[k] : k \in 1..a} = F..(F + a - 1)
         /\ {s[k] : k \in (a + 1)..Len(s)} = (F + a)..(F + Len(s) - 1)
<1> DEFINE l == Len(s)
<1>1. l \in Nat /\ a \in Nat /\ a <= l
  BY LenProperties
<1>2. \A k \in 1..l : s[k] = F + k - 1
  OBVIOUS
<1> HIDE DEF l
<1>3. \A k \in 1..a : s[k] \in F..(F + a - 1)
  BY <1>1, <1>2
<1>4. ASSUME NEW f \in F..(F + a - 1) PROVE f - F + 1 \in 1..a /\ s[f - F + 1] = f
  <2>1. f - F + 1 \in 1..a /\ f - F + 1 \in 1..l /\ F + (f - F + 1) - 1 = f
    BY <1>1
  <2>2. QED
    BY <1>2, <2>1
<1>5. \A k \in (a + 1)..l : s[k] \in (F + a)..(F + l - 1)
  BY <1>1, <1>2
<1>6. ASSUME NEW f \in (F + a)..(F + l - 1) PROVE f - F + 1 \in (a + 1)..l /\ s[f - F + 1] = f
  <2>1. f - F + 1 \in (a + 1)..l /\ f - F + 1 \in 1..l /\ F + (f - F + 1) - 1 = f
    BY <1>1
  <2>2. QED
    BY <1>2, <2>1
<1>7. {s[k] : k \in 1..a} = F..(F + a - 1)
  BY <1>3, <1>4
<1>8. {s[k] : k \in (a + 1)..l} = (F + a)..(F + l - 1)
  BY <1>5, <1>6
<1>9. QED
  BY <1>7, <1>8 DEF l

\* The destination's queue grows by entries in their place.
LEMMA DestGrows ==
  ASSUME NEW d \in Seq([position : Nat, frame : Nat]), \A k \in DOMAIN d : d[k].position = d[k].frame,
         NEW s \in Seq(Nat), NEW F \in Nat, \A k \in 1..Len(s) : s[k] = F + k - 1, NEW a \in 0..Len(s)
  PROVE  /\ d \o [k \in 1..a |-> [position |-> F + k - 1, frame |-> s[k]]] \in Seq([position : Nat, frame : Nat])
         /\ Len(d \o [k \in 1..a |-> [position |-> F + k - 1, frame |-> s[k]]]) = Len(d) + a
         /\ \A k \in DOMAIN (d \o [i \in 1..a |-> [position |-> F + i - 1, frame |-> s[i]]]) :
              (d \o [i \in 1..a |-> [position |-> F + i - 1, frame |-> s[i]]])[k].position
                = (d \o [i \in 1..a |-> [position |-> F + i - 1, frame |-> s[i]]])[k].frame
<1> DEFINE Out == [position : Nat, frame : Nat]
           q == [k \in 1..a |-> [position |-> F + k - 1, frame |-> s[k]]]
<1>1. Len(s) \in Nat /\ a \in Nat /\ a <= Len(s)
  BY LenProperties
<1>2. \A k \in 1..a : s[k] = F + k - 1 /\ F + k - 1 \in Nat
  BY <1>1
<1>3. q \in Seq(Out) /\ Len(q) = a /\ \A k \in 1..a : q[k].position = q[k].frame
  <2>1. \A k \in 1..a : [position |-> F + k - 1, frame |-> s[k]] \in Out
    BY <1>2
  <2> HIDE DEF Out
  <2>2. q \in Seq(Out) /\ Len(q) = a
    BY <1>1, <2>1
  <2>3. \A k \in 1..a : q[k].position = F + k - 1 /\ q[k].frame = s[k]
    OBVIOUS
  <2>4. QED
    BY <1>2, <2>2, <2>3
<1>4. d \in Seq(Out) /\ Len(d) \in Nat /\ \A k \in 1..Len(d) : d[k].position = d[k].frame
  BY LenProperties
<1> HIDE DEF Out, q
<1>5. /\ d \o q \in Seq(Out) /\ Len(d \o q) = Len(d) + a /\ DOMAIN (d \o q) = 1..(Len(d) + a)
      /\ \A k \in 1..(Len(d) + a) : (d \o q)[k] = IF k <= Len(d) THEN d[k] ELSE q[k - Len(d)]
  <2>1. d \in Seq(Out) /\ q \in Seq(Out) /\ Len(q) = a
    BY <1>3, <1>4
  <2>2. /\ d \o q \in Seq(Out) /\ Len(d \o q) = Len(d) + Len(q)
        /\ \A k \in 1..(Len(d) + Len(q)) : (d \o q)[k] = IF k <= Len(d) THEN d[k] ELSE q[k - Len(d)]
    BY <2>1, ConcatProperties
  <2>3. DOMAIN (d \o q) = 1..Len(d \o q)
    BY <2>2, LenProperties
  <2>4. QED
    BY <2>1, <2>2, <2>3
<1>6. ASSUME NEW k \in DOMAIN (d \o q) PROVE (d \o q)[k].position = (d \o q)[k].frame
  <2>1. CASE k <= Len(d)
    <3>1. k \in 1..Len(d)
      BY <1>4, <1>5, <2>1
    <3>2. QED
      BY <1>4, <1>5, <2>1, <3>1
  <2>2. CASE ~ (k <= Len(d))
    <3>1. k - Len(d) \in 1..a
      BY <1>1, <1>4, <1>5, <2>2
    <3>2. QED
      BY <1>3, <1>5, <2>2, <3>1
  <2>3. QED
    BY <2>1, <2>2
<1>7. QED
  BY <1>5, <1>6 DEF Out, q

\* The numbers of a delivered block: b starts at F and has l frames of which a fit.
LEMMA Counts ==
  ASSUME NEW c \in Nat, NEW g \in Nat, NEW l \in Nat, NEW a \in Nat, NEW h \in Nat, NEW r \in Nat, NEW F \in Nat,
         r + g = F, c + h = r
  PROVE  (c + g + (l - a)) + (h + a) = F + l
OBVIOUS

\* Frames of an interval beyond a finite set add their number.
LEMMA Counted ==
  ASSUME NEW T, IsFiniteSet(T), NEW r \in Nat, T \subseteq 0..(r - 1), NEW F \in Nat, r <= F, NEW a \in Nat
  PROVE  /\ IsFiniteSet(T \cup F..(F + a - 1))
         /\ Cardinality(T \cup F..(F + a - 1)) = Cardinality(T) + a
         /\ Cardinality(T) \in Nat
<1> DEFINE J == F..(F + a - 1)
<1>1. IsFiniteSet(J) /\ Cardinality(J) = a
  <2>1. F + a - 1 \in Int /\ F \in Int
    OBVIOUS
  <2>2. /\ IsFiniteSet(F..(F + a - 1))
        /\ Cardinality(F..(F + a - 1)) = IF F > F + a - 1 THEN 0 ELSE (F + a - 1) - F + 1
    BY <2>1, FS_Interval
  <2>3. (IF F > F + a - 1 THEN 0 ELSE (F + a - 1) - F + 1) = a
    OBVIOUS
  <2>4. QED
    BY <2>2, <2>3
<1>2. T \cap J = {}
  OBVIOUS
<1> HIDE DEF J
<1>3. IsFiniteSet(T \cup J) /\ Cardinality(T \cup J) = Cardinality(T) + Cardinality(J) - Cardinality(T \cap J)
  BY <1>1, FS_Union
<1>4. Cardinality({}) = 0 /\ Cardinality(T) \in Nat
  BY FS_EmptySet, FS_CardinalityType
<1>5. Cardinality(T \cup J) = Cardinality(T) + a
  <2>1. Cardinality(T \cap J) = 0
    BY <1>2, <1>4
  <2>2. QED
    BY <1>1, <1>3, <1>4, <2>1
<1>6. QED
  BY <1>3, <1>4, <1>5 DEF J


\* A block has arrived: its frames leave the stream for the destination, and the positions agree.
LEMMA InboundBlockStep ==
  ASSUME IInv, NEW n \in 1..BlockUnits, InboundBlock(n)
  PROVE  IInv'
<1> DEFINE H == rx.units \o SubSeq(pipe, 1, n)
           R == SubSeq(pipe, n + 1, Len(pipe))
           b == H[1].block
           s == Samples(H)
           a == Fits(s)
           u == Unaccepted(s)
           g == GapBefore(b)
           q == [k \in 1..a |-> [position |-> destNext + g + k - 1, frame |-> s[k]]]
<1>1. n <= Len(pipe)
  BY DEF InboundBlock, Reads
<1>2. /\ H \in Seq(Cells) /\ H # << >> /\ R \in Seq(Cells) /\ Len(R) <= PipeUnits /\ Stream = H \o R
  BY <1>1, Taken
<1>3. /\ Len(H) = Size(b)
      /\ dest' = dest \o q
      /\ destNext' = destNext + g + a + u /\ discarded' = discarded + g + u
      /\ rxNext' = First(b) + Len(b.frames) /\ inNext' = First(b) + Len(b.frames)
      /\ arrived' = arrived \cup {s[k] : k \in 1..a}
      /\ dropped' = dropped \cup {s[k] : k \in (a + 1)..Len(s)}
      /\ rx' = IdleRx /\ pipe' = R
      /\ source' = source /\ sourceNext' = sourceNext /\ expected' = expected /\ flushed' = flushed
      /\ tx' = tx /\ clock' = clock /\ txOpen' = txOpen /\ rxOpen' = rxOpen
  BY DEF InboundBlock, sourceVars
<1>4. g = (IF First(b) > inNext THEN First(b) - inNext ELSE 0) /\ u = Len(s) - a
      /\ a = (IF Len(s) < DestCapacity - Len(dest) THEN Len(s) ELSE DestCapacity - Len(dest))
  BY DEF GapBefore, Unaccepted, Fits, Minimum
<1> HIDE DEF R, q, g, u, a, s
<1>5. /\ tx \in Writers \cup {IdleTx} /\ expected \in Nat /\ rxNext \in Nat /\ sourceNext \in Nat
      /\ OnWay = Held(Stream, tx) /\ rxNext <= expected
  BY StateFacts
<1>6. Carried(H \o R, tx, expected, rxNext)
  BY <1>2 DEF IInv
<1>7. /\ \A i \in 1..Len(H) : H[i] = [block |-> H[1].block, unit |-> i]
      /\ rxNext <= First(H[1].block)
      /\ Carried(R, tx, expected, End(H[1].block))
  BY <1>2, <1>3, <1>5, <1>6, Delivers
<1>8. b \in Blocks
  <2>1. Len(H) # 0
    BY <1>2, EmptySeq
  <2>2. 1 \in DOMAIN H
    BY <1>2, <2>1, CellFacts
  <2>3. QED
    BY <1>2, <2>2, CellFacts
<1>9. s \in Seq(Nat) /\ Len(s) = Len(b.frames) /\ \A k \in 1..Len(s) : s[k] = First(b) + k - 1
  <2>1. H \in Seq(Cells) /\ Len(H) = Size(b) /\ \A i \in 1..Len(H) : H[i] = [block |-> b, unit |-> i]
    BY <1>2, <1>3, <1>7
  <2> HIDE DEF H, b
  <2>2. /\ Samples(H) \in Seq(Nat) /\ Len(Samples(H)) = Len(b.frames)
        /\ \A k \in 1..Len(b.frames) : Samples(H)[k] = First(b) + k - 1
    BY <1>8, <2>1, SamplesAre
  <2>3. QED
    BY <2>2 DEF s
<1> HIDE DEF H, b
<1>10. /\ First(b) \in Nat /\ End(b) \in Nat /\ End(b) = First(b) + Len(s) /\ Len(s) \in Nat /\ rxNext <= First(b)
       /\ \A i \in 1..Len(H) : H[i].block = b
  <2>1. rxNext <= First(b) /\ \A i \in 1..Len(H) : H[i].block = b
    <3>1. \A i \in 1..Len(H) : H[i] = [block |-> b, unit |-> i]
      BY <1>7, Zenon DEF b
    <3>2. rxNext <= First(b)
      BY <1>7, Zenon DEF b
    <3>3. ASSUME NEW i \in 1..Len(H) PROVE H[i].block = b
      <4>1. H[i] = [block |-> b, unit |-> i]
        BY <3>1
      <4>2. QED
        BY <4>1
    <3>4. QED
      BY <3>2, <3>3
  <2>2. First(b) \in Nat /\ End(b) \in Nat /\ End(b) = First(b) + Len(b.frames)
    BY <1>8, BlockFacts
  <2>3. Len(s) \in Nat
    BY <1>9, LenProperties
  <2>4. QED
    BY <1>9, <2>1, <2>2, <2>3
<1>11. /\ inNext = rxNext /\ destNext = rxNext /\ discarded \in Nat /\ IsFiniteSet(arrived)
       /\ dest \in Seq([position : Nat, frame : Nat]) /\ Len(dest) <= DestCapacity /\ Len(dest) \in Nat
       /\ DestCapacity \in Nat
  BY LenProperties, ChannelAssumption DEF IInv, ReceiveTypes
<1>12. /\ \A k \in DOMAIN dest : dest[k].position = dest[k].frame
       /\ discarded + Cardinality(arrived) = rxNext
  BY <1>11 DEF IInv, PositionKept
<1>13. /\ 0..(sourceNext - 1) = Range(source) \cup OnWay \cup arrived \cup dropped \cup flushed
       /\ arrived \cup dropped \subseteq 0..(rxNext - 1) /\ arrived \cap dropped = {}
       /\ flushed \cap (Range(source) \cup OnWay \cup arrived \cup dropped) = {}
  BY DEF IInv, Places
<1>14. a \in 0..Len(s) /\ Len(dest) + a <= DestCapacity
  BY <1>4, <1>10, <1>11
<1>15. /\ rxNext + g = First(b) /\ (rxNext + g) + a + (Len(s) - a) = First(b) + Len(s)
       /\ discarded + g + (Len(s) - a) \in Nat
       /\ \A h \in Nat : discarded + h = rxNext =>
            (discarded + g + (Len(s) - a)) + (h + a) = First(b) + Len(s)
  <2>1. /\ rxNext \in Nat /\ First(b) \in Nat /\ Len(s) \in Nat /\ a \in 0..Len(s) /\ rxNext <= First(b)
        /\ g = (IF First(b) > rxNext THEN First(b) - rxNext ELSE 0) /\ discarded \in Nat
    BY <1>4, <1>5, <1>10, <1>11, <1>14
  <2> HIDE DEF g
  <2>2. g = First(b) - rxNext
    BY <2>1
  <2>3. g \in Nat /\ rxNext + g = First(b) /\ Len(s) - a \in Nat /\ a \in Nat
    BY <2>1, <2>2
  <2>4. (rxNext + g) + a + (Len(s) - a) = First(b) + Len(s)
    BY <2>1, <2>3
  <2>5. discarded + g + (Len(s) - a) \in Nat
    BY <2>1, <2>3
  <2>6. ASSUME NEW h \in Nat, discarded + h = rxNext
        PROVE  (discarded + g + (Len(s) - a)) + (h + a) = First(b) + Len(s)
    <3>1. discarded \in Nat /\ Len(s) \in Nat /\ First(b) \in Nat /\ rxNext \in Nat
      BY <2>1
    <3>2. QED
      BY <2>3, <2>6, <3>1, Counts
  <2>7. QED
    BY <2>3, <2>4, <2>5, <2>6
<1>16. dest' \in Seq([position : Nat, frame : Nat]) /\ Len(dest') <= DestCapacity
       /\ \A k \in DOMAIN dest' : dest'[k].position = dest'[k].frame
  <2>1. q = [k \in 1..a |-> [position |-> First(b) + k - 1, frame |-> s[k]]]
    BY <1>11, <1>15 DEF q
  <2>2. /\ dest \o q \in Seq([position : Nat, frame : Nat])
        /\ Len(dest \o q) = Len(dest) + a
        /\ \A k \in DOMAIN (dest \o q) : (dest \o q)[k].position = (dest \o q)[k].frame
    BY <1>9, <1>10, <1>11, <1>12, <1>14, <2>1, DestGrows
  <2>3. QED
    BY <1>3, <1>14, <2>2
<1>17. /\ arrived' = arrived \cup First(b)..(First(b) + a - 1)
       /\ dropped' = dropped \cup (First(b) + a)..(First(b) + Len(s) - 1)
  <2>1. /\ s \in Seq(Nat) /\ First(b) \in Nat /\ a \in 0..Len(s)
        /\ \A k \in 1..Len(s) : s[k] = First(b) + k - 1
    BY <1>9, <1>10, <1>14
  <2>2. /\ {s[k] : k \in 1..a} = First(b)..(First(b) + a - 1)
        /\ {s[k] : k \in (a + 1)..Len(s)} = (First(b) + a)..(First(b) + Len(s) - 1)
    BY <2>1, Pushed
  <2>3. /\ arrived' = arrived \cup {s[k] : k \in 1..a}
        /\ dropped' = dropped \cup {s[k] : k \in (a + 1)..Len(s)}
    BY <1>3
  <2>4. QED
    BY <2>2, <2>3
<1>18. /\ IsFiniteSet(arrived') /\ Cardinality(arrived') = Cardinality(arrived) + a /\ Cardinality(arrived) \in Nat
  <2>1. arrived \subseteq 0..(rxNext - 1) /\ a \in Nat
    BY <1>10, <1>13, <1>14
  <2>2. IsFiniteSet(arrived) /\ rxNext \in Nat /\ First(b) \in Nat /\ rxNext <= First(b)
    BY <1>5, <1>10, <1>11
  <2>3. /\ IsFiniteSet(arrived \cup First(b)..(First(b) + a - 1))
        /\ Cardinality(arrived \cup First(b)..(First(b) + a - 1)) = Cardinality(arrived) + a
        /\ Cardinality(arrived) \in Nat
    BY <2>1, <2>2, Counted
  <2>4. QED
    BY <1>17, <2>3
<1>19. rxNext' = End(b) /\ inNext' = End(b) /\ destNext' = End(b)
       /\ discarded' \in Nat /\ discarded' + Cardinality(arrived') = End(b)
  <2>1. rxNext' = End(b) /\ inNext' = End(b)
    BY <1>3, <1>9, <1>10
  <2>2. destNext' = (rxNext + g) + a + (Len(s) - a) /\ discarded' = discarded + g + (Len(s) - a)
    BY <1>3, <1>4, <1>11
  <2>3. discarded' \in Nat /\ destNext' = End(b)
    BY <1>10, <1>15, <2>2
  <2>4. discarded' + Cardinality(arrived') = End(b)
    BY <1>10, <1>12, <1>15, <1>18, <2>2
  <2>5. QED
    BY <2>1, <2>3, <2>4
<1>20. Stream' = R
  <2>1. rx'.units = << >> /\ pipe' = R
    BY <1>3 DEF IdleRx
  <2>2. << >> \o R = R
    BY <1>2, ConcatEmptySeq
  <2>3. QED
    BY <2>1, <2>2 DEF Stream
<1>21. Carried(Stream, tx, expected, rxNext)'
  <2>1. Carried(R, tx, expected, End(b))
    BY <1>7 DEF b
  <2>2. QED
    BY <1>3, <1>19, <1>20, <2>1
<1>22. OnWay = Interval(b) \cup Held(R, tx)
  BY <1>2, <1>5, <1>8, <1>10, HeldDelivered
<1>23. OnWay' = Held(R, tx)
  BY <1>3, <1>20 DEF OnWay, Held
<1>24. Places'
  <2>1. Interval(b) = (First(b)..(First(b) + a - 1)) \cup ((First(b) + a)..(First(b) + Len(s) - 1))
    BY <1>10, <1>14 DEF Interval
  <2>2. (First(b)..(First(b) + a - 1)) \cap ((First(b) + a)..(First(b) + Len(s) - 1)) = {}
    BY <1>10, <1>14
  <2>3. Interval(b) \cap (0..(rxNext - 1)) = {} /\ Interval(b) \cup (0..(rxNext - 1)) \subseteq 0..(End(b) - 1)
    BY <1>5, <1>10 DEF Interval
  <2> DEFINE I == First(b)..(First(b) + a - 1)
             J == (First(b) + a)..(First(b) + Len(s) - 1)
  <2>4. Interval(b) = I \cup J /\ I \cap J = {} /\ arrived' = arrived \cup I /\ dropped' = dropped \cup J
    BY <1>17, <2>1, <2>2
  <2> HIDE DEF I, J
  <2>5. arrived' \cup dropped' = arrived \cup dropped \cup Interval(b)
    BY <2>4
  <2>6. arrived' \cap dropped' = {}
    BY <1>13, <2>3, <2>4
  <2>7. arrived' \cup dropped' \subseteq 0..(rxNext' - 1)
    BY <1>13, <1>19, <2>3, <2>5
  <2>8. 0..(sourceNext - 1) = Range(source) \cup OnWay' \cup arrived' \cup dropped' \cup flushed
    BY <1>13, <1>22, <1>23, <2>5
  <2>9. flushed \cap (Range(source) \cup OnWay' \cup arrived' \cup dropped') = {}
    BY <1>13, <1>22, <1>23, <2>5
  <2>10. QED
    BY <1>3, <2>6, <2>7, <2>8, <2>9 DEF Places
<1>25. SendTypes'
  BY <1>2, <1>3 DEF IInv, SendTypes
<1>26. ReceiveTypes'
  <2>1. rx'.units = << >> /\ rx' \in [units : Seq(Cells), deadline : Nat \cup {NoTime}]
    <3>1. << >> \in Seq(Cells)
      OBVIOUS
    <3>2. QED
      BY <1>3, <3>1 DEF IdleRx
  <2>2. ~ (Len(rx'.units) >= HeaderUnits)
    BY <2>1, ChannelAssumption
  <2>3. QED
    BY <1>10, <1>16, <1>18, <1>19, <2>1, <2>2 DEF ReceiveTypes
<1>27. SourceInOrder'
  BY <1>3 DEF IInv, SourceInOrder
<1>28. PositionKept'
  BY <1>16, <1>19 DEF PositionKept
<1>29. QED
  BY <1>21, <1>24, <1>25, <1>26, <1>27, <1>28 DEF IInv


-----------------------------------------------------------------------------
(* The sender finishes the block under way and begins the next.            *)

Under(a) == IF Idle(tx) THEN tx ELSE Written(tx, a)

\* The units of the block under way that the first write of a pump moves.
LEMMA FirstWrite ==
  ASSUME IInv, NEW a \in Nat, IF Idle(tx) THEN a = 0 ELSE a <= Size(tx.block) - tx.offset
  PROVE  /\ Units(tx, a) \in Seq(Cells) /\ Len(Units(tx, a)) = a
         /\ Stream \o Units(tx, a) \in Seq(Cells)
         /\ Stream \o Units(tx, a) = rx.units \o (pipe \o Units(tx, a))
         /\ pipe \o Units(tx, a) \in Seq(Cells) /\ Len(pipe \o Units(tx, a)) = Len(pipe) + a
         /\ Under(a) \in Writers \cup {IdleTx}
         /\ Carried(Stream \o Units(tx, a), Under(a), expected, rxNext)
         /\ Held(Stream \o Units(tx, a), Under(a)) = OnWay
<1>1. /\ Stream \in Seq(Cells) /\ rx.units \in Seq(Cells) /\ pipe \in Seq(Cells) /\ tx \in Writers \cup {IdleTx}
      /\ expected \in Nat /\ rxNext \in Nat /\ OnWay = Held(Stream, tx)
  BY StateFacts
<1>2. Carried(Stream, tx, expected, rxNext)
  BY DEF IInv
<1>3. ASSUME Units(tx, a) \in Seq(Cells), Len(Units(tx, a)) = a
      PROVE  /\ Stream \o Units(tx, a) = rx.units \o (pipe \o Units(tx, a))
             /\ pipe \o Units(tx, a) \in Seq(Cells) /\ Len(pipe \o Units(tx, a)) = Len(pipe) + a
  <2>1. (rx.units \o pipe) \o Units(tx, a) = rx.units \o (pipe \o Units(tx, a))
    BY <1>1, <1>3, Associative
  <2>2. pipe \o Units(tx, a) \in Seq(Cells) /\ Len(pipe \o Units(tx, a)) = Len(pipe) + a
    BY <1>1, <1>3, ConcatProperties
  <2>3. QED
    BY <2>1, <2>2 DEF Stream
<1>4. CASE Idle(tx)
  <2>1. tx = IdleTx /\ a = 0
    BY <1>1, <1>4, WriterFacts
  <2>2. Units(tx, a) = << >>
    BY <2>1 DEF Units
  <2>3. Units(tx, a) \in Seq(Cells) /\ Len(Units(tx, a)) = a
    <3>1. << >> \in Seq(Cells) /\ Len(<< >>) = 0
      OBVIOUS
    <3>2. QED
      BY <2>1, <2>2, <3>1
  <2>4. Stream \o Units(tx, a) = Stream
    BY <1>1, <2>2, ConcatEmptySeq
  <2>5. Under(a) = tx
    BY <1>4 DEF Under
  <2>6. QED
    BY <1>1, <1>2, <1>3, <2>3, <2>4, <2>5
<1>5. CASE ~ Idle(tx)
  <2>1. tx \in Writers
    BY <1>1, <1>5, IdleFacts
  <2>2. a \in 0..(Size(tx.block) - tx.offset)
    <3>1. Size(tx.block) \in Nat /\ tx.offset \in Nat /\ a <= Size(tx.block) - tx.offset
      BY <1>5, <2>1, WriterFacts, BlockFacts
    <3>2. QED
      BY <3>1
  <2>3. Stream \o Units(tx, a) \in Seq(Cells) /\ Units(tx, a) \in Seq(Cells) /\ Len(Units(tx, a)) = a
    BY <1>1, <2>1, <2>2, Extended
  <2>4. Under(a) = Written(tx, a)
    BY <1>5 DEF Under
  <2>5. Written(tx, a) \in Writers \cup {IdleTx}
    BY <2>1, <2>2, WrittenFacts
  <2>6. Carried(Stream \o Units(tx, a), Written(tx, a), expected, rxNext)
    BY <1>1, <1>2, <2>1, <2>2, Writes
  <2>7. Held(Stream \o Units(tx, a), Written(tx, a)) = OnWay
    BY <1>1, <2>1, <2>2, HeldWritten
  <2>8. QED
    BY <1>3, <2>3, <2>4, <2>5, <2>6, <2>7
<1>6. QED
  BY <1>4, <1>5

\* A pump that reads no block.
LEMMA PumpAlone ==
  ASSUME IInv, NEW a \in 0..BlockUnits, NEW b \in 0..BlockUnits, OutboundPump(a, b),
         ~ (Idle(Under(a)) /\ source # << >>)
  PROVE  IInv'
<1>1. a \in Nat /\ BlockUnits \in Nat
  BY ChannelAssumption DEF BlockUnits
<1>2. /\ IF Idle(tx) THEN a = 0 ELSE a <= Size(tx.block) - tx.offset
      /\ Room(a + b) /\ b = 0 /\ tx' = Under(a) /\ pipe' = pipe \o Units(tx, a)
      /\ source' = source /\ expected' = expected /\ sourceNext' = sourceNext /\ flushed' = flushed
      /\ rx' = rx /\ rxNext' = rxNext /\ inNext' = inNext /\ dest' = dest
      /\ destNext' = destNext /\ discarded' = discarded /\ arrived' = arrived /\ dropped' = dropped
      /\ clock' = clock /\ txOpen' = txOpen /\ rxOpen' = rxOpen
  BY DEF OutboundPump, Under, destVars
<1>3. /\ Stream \o Units(tx, a) = rx.units \o (pipe \o Units(tx, a))
      /\ pipe \o Units(tx, a) \in Seq(Cells) /\ Len(pipe \o Units(tx, a)) = Len(pipe) + a
      /\ Under(a) \in Writers \cup {IdleTx}
      /\ Carried(Stream \o Units(tx, a), Under(a), expected, rxNext)
      /\ Held(Stream \o Units(tx, a), Under(a)) = OnWay
  BY <1>1, <1>2, FirstWrite
<1>4. Stream' = Stream \o Units(tx, a)
  BY <1>2, <1>3 DEF Stream
<1>5. OnWay' = OnWay
  <2>1. OnWay' = Held(Stream', tx')
    BY DEF OnWay, Held
  <2>2. QED
    BY <1>2, <1>3, <1>4, <2>1
<1>6. Len(pipe') <= PipeUnits
  BY <1>1, <1>2, <1>3 DEF Room
<1>7. SendTypes'
  BY <1>2, <1>3, <1>6 DEF IInv, SendTypes
<1>8. ReceiveTypes' /\ SourceInOrder' /\ PositionKept'
  BY <1>2 DEF IInv, ReceiveTypes, SourceInOrder, PositionKept
<1>9. Places'
  BY <1>2, <1>5 DEF IInv, Places
<1>10. Carried(Stream, tx, expected, rxNext)'
  BY <1>2, <1>3, <1>4
<1>11. QED
  BY <1>7, <1>8, <1>9, <1>10 DEF IInv

\* A pump that reads the next block and begins to write it.
LEMMA PumpReads ==
  ASSUME IInv, NEW a \in 0..BlockUnits, NEW b \in 0..BlockUnits, OutboundPump(a, b),
         Idle(Under(a)), source # << >>
  PROVE  IInv'
<1> DEFINE k == ReadBlock
           t == [block |-> k, offset |-> 0, deadline |-> clock + Deadline]
           S == Stream \o Units(tx, a)
           p == pipe \o Units(tx, a)
           l == Len(k.frames)
           s == SubSeq(source, l + 1, Len(source))
<1>1. a \in Nat /\ b \in Nat /\ BlockUnits \in Nat
  BY ChannelAssumption DEF BlockUnits
<1>2. /\ IF Idle(tx) THEN a = 0 ELSE a <= Size(tx.block) - tx.offset
      /\ Room(a + b) /\ b <= Size(k)
      /\ tx' = Written(t, b) /\ pipe' = p \o Units(t, b)
      /\ source' = s /\ expected' = Last(k.frames) + 1 /\ sourceNext' = sourceNext /\ flushed' = flushed
      /\ rx' = rx /\ rxNext' = rxNext /\ inNext' = inNext /\ dest' = dest
      /\ destNext' = destNext /\ discarded' = discarded /\ arrived' = arrived /\ dropped' = dropped
      /\ clock' = clock /\ txOpen' = txOpen /\ rxOpen' = rxOpen
  BY DEF OutboundPump, Under, destVars
<1>3. /\ S \in Seq(Cells) /\ S = rx.units \o p /\ p \in Seq(Cells) /\ Len(p) = Len(pipe) + a
      /\ Under(a) \in Writers \cup {IdleTx}
      /\ Carried(S, Under(a), expected, rxNext) /\ Held(S, Under(a)) = OnWay
  BY <1>1, <1>2, FirstWrite
<1>4. Under(a) = IdleTx
  BY <1>3, WriterFacts
<1>5. /\ source \in Seq(Nat) /\ Len(source) \in Nat /\ expected \in Nat /\ rxNext \in Nat /\ sourceNext \in Nat
      /\ Len(source) <= SourceCapacity /\ SourceCapacity \in Nat /\ clock + Deadline \in Nat
      /\ rx.units \in Seq(Cells)
      /\ DOMAIN source = 1..Len(source) /\ \A i \in 1..Len(source) : source[i] \in Nat
      /\ Len(pipe) \in Nat /\ PipeUnits \in Nat
  BY LenProperties, ChannelAssumption, StateFacts DEF IInv, SendTypes
<1>6. /\ \A i \in DOMAIN source : expected <= source[i] /\ source[i] < sourceNext
      /\ \A i, j \in DOMAIN source : i < j => source[i] < source[j]
  BY DEF IInv, SourceInOrder
<1>7. /\ k \in Blocks /\ (k.gap <=> First(k) # expected) /\ expected <= First(k)
      /\ l \in 1..Len(source)
      /\ \A i \in 1..l : source[i] = First(k) + i - 1
      /\ Last(k.frames) + 1 = End(k) /\ Size(k) \in Nat
  BY <1>5, <1>6, ReadFacts
<1>8. /\ s \in Seq(Nat) /\ Len(s) = Len(source) - l
      /\ \A i \in 1..(Len(source) - l) : l + i \in 1..Len(source) /\ s[i] = source[l + i]
  BY <1>5, <1>7, Remainder
<1>9. First(k) \in Nat /\ End(k) \in Nat /\ End(k) = First(k) + l
  BY <1>7, BlockFacts
<1> HIDE DEF k, S, p, s, l
<1>10. t \in Writers /\ Carried(S, t, End(k), rxNext)
  <2>1. First(k) >= expected
    BY <1>5, <1>7, <1>9
  <2>2. Carried(S, IdleTx, expected, rxNext)
    BY <1>3, <1>4
  <2>3. QED
    BY <1>3, <1>5, <1>7, <2>1, <2>2, Loads
<1>11. b \in 0..(Size(t.block) - t.offset)
  BY <1>1, <1>2, <1>7
<1>12. t.block = k
  OBVIOUS
<1> HIDE DEF t
<1>13. Carried(S \o Units(t, b), Written(t, b), End(k), rxNext)
  BY <1>3, <1>5, <1>9, <1>10, <1>11, Writes
<1>14. Held(S \o Units(t, b), Written(t, b)) = OnWay \cup Interval(k)
  <2>1. Held(S \o Units(t, b), Written(t, b)) = Held(S, t)
    BY <1>3, <1>10, <1>11, HeldWritten
  <2>2. Held(S, t) = Held(S, IdleTx) \cup Interval(k)
    BY <1>3, <1>10, <1>12, HeldLoaded
  <2>3. QED
    BY <1>3, <1>4, <2>1, <2>2
<1>15. Units(t, b) \in Seq(Cells) /\ Len(Units(t, b)) = b
  BY <1>3, <1>10, <1>11, Extended
<1>16. Stream' = S \o Units(t, b)
  <2>1. (rx.units \o p) \o Units(t, b) = rx.units \o (p \o Units(t, b))
    BY <1>3, <1>5, <1>15, Associative
  <2>2. Stream' = rx.units \o (p \o Units(t, b))
    BY <1>2 DEF Stream
  <2>3. QED
    BY <1>3, <2>1, <2>2
<1>17. OnWay' = OnWay \cup Interval(k)
  <2>1. OnWay' = Held(Stream', tx')
    BY DEF OnWay, Held
  <2>2. QED
    BY <1>2, <1>14, <1>16, <2>1
<1>18. pipe' \in Seq(Cells) /\ Len(pipe') <= PipeUnits
  <2>1. p \o Units(t, b) \in Seq(Cells) /\ Len(p \o Units(t, b)) = Len(pipe) + a + b
    BY <1>3, <1>15, ConcatProperties
  <2>2. Len(pipe) + (a + b) <= PipeUnits
    BY <1>2 DEF Room
  <2>3. QED
    BY <1>1, <1>2, <1>5, <2>1, <2>2
<1>19. tx' \in Writers \cup {IdleTx}
  BY <1>2, <1>10, <1>11, WrittenFacts
<1>20. expected' = End(k)
  BY <1>2, <1>7
<1>21. l \in Nat /\ l \in 1..l /\ l \in DOMAIN source /\ source[l] = End(k) - 1
  <2>1. l \in Nat /\ l \in 1..l
    BY <1>5, <1>7
  <2>2. source[l] = First(k) + l - 1
    BY <1>7, <2>1
  <2>3. QED
    BY <1>5, <1>7, <1>9, <2>1, <2>2
<1>22. End(k) <= sourceNext
  <2>1. End(k) - 1 < sourceNext
    BY <1>6, <1>21
  <2>2. QED
    BY <1>5, <1>9, <2>1
<1>23. SendTypes'
  <2>1. Len(s) <= SourceCapacity
    BY <1>5, <1>8, <1>21
  <2>2. QED
    BY <1>2, <1>8, <1>9, <1>18, <1>19, <1>20, <1>22, <2>1 DEF IInv, SendTypes
<1>24. ReceiveTypes' /\ PositionKept'
  BY <1>2 DEF IInv, ReceiveTypes, PositionKept
<1>25. DOMAIN s = 1..(Len(source) - l)
  BY <1>8, LenProperties
<1>26. SourceInOrder'
  <2>1. ASSUME NEW i \in DOMAIN s PROVE End(k) <= s[i] /\ s[i] < sourceNext
    <3>1. l + i \in DOMAIN source /\ s[i] = source[l + i] /\ l < l + i
      <4>1. i \in 1..(Len(source) - l)
        BY <1>25
      <4>2. l + i \in 1..Len(source) /\ s[i] = source[l + i]
        BY <1>8, <4>1
      <4>3. l < l + i
        BY <1>5, <1>21, <4>1
      <4>4. QED
        BY <1>5, <4>2, <4>3
    <3>2. source[l] < source[l + i] /\ source[l + i] < sourceNext /\ source[l + i] \in Nat
      BY <1>5, <1>6, <1>21, <3>1
    <3>3. QED
      BY <1>9, <1>21, <3>1, <3>2
  <2>2. ASSUME NEW i \in DOMAIN s, NEW j \in DOMAIN s, i < j PROVE s[i] < s[j]
    <3>1. l + i \in DOMAIN source /\ l + j \in DOMAIN source /\ s[i] = source[l + i] /\ s[j] = source[l + j] /\ l + i < l + j
      <4>1. i \in 1..(Len(source) - l) /\ j \in 1..(Len(source) - l)
        BY <1>25
      <4>2. /\ l + i \in 1..Len(source) /\ s[i] = source[l + i]
            /\ l + j \in 1..Len(source) /\ s[j] = source[l + j]
        BY <1>8, <4>1
      <4>3. l + i < l + j
        BY <1>5, <1>21, <2>2, <4>1
      <4>4. QED
        BY <1>5, <4>2, <4>3
    <3>2. QED
      BY <1>6, <3>1
  <2>3. QED
    BY <1>2, <1>20, <2>1, <2>2 DEF SourceInOrder
<1>27. Range(source) = Interval(k) \cup Range(s)
  <2>1. ASSUME NEW f \in Range(source) PROVE f \in Interval(k) \cup Range(s)
    <3>1. PICK i \in 1..Len(source) : f = source[i]
      BY <1>5, SourceRange
    <3>2. CASE i <= l
      <4>1. i \in 1..l
        BY <1>5, <1>21, <3>2
      <4>2. f = First(k) + i - 1
        BY <1>7, <3>1, <4>1
      <4>3. QED
        BY <1>9, <1>21, <4>1, <4>2 DEF Interval
    <3>3. CASE ~ (i <= l)
      <4>1. i - l \in 1..(Len(source) - l) /\ l + (i - l) = i
        BY <1>5, <1>21, <3>3
      <4>2. s[i - l] = f
        BY <1>8, <3>1, <4>1
      <4>3. QED
        BY <1>8, <4>1, <4>2, SourceRange
    <3>4. QED
      BY <3>2, <3>3
  <2>2. ASSUME NEW f \in Interval(k) PROVE f \in Range(source)
    <3>1. f - First(k) + 1 \in 1..l /\ f - First(k) + 1 \in 1..Len(source) /\ First(k) + (f - First(k) + 1) - 1 = f
      <4>1. f \in First(k)..(End(k) - 1)
        BY <2>2, Zenon DEF Interval
      <4>2. f \in Nat /\ First(k) <= f /\ f <= First(k) + l - 1
        BY <1>9, <1>21, <4>1
      <4>3. l <= Len(source) /\ l \in Nat /\ Len(source) \in Nat /\ First(k) \in Nat
        BY <1>5, <1>7, <1>9, <1>21
      <4>4. QED
        BY <4>2, <4>3
    <3>2. source[f - First(k) + 1] = f
      BY <1>7, <3>1
    <3>3. QED
      BY <1>5, <3>1, <3>2, SourceRange
  <2>3. ASSUME NEW f \in Range(s) PROVE f \in Range(source)
    <3>1. PICK i \in 1..Len(s) : f = s[i]
      BY <1>8, SourceRange
    <3>2. l + i \in 1..Len(source) /\ f = source[l + i]
      BY <1>8, <3>1
    <3>3. QED
      BY <1>5, <3>2, SourceRange
  <2>4. QED
    BY <2>1, <2>2, <2>3
<1>28. Places'
  <2>1. /\ 0..(sourceNext - 1) = Range(source) \cup OnWay \cup arrived \cup dropped \cup flushed
        /\ arrived \cup dropped \subseteq 0..(rxNext - 1) /\ arrived \cap dropped = {}
        /\ flushed \cap (Range(source) \cup OnWay \cup arrived \cup dropped) = {}
    BY DEF IInv, Places
  <2>2. /\ 0..(sourceNext - 1) = Range(s) \cup (OnWay \cup Interval(k)) \cup arrived \cup dropped \cup flushed
        /\ flushed \cap (Range(s) \cup (OnWay \cup Interval(k)) \cup arrived \cup dropped) = {}
    BY <1>27, <2>1
  <2>3. QED
    BY <1>2, <1>17, <2>1, <2>2 DEF Places
<1>29. Carried(Stream, tx, expected, rxNext)'
  BY <1>2, <1>13, <1>16, <1>20
<1>30. QED
  BY <1>23, <1>24, <1>26, <1>28, <1>29 DEF IInv


LEMMA IInvStep == IInv /\ [Next]_vars => IInv'
<1> SUFFICES ASSUME IInv, [Next]_vars PROVE IInv'
  OBVIOUS
<1>1. CASE Source
  BY <1>1, SourcePushStep, SourceDiscardStep, SourceFlushStep DEF Source
<1>2. CASE \E a, b \in 0..BlockUnits : OutboundPump(a, b)
  <2>1. PICK a \in 0..BlockUnits, b \in 0..BlockUnits : OutboundPump(a, b)
    BY <1>2
  <2>2. CASE Idle(Under(a)) /\ source # << >>
    BY <2>1, <2>2, PumpReads
  <2>3. CASE ~ (Idle(Under(a)) /\ source # << >>)
    BY <2>1, <2>3, PumpAlone
  <2>4. QED
    BY <2>2, <2>3
<1>3. CASE \E n \in 1..BlockUnits : InboundPart(n) \/ InboundBlock(n)
  BY <1>3, InboundPartStep, InboundBlockStep
<1>4. CASE DestRead
  BY <1>4, DestReadStep
<1>5. CASE OutboundClose \/ InboundClose \/ Tick \/ UNCHANGED vars
  BY <1>5, OtherStep
<1>6. QED
  BY <1>1, <1>2, <1>3, <1>4, <1>5 DEF Next, Outbound, Inbound

-----------------------------------------------------------------------------
(* What follows from the invariant.                                        *)

LEMMA TypedByInvariant == IInv => TypeOK
<1> SUFFICES ASSUME IInv PROVE TypeOK
  OBVIOUS
<1>1. SendTypes /\ ReceiveTypes
  BY DEF IInv
<1>2. /\ MaxFrame \in Nat /\ MaxTime \in Nat /\ BlockFrames \in Nat /\ BlockFrames >= 1 /\ HeaderUnits \in Nat
      /\ BlockUnits = HeaderUnits + BlockFrames
  BY ChannelAssumption DEF BlockUnits
<1>3. rxNext \in Nat /\ expected \in Nat /\ sourceNext \in Nat /\ rxNext <= expected /\ expected <= sourceNext
      /\ sourceNext <= MaxFrame /\ rxNext = inNext /\ rxNext = destNext
  BY <1>1, StateFacts DEF SendTypes, ReceiveTypes
<1>4. source \in Seq(Frames)
  <2>1. source \in Seq(Nat) /\ Len(source) \in Nat /\ DOMAIN source = 1..Len(source)
    BY <1>1, LenProperties DEF SendTypes
  <2>2. ASSUME NEW k \in 1..Len(source) PROVE source[k] \in Frames
    <3>1. source[k] < sourceNext /\ source[k] \in Nat
      BY <2>1 DEF IInv, SourceInOrder
    <3>2. QED
      BY <1>2, <1>3, <3>1 DEF Frames
  <2>3. QED
    BY <2>1, <2>2
<1>5. /\ tx.offset \in 0..BlockUnits /\ tx.deadline \in Nat \cup {NoTime} /\ (Idle(tx) <=> tx = IdleTx)
  <2>1. CASE tx = IdleTx
    BY <1>2, <2>1, IdleFacts DEF IdleTx
  <2>2. CASE tx \in Writers
    <3>1. tx.offset \in Nat /\ tx.offset < Size(tx.block) /\ Size(tx.block) <= BlockUnits /\ Size(tx.block) \in Nat
          /\ ~ Idle(tx) /\ tx # IdleTx
      BY <2>2, WriterFacts, BlockFacts, IdleFacts
    <3>2. tx.deadline \in Nat
      BY <2>2 DEF Writers
    <3>3. QED
      BY <1>2, <3>1, <3>2
  <2>3. QED
    BY <1>1, <2>1, <2>2 DEF SendTypes
<1>6. Len(rx.units) < BlockUnits
  <2>1. rx.units \in Seq(Cells) /\ Len(rx.units) \in Nat /\ DOMAIN rx.units = 1..Len(rx.units)
    BY <1>1, LenProperties DEF ReceiveTypes
  <2>2. CASE Len(rx.units) < HeaderUnits
    BY <1>2, <2>1, <2>2
  <2>3. CASE ~ (Len(rx.units) < HeaderUnits)
    <3>1. Len(rx.units) < Size(rx.units[1].block)
      BY <1>1, <1>2, <2>1, <2>3 DEF ReceiveTypes
    <3>2. 1 \in DOMAIN rx.units
      BY <2>1, <2>3, ChannelAssumption
    <3>3. Size(rx.units[1].block) \in Nat /\ Size(rx.units[1].block) <= BlockUnits
      BY <2>1, <3>2, CellFacts, BlockFacts
    <3>4. QED
      BY <1>2, <2>1, <3>1, <3>3
  <2>4. QED
    BY <2>2, <2>3
<1>7. discarded \in 0..MaxFrame
  <2>1. discarded \in Nat /\ Cardinality(arrived) \in Nat /\ discarded + Cardinality(arrived) = inNext
    BY <1>1, FS_CardinalityType DEF IInv, ReceiveTypes, PositionKept
  <2>2. QED
    BY <1>2, <1>3, <2>1
<1>8. /\ rxNext \in 0..MaxFrame /\ inNext \in 0..MaxFrame /\ destNext \in 0..MaxFrame
      /\ sourceNext \in 0..MaxFrame /\ expected \in 0..MaxFrame
  BY <1>2, <1>3
<1>9. clock \in 0..MaxTime
  BY <1>1, <1>2 DEF SendTypes
<1>10. QED
  BY <1>1, <1>4, <1>5, <1>6, <1>7, <1>8, <1>9 DEF SendTypes, ReceiveTypes, TypeOK

LEMMA KeptByInvariant == IInv => FramesKept
<1> SUFFICES ASSUME IInv PROVE PositionKept /\ FrameConserved
  BY DEF FramesKept
<1>1. /\ rxNext \in Nat /\ expected \in Nat /\ rxNext <= expected
      /\ \A f \in OnWay : f \in Nat /\ rxNext <= f /\ f < expected
      /\ Stream \in Seq(Cells)
  BY StateFacts
<1>2. Range(source) \cap (OnWay \cup arrived \cup dropped) = {}
  BY SourceApart
<1>3. /\ 0..(sourceNext - 1) = Range(source) \cup OnWay \cup arrived \cup dropped \cup flushed
      /\ arrived \cup dropped \subseteq 0..(rxNext - 1) /\ arrived \cap dropped = {}
      /\ flushed \cap (Range(source) \cup OnWay \cup arrived \cup dropped) = {}
  BY DEF IInv, Places
<1>4. OnWay \cap (arrived \cup dropped) = {}
  <2>1. ASSUME NEW f \in OnWay, f \in arrived \cup dropped PROVE FALSE
    <3>1. f \in 0..(rxNext - 1) /\ f \in Nat /\ rxNext <= f
      BY <1>1, <1>3, <2>1
    <3>2. QED
      BY <1>1, <3>1
  <2>2. QED
    BY <2>1
<1>5. Stream # << >> => Acceptable(Stream[1].block)
  <2>1. ASSUME Stream # << >> PROVE Accepts(Stream[1].block, rxNext)
    BY <2>1 DEF IInv, Carried, Awaited
  <2>2. QED
    BY <2>1 DEF Accepts, Acceptable
<1>6. /\ Range(source) \cap (OnWay \cup arrived \cup dropped \cup flushed) = {}
      /\ OnWay \cap (arrived \cup dropped \cup flushed) = {}
      /\ arrived \cap (dropped \cup flushed) = {}
  BY <1>2, <1>3, <1>4
<1>7. FrameConserved
  BY <1>3, <1>5, <1>6 DEF FrameConserved, OnWay, Stream
<1>8. PositionKept
  BY DEF IInv
<1>9. QED
  BY <1>7, <1>8

LEMMA Inductive == Spec => []IInv
<1>1. QED
  BY IInvInit, IInvStep, PTL DEF Spec

\* Types, and the capacities of the queues and of the socket (Outbound, Inbound, Sender, Receiver).
THEOREM TypeCorrect == Spec => []TypeOK
<1>1. QED
  BY Inductive, TypedByInvariant, PTL

\* Frames that cross the channel keep their positions, every gap is accounted for at the destination,
\* each frame is in exactly one place, and the receiver never refuses the block it reads next
\* (Outbound::pump, Inbound::accept).
THEOREM FramesAreKept == Spec => []FramesKept
<1>1. QED
  BY Inductive, KeptByInvariant, PTL

=============================================================================
