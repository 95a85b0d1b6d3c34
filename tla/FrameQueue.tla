----------------------------- MODULE FrameQueue -----------------------------
(***************************************************************************)
(* What a PCM queue promises its two owners, without its ring: a bounded   *)
(* sequence of numbered frames.  The number is the producer's frame clock, *)
(* which discarded frames advance too.  A read takes one contiguous        *)
(* segment from the front and reports a discontinuity exactly when frames  *)
(* between the last one delivered and its first were lost.                 *)
(***************************************************************************)
EXTENDS Integers, Sequences

CONSTANTS Capacity,   \* frames the queue holds
          MaxFrame    \* the end of the frame clock

VARIABLES queued,     \* frame numbers, oldest first
          clock,      \* number of the next frame
          expect,     \* number after the last frame delivered
          mark,       \* frames below it were flushed by the producer
          owed,       \* the mark when the current read was called
          out,        \* what the last read returned; NoRead while one is running
          shut

vars == <<queued, clock, expect, mark, owed, out, shut>>

NoRead == [first |-> 0, frames |-> -1, gap |-> FALSE]

Init ==
  /\ queued = <<>> /\ clock = 0 /\ expect = 0 /\ mark = 0 /\ owed = 0
  /\ out = [first |-> 0, frames |-> 0, gap |-> FALSE] /\ shut = FALSE

\* Some prefix of what was offered is accepted, and published as one.
Push(n) ==
  /\ n <= Capacity - Len(queued) /\ clock + n <= MaxFrame
  /\ queued' = queued \o [i \in 1 .. n |-> clock + i - 1]
  /\ clock' = clock + n
  /\ UNCHANGED <<expect, mark, owed, out, shut>>

Discard(k) ==
  /\ ~shut /\ clock + k <= MaxFrame
  /\ clock' = clock + k
  /\ UNCHANGED <<queued, expect, mark, owed, out, shut>>

Flush ==
  /\ ~shut
  /\ mark' = clock
  /\ UNCHANGED <<queued, clock, expect, owed, out, shut>>

Call ==
  /\ ~shut /\ out # NoRead
  /\ out' = NoRead /\ owed' = mark
  /\ UNCHANGED <<queued, clock, expect, mark, shut>>

\* The first s frames were flushed, the next n are delivered.
Return(s, n) ==
  /\ out = NoRead
  /\ s + n <= Len(queued)
  /\ \A i \in 1 .. s : queued[i] < mark
  /\ \A i \in 1 .. n : queued[s + i] = queued[s + 1] + i - 1
  /\ n > 0 => queued[s + 1] >= owed
  /\ out' = IF n = 0 THEN [first |-> expect, frames |-> 0, gap |-> FALSE]
            ELSE [first |-> queued[s + 1], frames |-> n, gap |-> queued[s + 1] # expect]
  /\ expect' = IF n = 0 THEN expect ELSE queued[s + n] + 1
  /\ queued' = SubSeq(queued, s + n + 1, Len(queued))
  /\ UNCHANGED <<clock, mark, owed, shut>>

\* A flush by the consumer drops what was published when it began.
Drop(k) ==
  /\ k <= Len(queued)
  /\ queued' = SubSeq(queued, k + 1, Len(queued))
  /\ UNCHANGED <<clock, expect, mark, owed, out, shut>>

Close == shut' = TRUE /\ UNCHANGED <<queued, clock, expect, mark, owed, out>>

Next ==
  \/ \E n \in 1 .. Capacity : Push(n)
  \/ \E k \in 1 .. MaxFrame : Discard(k)
  \/ Flush \/ Call \/ Close
  \/ \E s, n \in 0 .. Capacity : Return(s, n)
  \/ \E k \in 1 .. Capacity : Drop(k)

Spec == Init /\ [][Next]_vars
=============================================================================
