--------------------------- MODULE PipeWireStream ---------------------------
(***************************************************************************)
(* The data path of gr-audio-linux: a sink stream whose process callback   *)
(* moves graph buffers into a PCM queue, a source stream whose callback    *)
(* fills graph buffers from it, the loss ledger and the clock observations *)
(* the callbacks publish, and the application thread that reads them.      *)
(*                                                                         *)
(* The callbacks run on the real-time data loop, one at a time; stream     *)
(* states change on the main loop; the application reads whenever it       *)
(* wants.  Only atomics are shared: every store of a ledger slot and of    *)
(* the timing record is a step of its own.  The queue is the one           *)
(* FrameQueue promises, reduced to counts of frames.                       *)
(***************************************************************************)
EXTENDS Integers, Sequences

CONSTANTS Capacity,    \* QUEUE_FRAMES
          Scratch,     \* frames of the callback's scratch buffer
          LossEvents,  \* LOSS_EVENTS: slots of the ledger
          Preroll,     \* source_preroll
          Quantum,     \* frames of one graph cycle
          Tries,       \* attempts of a snapshot
          MaxReceived, \* bound: frames offered by the graph
          MaxTicks,    \* bound: graph cycles
          MaxUnderrun  \* bound: frames of silence after which no empty cycle is added

VARIABLES graph,   \* external: ticks, rate, stream state, cycles skipped, and what the
                   \* behaviour exercises: the clock record and the ledger share no state
          cb,      \* the sink's Callback: where it is and its locals
          queue,   \* frames queued, and read by the source
          loss,    \* InputLoss: counters, published, omitted
          slot,    \* its ledger
          trk,     \* Tracker
          shr,     \* timing::Shared
          src,     \* the source's Callback
          obs,     \* application thread: trace() and snapshot()
          truth    \* history: losses in order, and frames missed at each record

vars == <<graph, cb, queue, loss, slot, trk, shr, src, obs, truth>>

Event(r, f, n) == [reason |-> r, first |-> f, frames |-> n]
NoEvent == Event("none", 0, 0)
Least(a, b) == IF a < b THEN a ELSE b

\* The stores of Tracker.record between its two increments of seq, and the
\* loads of Shared::snapshot, in their own order ("delay" stands for now,
\* delay and discontinuities, which both sides access in the same order).
Stores == <<"ticks", "rate", "delay", "missed">>
Loads  == <<"rate", "ticks", "delay", "missed">>
Blank == [ticks |-> 0, rate |-> 0, delay |-> 0, missed |-> 0]
\* The stores of InputLoss::record before published is released.
Cells == <<"reason", "first", "frames">>

Init ==
  /\ \E about \in {"clock", "loss"} :
       graph = [ticks |-> 0, rate |-> 1, st |-> "streaming", gen |-> 0, skipped |-> 0,
                cut |-> FALSE, about |-> about]
  /\ cb = [pc |-> "idle", left |-> 0, at |-> 0, event |-> NoEvent, frames |-> 0, seen |-> 0, step |-> 1]
  /\ queue = [queued |-> 0, read |-> 0]
  /\ loss = [received |-> 0, empty |-> 0, corrupted |-> 0, overflow |-> 0, published |-> 0, omitted |-> 0]
  /\ slot = [i \in 1 .. LossEvents |-> NoEvent]
  /\ trk = [on |-> FALSE, ticks |-> 0, rate |-> 0, frames |-> 0, discontinuities |-> 0, missed |-> 0]
  /\ shr = [seq |-> 0, v |-> Blank]
  /\ src = [started |-> FALSE, silent |-> 0]
  /\ obs = [pc |-> "idle", at |-> 1, count |-> 0, got |-> <<>>, received |-> 0, before |-> 0,
            v |-> Blank, tries |-> 0, some |-> FALSE]
  /\ truth = [lost |-> <<>>, missed |-> <<0>>]

-----------------------------------------------------------------------------
(* The sink's process callback. *)

\* Samples after a pause are no continuation of those before it.
Refresh == IF graph.gen # cb.seen THEN [trk EXCEPT !.on = FALSE] ELSE trk

FaultyIngest(kind, n) ==
  /\ loss' = IF kind = "data" THEN [loss EXCEPT !.received = @ + n]
             ELSE [loss EXCEPT ![kind] = @ + n]
  /\ cb' = [cb EXCEPT !.seen = graph.gen, !.frames = n, !.at = loss.received,
                      !.left = IF kind = "data" THEN n ELSE 0,
                      !.event = IF kind = "data" THEN NoEvent ELSE Event(kind, loss.received, n),
                      !.pc = IF kind = "data" THEN "packet" ELSE "record", !.step = 1]

Ingest(kind, n) ==
  /\ loss' = IF kind = "data" THEN [loss EXCEPT !.received = @ + n]
             ELSE [loss EXCEPT !.received = @ + n, ![kind] = @ + n]
  /\ cb' = [cb EXCEPT !.seen = graph.gen, !.frames = n, !.at = loss.received,
                      !.left = IF kind = "data" THEN n ELSE 0,
                      !.event = IF kind = "data" THEN NoEvent ELSE Event(kind, loss.received, n),
                      !.pc = IF kind = "data" THEN "packet" ELSE "record", !.step = 1]

Process(kind, n) ==
  /\ cb.pc = "idle" /\ graph.st = "cycle" /\ loss.received + n <= MaxReceived
  /\ trk' = Refresh
  /\ Ingest(kind, n)
  /\ truth' = IF kind = "data" \/ n = 0 THEN truth
              ELSE [truth EXCEPT !.lost = Append(@, Event(kind, loss.received, n))]
  /\ UNCHANGED <<graph, queue, slot, shr, src, obs>>

\* One packet of the copy loop: what the queue does not take is discarded,
\* counted and recorded at its own position.
Packet ==
  /\ cb.pc = "packet" /\ cb.left > 0
  /\ LET count == Least(cb.left, Scratch)
         n == Least(count, Capacity - queue.queued)
         e == Event("overflow", cb.at + n, count - n)
     IN /\ queue' = [queue EXCEPT !.queued = @ + n]
        /\ loss' = [loss EXCEPT !.overflow = @ + (count - n)]
        /\ cb' = [cb EXCEPT !.left = @ - count, !.at = @ + count, !.event = e, !.pc = "record",
                            !.step = 1]
        /\ truth' = IF count = n THEN truth ELSE [truth EXCEPT !.lost = Append(@, e)]
  /\ UNCHANGED <<graph, slot, trk, shr, src, obs>>

Record ==
  /\ cb.pc = "record"
  /\ IF cb.event.frames = 0 \/ loss.published = LossEvents
     THEN /\ loss' = IF cb.event.frames = 0 THEN loss ELSE [loss EXCEPT !.omitted = @ + 1]
          /\ cb' = [cb EXCEPT !.pc = "packet"]
          /\ UNCHANGED slot
     ELSE IF cb.step <= Len(Cells)
     THEN /\ slot' = [slot EXCEPT ![loss.published + 1][Cells[cb.step]] = cb.event[Cells[cb.step]]]
          /\ cb' = [cb EXCEPT !.step = @ + 1]
          /\ UNCHANGED loss
     ELSE /\ loss' = [loss EXCEPT !.published = @ + 1]
          /\ cb' = [cb EXCEPT !.pc = "packet"]
          /\ UNCHANGED slot
  /\ UNCHANGED <<graph, queue, trk, shr, src, obs, truth>>

\* The buffer is done: its clock is observed, if the stream has one.
Copied ==
  /\ cb.pc = "packet" /\ cb.left = 0
  /\ cb' = [cb EXCEPT !.pc = "clock", !.step = 1, !.event = NoEvent]
  /\ UNCHANGED <<graph, queue, loss, slot, trk, shr, src, obs, truth>>

Track(t) ==
  IF ~t.on THEN [t EXCEPT !.frames = cb.frames]
  ELSE IF t.rate # graph.rate THEN [t EXCEPT !.discontinuities = @ + 1, !.frames = cb.frames]
  ELSE IF t.ticks = graph.ticks THEN [t EXCEPT !.frames = @ + cb.frames]
  ELSE LET gap == (graph.ticks - t.ticks) - t.frames IN
       IF gap > 0 THEN [t EXCEPT !.discontinuities = @ + 1, !.missed = @ + gap, !.frames = cb.frames]
       ELSE [t EXCEPT !.frames = cb.frames]

Observe ==
  /\ cb.pc = "clock"
  /\ trk' = [Track(trk) EXCEPT !.on = TRUE, !.ticks = graph.ticks, !.rate = graph.rate]
  /\ shr' = [shr EXCEPT !.seq = @ + 1]
  /\ cb' = [cb EXCEPT !.pc = "store"]
  /\ truth' = [truth EXCEPT !.missed = Append(@, truth.missed[Len(truth.missed)] +
                              (IF graph.cut THEN 0 ELSE graph.skipped))]
  /\ graph' = [graph EXCEPT !.skipped = 0, !.cut = FALSE]
  /\ UNCHANGED <<queue, loss, slot, src, obs>>

\* The relaxed stores, each the number of the record it belongs to (the two
\* counters their value), and the second increment.
Store ==
  /\ cb.pc = "store"
  /\ IF cb.step <= Len(Stores)
     THEN /\ shr' = [shr EXCEPT !.v[Stores[cb.step]] =
                        IF Stores[cb.step] = "missed" THEN trk.missed ELSE Len(truth.missed)]
          /\ cb' = [cb EXCEPT !.step = @ + 1]
     ELSE /\ shr' = [shr EXCEPT !.seq = @ + 1]
          /\ cb' = [cb EXCEPT !.pc = "done"]
  /\ UNCHANGED <<graph, queue, loss, slot, trk, src, obs, truth>>

-----------------------------------------------------------------------------
(* The source's process callback. *)

SourceReady == src.started \/ Preroll = 0 \/ queue.queued >= Quantum + Preroll

\* The graph asks for a quantum: silence, and whatever the queue holds once
\* the source has started; a short read rearms the preroll.
Fill ==
  /\ cb.pc = "idle"
  /\ LET n == IF SourceReady THEN Least(Quantum, queue.queued) ELSE 0 IN
     /\ n > 0 \/ src.silent < MaxUnderrun
     /\ queue' = [queued |-> queue.queued - n, read |-> queue.read + n]
     /\ src' = [started |-> SourceReady /\ (n = Quantum \/ Preroll = 0),
                silent  |-> src.silent + (Quantum - n)]
  /\ UNCHANGED <<graph, cb, loss, slot, trk, shr, obs, truth>>

-----------------------------------------------------------------------------
(* External: the graph.  A cycle serves the sink with one whole buffer or  *)
(* with two, or misses it; suspending pauses the stream on the main loop   *)
(* before it may be started again.                                         *)

Advance(x) == [x EXCEPT !.ticks = @ + Quantum]
Cycle ==
  /\ cb.pc = "idle" /\ graph.st = "streaming" /\ graph.ticks < MaxTicks
  /\ graph' = [Advance(graph) EXCEPT !.st = "cycle"]
  /\ UNCHANGED <<cb, queue, loss, slot, trk, shr, src, obs, truth>>

\* A cycle ends with the buffers it delivered; a second one may follow.
CycleEnd ==
  /\ cb.pc = "done"
  /\ cb' = [cb EXCEPT !.pc = "idle"]
  /\ graph' = [graph EXCEPT !.st = IF cb.frames < Quantum /\ graph.st = "cycle" THEN "second" ELSE "streaming"]
  /\ UNCHANGED <<queue, loss, slot, trk, shr, src, obs, truth>>

\* The rest of a split cycle.
Second(kind) ==
  /\ cb.pc = "idle" /\ graph.st = "second"
  /\ LET n == Quantum - cb.frames IN
     /\ loss.received + n <= MaxReceived
     /\ trk' = Refresh
     /\ Ingest(kind, n)
     /\ truth' = IF kind = "data" THEN truth
                 ELSE [truth EXCEPT !.lost = Append(@, Event(kind, loss.received, n))]
  /\ graph' = [graph EXCEPT !.st = "rest"]
  /\ UNCHANGED <<queue, slot, shr, src, obs>>

Skip ==
  /\ graph.about = "clock" /\ cb.pc = "idle" /\ graph.st = "streaming" /\ graph.ticks < MaxTicks
  /\ graph' = [Advance(graph) EXCEPT !.skipped = @ + (IF trk.on THEN Quantum ELSE 0)]
  /\ UNCHANGED <<cb, queue, loss, slot, trk, shr, src, obs, truth>>

Pause ==
  /\ graph.about = "clock" /\ cb.pc = "idle" /\ graph.st = "streaming" /\ graph.gen < 1
  /\ graph' = [graph EXCEPT !.st = "paused", !.gen = @ + 1, !.cut = TRUE]
  /\ UNCHANGED <<cb, queue, loss, slot, trk, shr, src, obs, truth>>

\* Time passes while suspended; the stream is started again.
Resume ==
  /\ graph.st = "paused"
  /\ graph' = [Advance(graph) EXCEPT !.st = "streaming"]
  /\ UNCHANGED <<cb, queue, loss, slot, trk, shr, src, obs, truth>>

\* Another driver takes over with its own rate.
Rate ==
  /\ graph.about = "clock" /\ cb.pc = "idle" /\ graph.st = "streaming" /\ graph.rate = 1 /\ trk.on
  /\ graph' = [graph EXCEPT !.rate = 2, !.cut = TRUE]
  /\ UNCHANGED <<cb, queue, loss, slot, trk, shr, src, obs, truth>>

-----------------------------------------------------------------------------
(* The application thread. *)

\* InputLoss::trace: published first, then the slots, then received.
Trace ==
  /\ graph.about = "loss" /\ obs.pc = "idle"
  /\ obs' = [obs EXCEPT !.pc = "slots", !.count = loss.published, !.got = <<>>, !.at = 1]
  /\ UNCHANGED <<graph, cb, queue, loss, slot, trk, shr, src, truth>>

TraceSlot ==
  /\ obs.pc = "slots"
  /\ obs' = IF Len(obs.got) < obs.count
            THEN [obs EXCEPT !.got = Append(@, slot[Len(obs.got) + 1])]
            ELSE [obs EXCEPT !.pc = "traced", !.received = loss.received]
  /\ UNCHANGED <<graph, cb, queue, loss, slot, trk, shr, src, truth>>

\* Shared::snapshot: an odd or zero seq, or one that moved, costs a try.
Snapshot ==
  /\ graph.about = "clock" /\ obs.pc = "idle"
  /\ obs' = [obs EXCEPT !.pc = "before", !.tries = Tries, !.some = FALSE]
  /\ UNCHANGED <<graph, cb, queue, loss, slot, trk, shr, src, truth>>

Before ==
  /\ obs.pc = "before"
  /\ obs' = CASE obs.tries = 0 -> [obs EXCEPT !.pc = "snapped"]
              [] obs.tries > 0 /\ (shr.seq = 0 \/ shr.seq % 2 # 0) -> [obs EXCEPT !.tries = @ - 1]
              [] obs.tries > 0 /\ shr.seq > 0 /\ shr.seq % 2 = 0 ->
                   [obs EXCEPT !.pc = "load", !.before = shr.seq, !.at = 1]
  /\ UNCHANGED <<graph, cb, queue, loss, slot, trk, shr, src, truth>>

Load ==
  /\ obs.pc = "load"
  /\ obs' = IF obs.at <= Len(Loads)
            THEN [obs EXCEPT !.v[Loads[obs.at]] = shr.v[Loads[obs.at]], !.at = @ + 1]
            ELSE IF shr.seq = obs.before THEN [obs EXCEPT !.pc = "snapped", !.some = TRUE]
            ELSE [obs EXCEPT !.pc = "before", !.tries = @ - 1]
  /\ UNCHANGED <<graph, cb, queue, loss, slot, trk, shr, src, truth>>

Return ==
  /\ obs.pc \in {"traced", "snapped"}
  /\ obs' = [obs EXCEPT !.pc = "idle", !.at = 1, !.count = 0, !.got = <<>>, !.received = 0,
                        !.before = 0, !.v = Blank, !.tries = 0, !.some = FALSE]
  /\ UNCHANGED <<graph, cb, queue, loss, slot, trk, shr, src, truth>>

-----------------------------------------------------------------------------
Kinds == IF graph.about = "loss" THEN {"data", "empty", "corrupted"} ELSE {"data"}
Callbacks == Packet \/ Record \/ Copied \/ Observe \/ Store \/ CycleEnd
Serve == \/ \E kind \in Kinds, n \in 1 .. Quantum : Process(kind, n)
         \/ \E kind \in Kinds : Second(kind)
Next ==
  \/ Callbacks \/ Serve \/ Fill
  \/ Cycle \/ Skip \/ Pause \/ Resume \/ Rate
  \/ Trace \/ TraceSlot \/ Snapshot \/ Before \/ Load \/ Return

Spec == Init /\ [][Next]_vars

\* The data loop runs its callbacks to the end, and the graph keeps calling
\* the source.
LiveSpec == Spec /\ WF_vars(Callbacks) /\ WF_vars(Fill)

-----------------------------------------------------------------------------
\* Every frame of the graph was read, is queued or was lost for exactly one
\* counted reason; the ledger holds the first losses in order with their
\* exact positions, and the rest is counted as omitted.
LossExplained ==
  /\ cb.pc = "idle" =>
       /\ loss.received = queue.read + queue.queued + loss.empty + loss.corrupted + loss.overflow
       /\ loss.published + loss.omitted = Len(truth.lost)
  /\ \A i \in 1 .. loss.published : slot[i] = truth.lost[i]
  /\ \A i, j \in 1 .. Len(truth.lost) : i < j =>
       truth.lost[i].first + truth.lost[i].frames <= truth.lost[j].first

\* What the application reads beside the running callbacks is one complete
\* clock record with the frames really missed by then, cycles while suspended
\* and split cycles not among them, or a ledger of finished entries within
\* the frames received.
ReadsWhole ==
  /\ obs.pc = "snapped" /\ obs.some =>
       /\ \A f \in {"ticks", "rate", "delay"} : obs.v[f] = obs.v["ticks"]
       /\ obs.v["missed"] = truth.missed[obs.v["ticks"]]
  /\ obs.pc = "traced" =>
       /\ obs.got = SubSeq(truth.lost, 1, obs.count)
       /\ \A i \in 1 .. obs.count : obs.got[i].first + obs.got[i].frames <= obs.received

\* The queue holds what the source waits for and what one cycle plays.
Playable == queue.queued >= Quantum + Preroll

\* Queued frames are played in the end: neither the preroll nor a short read
\* leaves the source silent beside a queue that holds what it waits for.
QueuePlayed == []<>(~Playable)
=============================================================================
