----------------------------- MODULE UsbBridge -----------------------------
(* Sample flow of a USB audio session whose streams belong to native clients *)
(* (gr-root-audio/src/usb_audio_bridge.rs, gr-audio-worker/src/client_pcm.rs).*)
(* Three threads of the application's process move the samples: the bridge    *)
(* between the session graph and the client queues, the poller that asks the  *)
(* worker how far the host is, and the client pump between queues and sockets.*)
(* The two directions share no sample state, so `dir` picks one per behaviour.*)
(* Frames are numbered; a queue holds the numbers of its frames.              *)
EXTENDS Integers, Sequences

CONSTANTS Block,      \* FRAMES and BLOCK_FRAMES (128)
          Fill,       \* NativeMicCredit::FILL (672)
          ClientCap,  \* capacity of the client queue
          GraphCap,   \* capacity of the graph session's queue
          WorkerCap,  \* capacity of the worker's queue (external, 2048)
          Ledger,     \* events the silence ledger keeps (64)
          MaxHost     \* bound: frames the host takes or the worker sends

VARIABLES dir,      \* the native direction of this behaviour
          host,     \* external: host frames, silence, source frames it used
          graph,    \* queue of the graph session, next frame, activation
          bridge,   \* run: pc, pending block, credit, rounds left
          poller,   \* spawn_host_clock_poller: pc and what it has read
          shared,   \* NativeMicProgress, the bridge snapshot, the ledger
          client,   \* client queue with its frame clock and loss count
          pump,     \* run_pump: pending microphone packet, next_playback
          wire,     \* the PCM socket
          worker    \* external: the worker's queue or send position

vars == <<dir, host, graph, bridge, poller, shared, client, pump, wire, worker>>

Prefix(s, n) == SubSeq(s, 1, IF n < Len(s) THEN n ELSE Len(s))
Beyond(s, n)  == SubSeq(s, n + 1, Len(s))
Less(a, b)  == IF a < b THEN a ELSE b
More(a, b)  == IF a > b THEN a ELSE b

Credit0 == [host |-> 0, consumed |-> 0, submitted |-> 0, started |-> FALSE]

Init ==
    /\ dir \in {"microphone", "playback"}
    /\ host = [frames |-> 0, silence |-> 0, used |-> 0]
    /\ graph = [q |-> <<>>, next |-> 1, active |-> FALSE]
    /\ bridge = [pc |-> "top", pend |-> <<>>, credit |-> Credit0, rounds |-> 0]
    /\ poller = [pc |-> "host", host |-> 0, silence |-> 0, consumed |-> 0,
                 prevHost |-> 0, prevSilence |-> 0]
    /\ shared = [host |-> 0, consumed |-> 0, sample |-> "none", events |-> <<>>, omitted |-> 0]
    /\ client = [q |-> <<>>, clock |-> 0, lost |-> 0]
    /\ pump = [pend |-> <<>>, next |-> 0]
    /\ wire = <<>>
    /\ worker = [q |-> <<>>, sent |-> 0]

---------------------------------------------------------------------------
(* NativeMicCredit: only consumption of queued source frames grants credit.  *)

UpdateProgress(c, h, used) ==
    LET consumed == More(c.consumed, used)
    IN  [host |-> h, consumed |-> consumed, submitted |-> More(c.submitted, consumed),
         started |-> c.started \/ h > 0]

FaultyAvailable(c) ==
    IF c.started THEN Less(More(c.host + Fill - c.submitted, 0), Block) ELSE 0

Available(c) ==
    IF c.started THEN Less(More(c.consumed + Fill - c.submitted, 0), Block) ELSE 0

\* refill_native_microphone: at most FILL.div_ceil(128) rounds per cycle.
Rounds == (Fill + Block - 1) \div Block

---------------------------------------------------------------------------
(* Microphone: graph -> bridge -> client queue -> pump -> socket -> worker.  *)

\* run, head of a cycle: take the published progress, wake the inputs when the
\* host starts, and update the credit.
BridgeTop ==
    /\ dir = "microphone" /\ bridge.pc = "top"
    /\ graph' = [graph EXCEPT !.active = @ \/ (bridge.credit.host = 0 /\ shared.host > 0)]
    /\ bridge' = [bridge EXCEPT !.pc = "refill", !.rounds = Rounds,
                    !.credit = UpdateProgress(@, shared.host, shared.consumed)]
    /\ UNCHANGED <<dir, host, poller, shared, client, pump, wire, worker>>

\* The pending block after a transfer: the rest stays for the next round.
Keep(pend, taken) == Beyond(pend, taken)

\* Metrics::capture_bridge_state: the sample a silence event will carry.
Sampled(s) == [s EXCEPT !.sample = "taken"]

\* One round of the refill: read a block when none is pending, offer at most the
\* credit, keep what the client queue did not accept. The last round is followed
\* by the sample.
BridgeRefill ==
    /\ dir = "microphone" /\ bridge.pc = "refill"
    /\ LET credit == Available(bridge.credit)
           fresh  == bridge.pend = <<>> /\ credit > 0 /\ bridge.rounds > 0
           pend   == IF fresh THEN Prefix(graph.q, Block) ELSE bridge.pend
           offer  == Prefix(pend, credit)
           taken  == Less(Len(offer), ClientCap - Len(client.q))
           ends   == bridge.rounds = 0 \/ credit = 0 \/ taken = 0
       IN  /\ graph' = IF fresh THEN [graph EXCEPT !.q = Beyond(@, Block)] ELSE graph
           /\ client' = IF ends THEN client
                        ELSE [client EXCEPT !.q = @ \o Prefix(offer, taken)]
           /\ bridge' = IF ends
                        THEN [bridge EXCEPT !.pc = "top", !.pend = pend, !.rounds = 0]
                        ELSE [bridge EXCEPT !.pend = Keep(pend, taken), !.rounds = @ - 1,
                                !.credit.submitted = @ + taken]
           /\ shared' = IF ends THEN Sampled(shared) ELSE shared
    /\ UNCHANGED <<dir, host, poller, pump, wire, worker>>

\* The poller's two exchanges under one control lock; the host moves between.
PollHost ==
    /\ dir = "microphone" /\ poller.pc = "host"
    /\ poller' = [poller EXCEPT !.pc = "consumed", !.host = host.frames, !.silence = host.silence]
    /\ UNCHANGED <<dir, host, graph, bridge, shared, client, pump, wire, worker>>

PollConsumed ==
    /\ dir = "microphone" /\ poller.pc = "consumed"
    /\ poller' = [poller EXCEPT !.pc = "publish", !.consumed = host.used]
    /\ UNCHANGED <<dir, host, graph, bridge, shared, client, pump, wire, worker>>

\* SilenceLedger::record: the first events are kept, later ones counted.
Record(l, event) ==
    IF Len(l.events) < Ledger THEN [l EXCEPT !.events = Append(@, event)]
    ELSE [l EXCEPT !.omitted = @ + 1]

\* observe_silence: an increase since the last reply becomes one event.
ObserveSilence(l) ==
    IF poller.silence <= poller.prevSilence THEN l
    ELSE Record(l, [from |-> poller.prevSilence, to |-> poller.silence,
                    since |-> poller.prevHost, host |-> poller.host, bridge |-> l.sample])

PollPublish ==
    /\ dir = "microphone" /\ poller.pc = "publish"
    /\ shared' = [ObserveSilence(shared) EXCEPT !.host = poller.host,
                    !.consumed = More(@, poller.consumed)]
    /\ poller' = [poller EXCEPT !.pc = "host", !.host = 0, !.silence = 0, !.consumed = 0,
                    !.prevHost = poller.host, !.prevSilence = poller.silence]
    /\ UNCHANGED <<dir, host, graph, bridge, client, pump, wire, worker>>

\* pump_microphone: a packet the socket refuses stays pending and is not reread.
\* The loop of up to CAPACITY/BLOCK packets is a repetition of this step.
PumpRead == IF pump.pend = <<>> THEN Prefix(client.q, Block) ELSE pump.pend

PumpMicrophone ==
    /\ dir = "microphone"
    /\ LET read == PumpRead
           left == IF pump.pend = <<>> THEN Beyond(client.q, Block) ELSE client.q
       IN  /\ read # <<>>
           /\ client' = [client EXCEPT !.q = left]
           /\ IF wire = <<>>
              THEN wire' = read /\ pump' = [pump EXCEPT !.pend = <<>>]
              ELSE wire' = wire /\ pump' = [pump EXCEPT !.pend = read]
    /\ UNCHANGED <<dir, host, graph, bridge, poller, shared, worker>>

\* external: the session graph captures frames once its input is active.
GraphCapture ==
    /\ dir = "microphone"
    /\ graph.active /\ Len(graph.q) < GraphCap /\ graph.next <= MaxHost
    /\ graph' = [graph EXCEPT !.q = Append(@, graph.next), !.next = @ + 1]
    /\ UNCHANGED <<dir, host, bridge, poller, shared, client, pump, wire, worker>>

\* external: the worker takes the packet; what does not fit is dropped.
WorkerReceive ==
    /\ dir = "microphone" /\ wire # <<>>
    /\ worker' = [worker EXCEPT !.q = @ \o Prefix(wire, WorkerCap - Len(worker.q))]
    /\ wire' = <<>>
    /\ UNCHANGED <<dir, host, graph, bridge, poller, shared, client, pump>>

\* external: the host captures a frame; an empty queue gives silence.
HostFrame ==
    /\ dir = "microphone" /\ host.frames < MaxHost
    /\ IF worker.q = <<>>
       THEN /\ host' = [host EXCEPT !.frames = @ + 1, !.silence = @ + 1]
            /\ UNCHANGED worker
       ELSE /\ host' = [host EXCEPT !.frames = @ + 1, !.used = @ + 1]
            /\ worker' = [worker EXCEPT !.q = Tail(@)]
    /\ UNCHANGED <<dir, graph, bridge, poller, shared, client, pump, wire>>

---------------------------------------------------------------------------
(* Playback: worker -> socket -> pump -> client queue -> bridge -> graph.    *)

\* external: the worker sends a block; frames it lost before leave a gap.
WorkerSend ==
    /\ dir = "playback" /\ wire = <<>>
    /\ \E gap \in 0..1, n \in 1..Block :
         /\ worker.sent + gap + n <= MaxHost
         /\ wire' = [i \in 1..n |-> worker.sent + gap + i]
         /\ worker' = [worker EXCEPT !.sent = @ + gap + n]
    /\ UNCHANGED <<dir, host, graph, bridge, poller, shared, client, pump>>

\* PcmProducer::push and discard both advance the queue's frame clock; a queued
\* frame carries the position the queue gave it and the number the worker sent.
Push(c, block) ==
    LET n == Less(Len(block), ClientCap - Len(c.q))
    IN  [c EXCEPT !.q = @ \o [i \in 1..n |-> [at |-> c.clock + i, frame |-> block[i]]],
                  !.clock = @ + n]
Discard(c, n) == [c EXCEPT !.clock = @ + n, !.lost = @ + n]

\* run_pump, playback half: a gap before the block and the frames the queue did
\* not take are discarded, so that later frames keep their position.
Admit(c, block) ==
    LET placed == Discard(c, block[1] - 1 - pump.next)
        pushed == Push(placed, block)
    IN  Discard(pushed, Len(block) - (Len(pushed.q) - Len(placed.q)))

PumpPlayback ==
    /\ dir = "playback" /\ wire # <<>>
    /\ client' = Admit(client, wire)
    /\ pump' = [pump EXCEPT !.next = wire[Len(wire)]]
    /\ wire' = <<>>
    /\ UNCHANGED <<dir, host, graph, bridge, poller, shared, worker>>

\* PcmConsumer::read stops before a discontinuity.
Contiguous(q) ==
    LET run == {n \in 0..Less(Block, Len(q)) : \A i \in 2..n : q[i].at = q[i - 1].at + 1}
    IN  CHOOSE n \in run : \A m \in run : m <= n

\* run, playback half: read a block when none is pending, write what fits.
BridgePlayback ==
    /\ dir = "playback"
    /\ LET fresh == bridge.pend = <<>>
           n     == Contiguous(client.q)
           pend  == IF fresh THEN Prefix(client.q, n) ELSE bridge.pend
           room  == Less(Len(pend), GraphCap - Len(graph.q))
       IN  /\ pend # <<>>
           /\ client' = IF fresh THEN [client EXCEPT !.q = Beyond(@, n)] ELSE client
           /\ graph' = [graph EXCEPT !.q = @ \o Prefix(pend, room)]
           /\ bridge' = [bridge EXCEPT !.pend = Keep(pend, room)]
    /\ UNCHANGED <<dir, host, poller, shared, pump, wire, worker>>

\* external: the session graph plays a frame.
GraphPlay ==
    /\ dir = "playback" /\ graph.q # <<>>
    /\ graph' = [graph EXCEPT !.q = Tail(@), !.next = Head(graph.q).at]
    /\ UNCHANGED <<dir, host, bridge, poller, shared, client, pump, wire, worker>>

Next ==
    \/ BridgeTop \/ BridgeRefill
    \/ PollHost \/ PollConsumed \/ PollPublish
    \/ PumpMicrophone \/ GraphCapture \/ WorkerReceive \/ HostFrame
    \/ WorkerSend \/ PumpPlayback \/ BridgePlayback \/ GraphPlay

Spec == Init /\ [][Next]_vars

---------------------------------------------------------------------------
InFlight == worker.q \o wire \o pump.pend \o client.q

(* Native microphone pacing: what the bridge submitted and the host has not   *)
(* used is exactly what sits between them, in order and without a gap, and    *)
(* never more than FILL, so the worker's larger queue never drops a frame.    *)
CreditKept ==
    dir = "microphone" =>
        LET all == InFlight \o bridge.pend \o graph.q
        IN  /\ \A i \in 1..Len(all) : all[i] = host.used + i
            /\ host.used + Len(InFlight) = bridge.credit.submitted
            /\ Len(InFlight) <= Fill

(* The silence trace accounts for every silent frame the poller has seen: its *)
(* events follow on each other from zero, within the bound, and an event is   *)
(* omitted only when the ledger is full.                                      *)
SilenceTraced ==
    LET e == shared.events
    IN  /\ Len(e) <= Ledger
        /\ \A i \in 1..Len(e) :
             /\ e[i].from = IF i = 1 THEN 0 ELSE e[i - 1].to
             /\ e[i].from < e[i].to /\ e[i].since < e[i].host
             /\ e[i].to - e[i].from <= e[i].host - e[i].since
        /\ shared.omitted > 0 => Len(e) = Ledger
        /\ shared.omitted = 0 /\ poller.pc # "publish" /\ e # <<>> =>
             e[Len(e)].to = poller.prevSilence

(* Playback keeps its time: whatever the pump had to discard, a frame that    *)
(* reaches the graph has the position the worker gave it, and positions grow. *)
PlaybackPlaced ==
    dir = "playback" =>
        LET all == graph.q \o bridge.pend \o client.q
        IN  /\ \A i \in 1..Len(all) : all[i].at = all[i].frame
            /\ \A i \in 2..Len(all) : all[i - 1].at < all[i].at
=============================================================================
