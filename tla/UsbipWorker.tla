---------------------------- MODULE UsbipWorker ----------------------------
(***************************************************************************)
(* One connection of the unprivileged USB/IP device worker:                *)
(* gr_usbip::worker::Worker with its Pending table, its CompletionQueue    *)
(* and its ControlState, against the kernel's vhci driver at the other end *)
(* of the socket.                                                          *)
(*                                                                         *)
(* The worker is one thread.  An iteration of its loop reads the clock     *)
(* once, then receives, captures and completes what is due, enforces the   *)
(* deadlines and waits.  The kernel submits and unlinks transfers and      *)
(* reads replies at any moment.  A transfer has a sequence number, which   *)
(* the kernel may use again, and here also an identity (urb), which only   *)
(* the properties look at.  One unit of time is one millisecond, the       *)
(* length of an isochronous packet.                                        *)
(***************************************************************************)
EXTENDS Integers, Sequences, FiniteSetsExt

CONSTANTS
  Seqs,          \* kernel sequence numbers
  Script,        \* Script[k]: what the kernel may submit as its k-th transfer
  SlotCount,     \* SLOT_COUNT: transfer slots, and frames of the completion queue
  Timeout,       \* the 1 s given to a request, to a reply and to a partial frame
  InputPoll,     \* the 4 ms of the interrupt input endpoint
  HeaderUnits,   \* units of a USB/IP header as the socket splits it
  ReplyUnits,    \* units of a reply as the socket splits it
  SocketUnits,   \* units the socket towards the kernel can hold
  MaxUnlinks,    \* bound: unlink requests
  MaxTime        \* bound: last instant

Streams == {"control", "input", "output", "play", "mic"}
Ops == {"none", "configure", "deconfigure", "micOn", "micOff", "playOn", "playOff", "hid"}

\* The bound on transfers, and every request among them.
MaxUrbs == Len(Script)
Requests == UNION {Script[k] : k \in 1..MaxUrbs}

ASSUME WorkerAssumption ==
  /\ Script \in Seq(SUBSET [stream: Streams, packets: Nat, op: Ops])
  /\ SlotCount \in Nat \ {0} /\ Timeout \in Nat \ {0} /\ InputPoll \in Nat
  /\ HeaderUnits \in Nat \ {0} /\ ReplyUnits \in Nat \ {0} /\ SocketUnits \in Nat
  /\ MaxUnlinks \in Nat /\ MaxTime \in Nat

VARIABLES
  pc,           \* where the loop of run_inner stands
  after,        \* where a flush of the completion queue returns to
  rounds,       \* receive_one calls made in this iteration
  clock,        \* the monotonic clock
  now,          \* the instant this iteration works with
  control,      \* Worker.control: configuration and audio alternate settings
  slots,        \* Worker.slots: a transfer where the ticket is Some, else NoSlot
  pending,      \* Worker.pending.entries
  generation,   \* Worker.pending.generation
  nextOrder,    \* Worker.next_order
  received,     \* Worker.received, in units
  frameStarted, \* Worker.frame_started
  outgoing,     \* Worker.outgoing: replies with their written offset and deadline
  completing,   \* the slot whose reply is being flushed, with its status
  abandoned,    \* Counters.abandoned_capture_frames, in packets
  \* The kernel's side and the socket (external).
  wire,         \* frames sent by the kernel and not consumed
  socket,       \* units of replies written and not read
  reading,      \* units read of the reply at the head of the stream
  urbs,         \* transfers submitted so far
  outstanding,  \* [urb, seq] of the transfers the kernel waits for
  unlinked,     \* transfers the kernel asked to unlink
  \* History for the properties only.
  collected,    \* microphone packets collected
  finished,     \* microphone packets that belong to a finished transfer
  streamed      \* isochronous packets completed, by stream

loopVars == <<pc, after, rounds, completing>>
timeVars == <<clock, now>>
tableVars == <<slots, pending, generation, nextOrder>>
recvVars == <<received, frameStarted>>
kernelVars == <<urbs, outstanding, unlinked>>
audioVars == <<abandoned, collected, finished, streamed>>
vars == <<loopVars, timeVars, control, tableVars, recvVars, outgoing, audioVars,
          wire, socket, reading, kernelVars>>

NoTime == -1
NoSlot == [urb |-> 0]
NoCompletion == [slot |-> 0, ok |-> FALSE]
Slots == 1..SlotCount
Live == {i \in Slots : slots[i] # NoSlot}
Transfer == [urb: Nat, seq: Seqs, generation: Nat, request: Requests, ready: Nat, order: Nat, captured: Nat]
Reply == [kind: {"submit", "unlink"}, urb: Nat, ok: BOOLEAN, written: Nat, deadline: Nat]

(***************************************************************************)
(* Definitions named Faulty... are plausible defects of the definition     *)
(* that follows them.  They are used only to test that the properties can  *)
(* tell the defect from the code.                                          *)
(***************************************************************************)

-----------------------------------------------------------------------------
(* ControlState: configuration and alternate settings.                     *)

Unconfigured == [configured |-> FALSE, mic |-> FALSE, play |-> FALSE]
MicrophoneActive == control.configured /\ control.mic
PlaybackActive == control.configured /\ control.play

\* ControlState::handle with the HID answer: every <<success, next state>>.
HandleControl(op) ==
  CASE op = "configure" -> {<<TRUE, [Unconfigured EXCEPT !.configured = TRUE]>>}
    [] op = "deconfigure" -> {<<TRUE, Unconfigured>>}
    [] op = "hid" -> {<<ok, control>> : ok \in IF control.configured THEN BOOLEAN ELSE {FALSE}}
    [] op \in {"micOn", "micOff"} /\ control.configured ->
         {<<TRUE, [control EXCEPT !.mic = (op = "micOn")]>>}
    [] op \in {"playOn", "playOff"} /\ control.configured ->
         {<<TRUE, [control EXCEPT !.play = (op = "playOn")]>>}
    [] OTHER -> {<<FALSE, control>>}

\* The endpoint dispatch of complete: every <<success, next control state>>.
Outcomes(request) ==
  LET stall == {<<FALSE, control>>}
      done  == {<<TRUE, control>>}
  IN CASE request.stream = "control" /\ request.packets = 0 -> HandleControl(request.op)
       [] request.stream = "input" /\ request.packets = 0 /\ control.configured -> done
       [] request.stream = "output" /\ request.packets = 0 /\ control.configured -> done \cup stall
       [] request.stream = "play" /\ request.packets > 0 /\ PlaybackActive -> done
       [] request.stream = "mic" /\ request.packets > 0 /\ MicrophoneActive -> done
       [] OTHER -> stall

-----------------------------------------------------------------------------
(* Scheduling.                                                             *)

Delay(request) ==
  IF request.packets # 0 THEN request.packets
  ELSE IF request.stream = "input" THEN InputPoll ELSE 0

SameStream(request) == {i \in Live : slots[i].request.stream = request.stream}

\* A transfer follows the transfers of its stream that are still queued.
Ready(request) == Max({slots[i].ready : i \in SameStream(request)} \cup {now}) + Delay(request)

CapturePackets(t) == IF t.request.stream = "mic" THEN t.request.packets ELSE 0

\* capture_due is Some: a microphone packet of the transfer is to be collected.
Collecting(t) == MicrophoneActive /\ t.captured < CapturePackets(t)

Due(t) == IF Collecting(t) THEN t.ready - (CapturePackets(t) - t.captured - 1) ELSE t.ready

Before(t, u) == Due(t) < Due(u) \/ (Due(t) = Due(u) /\ t.order <= u.order)

\* next_ready picks slot i.
NextReady(i) ==
  /\ i \in Live /\ Due(slots[i]) <= now
  /\ \A j \in Live : Due(slots[j]) <= now => Before(slots[i], slots[j])

-----------------------------------------------------------------------------
(* Leaving the loop: run after run_inner returned.                         *)

\* The microphone packets held by the transfers in slots S.
HeldIn(S) == UNION {{i} \X (1..slots[i].captured) : i \in S}
Held == Cardinality(HeldIn(Live))

\* The socket is shut down, every ticket invalidated, held capture abandoned.
Stop ==
  /\ pc' = "done" /\ after' = "done" /\ completing' = NoCompletion
  /\ abandoned' = abandoned + Held
  /\ pending' = {} /\ slots' = [i \in Slots |-> NoSlot] /\ outgoing' = <<>>
  /\ UNCHANGED <<rounds, timeVars, control, generation, nextOrder, recvVars,
                 collected, finished, streamed, wire, socket, reading, kernelVars>>

-----------------------------------------------------------------------------
(* The completion queue.                                                   *)

QuotaExhausted == Len(outgoing) = SlotCount

Push(kind, urb, ok) ==
  outgoing' = Append(outgoing, [kind |-> kind, urb |-> urb, ok |-> ok,
                                written |-> 0, deadline |-> now + Timeout])

\* flush: one write of n units; the frame leaves the queue when all is written.
FlushWrite(n) ==
  /\ pc = "flush" /\ outgoing # <<>> /\ now < Head(outgoing).deadline
  /\ n <= ReplyUnits - Head(outgoing).written /\ Len(socket) + n <= SocketUnits
  /\ LET head == Head(outgoing)
     IN /\ socket' = socket \o [k \in 1..n |->
               [reply |-> [head EXCEPT !.written = 0], unit |-> head.written + k]]
        /\ outgoing' = IF head.written + n = ReplyUnits THEN Tail(outgoing)
                       ELSE [outgoing EXCEPT ![1].written = @ + n]
  /\ UNCHANGED <<loopVars, timeVars, control, tableVars, recvVars, audioVars, wire, reading, kernelVars>>

\* The queue is empty, or the write would block, was interrupted or used up its tries.
FlushReturn ==
  /\ pc = "flush"
  /\ outgoing # <<>> => now < Head(outgoing).deadline
  /\ pc' = after
  /\ UNCHANGED <<after, rounds, completing, timeVars, control, tableVars, recvVars, outgoing,
                 audioVars, wire, socket, reading, kernelVars>>

\* The reply at the head was not delivered in time, or the socket failed.
FlushFail ==
  /\ pc = "flush" /\ outgoing # <<>>
  /\ Stop

-----------------------------------------------------------------------------
(* receive_one.                                                            *)

Body(frame) ==
  IF frame.kind = "submit" /\ (frame.request.packets # 0 \/ frame.request.stream = "output")
  THEN 1 ELSE 0

\* Worker.expected: the header until it is decoded, then the whole frame.
Expected(frame) == IF received < HeaderUnits THEN HeaderUnits ELSE HeaderUnits + Body(frame)

\* The frame has been read, with the last n units, in full.
FrameRead(frame, n) == received + n = HeaderUnits + Body(frame)

\* The loop makes at most SLOT_COUNT calls, or stops when the socket is empty.
ReceiveStop ==
  /\ pc = "receive"
  /\ pc' = "ready"
  /\ UNCHANGED <<after, rounds, completing, timeVars, control, tableVars, recvVars, outgoing,
                 audioVars, wire, socket, reading, kernelVars>>

\* A deadline of a partial frame runs from its first byte.
Started == IF frameStarted = NoTime THEN now ELSE frameStarted

\* A read that leaves the frame incomplete, or header complete and body to come.
ReceivePart(n) ==
  /\ pc = "receive" /\ rounds < SlotCount /\ wire # <<>>
  /\ n <= Expected(Head(wire)) - received /\ ~ FrameRead(Head(wire), n)
  /\ received' = received + n
  /\ frameStarted' = Started
  /\ rounds' = rounds + 1
  /\ UNCHANGED <<pc, after, completing, timeVars, control, tableVars, outgoing, audioVars,
                 wire, socket, reading, kernelVars>>

\* What every consumed frame leaves behind.
Consumed ==
  /\ wire' = Tail(wire)
  /\ received' = 0 /\ frameStarted' = NoTime
  /\ rounds' = rounds + 1

WholeFrame(n) ==
  /\ pc = "receive" /\ rounds < SlotCount /\ wire # <<>>
  /\ n <= Expected(Head(wire)) - received /\ FrameRead(Head(wire), n)

FaultyUnlinkSlots(seq) == slots

\* Slots whose ticket has the unlinked sequence number give it up.
UnlinkSlots(seq) == [i \in Slots |-> IF i \in Live /\ slots[i].seq = seq THEN NoSlot ELSE slots[i]]

\* Pending::unlink found the request.
Cancelled(seq) == \E e \in pending : e.seq = seq

HeldBy(seq) == Cardinality(HeldIn({i \in Live : slots[i].seq = seq}))

FaultyReceiveUnlink(n) ==
  /\ WholeFrame(n) /\ Head(wire).kind = "unlink"
  /\ LET f == Head(wire)
     IN IF QuotaExhausted THEN Stop
        ELSE /\ IF Cancelled(f.seq) THEN UNCHANGED outgoing ELSE Push("unlink", f.urb, TRUE)
             /\ pending' = {e \in pending : e.seq # f.seq}
             /\ slots' = UnlinkSlots(f.seq)
             /\ abandoned' = abandoned + HeldBy(f.seq)
             /\ Consumed
             /\ pc' = "flush" /\ after' = "receive"
             /\ UNCHANGED <<completing, timeVars, control, generation, nextOrder, collected,
                            finished, streamed, socket, reading, kernelVars>>

\* A complete CMD_UNLINK: cancel the request, abandon its capture, reply.
ReceiveUnlink(n) ==
  /\ WholeFrame(n) /\ Head(wire).kind = "unlink"
  /\ LET f == Head(wire)
     IN IF QuotaExhausted THEN Stop
        ELSE /\ Push("unlink", f.urb, ~ Cancelled(f.seq))
             /\ pending' = {e \in pending : e.seq # f.seq}
             /\ slots' = UnlinkSlots(f.seq)
             /\ abandoned' = abandoned + HeldBy(f.seq)
             /\ Consumed
             /\ pc' = "flush" /\ after' = "receive"
             /\ UNCHANGED <<completing, timeVars, control, generation, nextOrder, collected,
                            finished, streamed, socket, reading, kernelVars>>

FreeSlot == CHOOSE i \in Slots \ Live : \A j \in Slots \ Live : i <= j

Duplicate(seq) == \E e \in pending : e.seq = seq

\* A complete CMD_SUBMIT: reserve a slot and a ticket, or leave the loop.
ReceiveSubmit(n) ==
  /\ WholeFrame(n) /\ Head(wire).kind = "submit"
  /\ LET f == Head(wire)
     IN IF Live = Slots \/ Duplicate(f.seq) THEN Stop
        ELSE /\ pending' = pending \cup {[seq |-> f.seq, generation |-> generation + 1,
                                          deadline |-> now + Timeout]}
             /\ slots' = [slots EXCEPT ![FreeSlot] =
                   [urb |-> f.urb, seq |-> f.seq, generation |-> generation + 1,
                    request |-> f.request, ready |-> Ready(f.request),
                    order |-> nextOrder, captured |-> 0]]
             /\ generation' = generation + 1
             /\ nextOrder' = nextOrder + 1
             /\ Consumed
             /\ UNCHANGED <<pc, after, completing, timeVars, control, outgoing, audioVars,
                            socket, reading, kernelVars>>

\* The peer closed the socket, sent a malformed frame or the read failed.
ReceiveFail ==
  /\ pc = "receive" /\ rounds < SlotCount
  /\ Stop

-----------------------------------------------------------------------------
(* The rest of one iteration of run_inner.                                 *)

\* The iteration samples the clock and serves the personality's own control.
Service ==
  /\ pc = "service"
  /\ pc' = "receive" /\ rounds' = 0 /\ now' = clock
  /\ UNCHANGED <<after, completing, clock, control, tableVars, recvVars, outgoing, audioVars,
                 wire, socket, reading, kernelVars>>

\* The stop flag is set, or hid.service failed.
ServiceStop ==
  /\ pc = "service"
  /\ Stop

\* capture_one: collect one microphone packet that is due.
Capture(i) ==
  /\ pc = "ready" /\ NextReady(i) /\ Collecting(slots[i])
  /\ slots' = [slots EXCEPT ![i].captured = @ + 1]
  /\ collected' = collected + 1
  /\ UNCHANGED <<loopVars, timeVars, control, pending, generation, nextOrder, recvVars, outgoing,
                 abandoned, finished, streamed, wire, socket, reading, kernelVars>>

\* Pending::complete finds the entry of exactly this ticket, in time.
Owns(t) == \E e \in pending : e.seq = t.seq /\ e.generation = t.generation /\ now < e.deadline

SettledTable(t) == {e \in pending : e.seq # t.seq}

\* complete, then push and flush of the reply.
Complete(i) ==
  /\ pc = "ready" /\ NextReady(i) /\ ~ Collecting(slots[i])
  /\ Owns(slots[i]) /\ ~ QuotaExhausted
  /\ \E o \in Outcomes(slots[i].request) :
       /\ control' = o[2]
       /\ Push("submit", slots[i].urb, o[1])
       /\ completing' = [slot |-> i, ok |-> o[1]]
  /\ pending' = SettledTable(slots[i])
  /\ pc' = "flush" /\ after' = "settle"
  /\ UNCHANGED <<rounds, timeVars, slots, generation, nextOrder, recvVars, audioVars, wire, socket,
                 reading, kernelVars>>

\* A stale or expired ticket, a full completion queue, an unavailable required
\* input report or a malformed packet ends the connection.
CompleteFail(i) ==
  /\ pc = "ready" /\ NextReady(i)
  /\ \/ ~ Collecting(slots[i]) /\ (~ Owns(slots[i]) \/ QuotaExhausted)
     \/ slots[i].request.stream \in {"input", "play", "mic"} /\ Outcomes(slots[i].request) = {<<TRUE, control>>}
  /\ Stop

FaultySettle ==
  /\ pc = "settle"
  /\ LET t == slots[completing.slot]
     IN /\ slots' = [slots EXCEPT ![completing.slot] = NoSlot]
        /\ finished' = IF completing.ok THEN finished + t.captured ELSE finished
        /\ streamed' = IF t.request.packets = 0 THEN streamed
                       ELSE [streamed EXCEPT ![t.request.stream] = @ + t.request.packets]
  /\ completing' = NoCompletion
  /\ pc' = "ready"
  /\ UNCHANGED <<after, rounds, timeVars, control, pending, generation, nextOrder, recvVars,
                 outgoing, abandoned, collected, wire, socket, reading, kernelVars>>

\* The slot is released only once its reply is queued; a refused transfer
\* abandons the packets it had collected.
Settle ==
  /\ pc = "settle"
  /\ LET t == slots[completing.slot]
     IN /\ slots' = [slots EXCEPT ![completing.slot] = NoSlot]
        /\ finished' = IF completing.ok THEN finished + t.captured ELSE finished
        /\ abandoned' = IF completing.ok THEN abandoned ELSE abandoned + t.captured
        /\ streamed' = IF t.request.packets = 0 THEN streamed
                       ELSE [streamed EXCEPT ![t.request.stream] = @ + t.request.packets]
  /\ completing' = NoCompletion
  /\ pc' = "ready"
  /\ UNCHANGED <<after, rounds, timeVars, control, pending, generation, nextOrder, recvVars,
                 outgoing, collected, wire, socket, reading, kernelVars>>

ReadyDone ==
  /\ pc = "ready"
  /\ \A i \in Live : Due(slots[i]) > now
  /\ pc' = "expire"
  /\ UNCHANGED <<after, rounds, completing, timeVars, control, tableVars, recvVars, outgoing,
                 audioVars, wire, socket, reading, kernelVars>>

FaultyOverdue == frameStarted # NoTime /\ now - frameStarted >= Timeout

\* A request or a partial frame has passed its deadline.
Overdue ==
  \/ \E e \in pending : now >= e.deadline
  \/ frameStarted # NoTime /\ now - frameStarted >= Timeout

Expire ==
  /\ pc = "expire" /\ Overdue
  /\ Stop

Unexpired ==
  /\ pc = "expire" /\ ~ Overdue
  /\ pc' = "flush" /\ after' = "wait"
  /\ UNCHANGED <<rounds, completing, timeVars, control, tableVars, recvVars, outgoing,
                 audioVars, wire, socket, reading, kernelVars>>

\* wait_ready: the socket is ready, or time passes.
Wait(elapsed) ==
  /\ pc = "wait"
  /\ clock + elapsed <= MaxTime
  /\ clock' = clock + elapsed
  /\ pc' = "service"
  /\ UNCHANGED <<after, rounds, completing, now, control, tableVars, recvVars, outgoing, audioVars,
                 wire, socket, reading, kernelVars>>

-----------------------------------------------------------------------------
(* The kernel (external).                                                  *)

\* A sequence number is used again only when no transfer waits under it and no
\* unlink of it is under way: the kernel counts through 32 bits in between.
KernelSubmit(request, seq) ==
  /\ pc # "done" /\ urbs < MaxUrbs /\ request \in Script[urbs + 1]
  /\ \A o \in outstanding : o.seq # seq
  /\ \A k \in DOMAIN wire : wire[k].seq # seq
  /\ urbs' = urbs + 1
  /\ outstanding' = outstanding \cup {[urb |-> urbs + 1, seq |-> seq]}
  /\ wire' = Append(wire, [kind |-> "submit", urb |-> urbs + 1, seq |-> seq, request |-> request])
  /\ UNCHANGED <<loopVars, timeVars, control, tableVars, recvVars, outgoing, audioVars, socket,
                 reading, unlinked>>

KernelUnlink(o) ==
  /\ pc # "done" /\ o \in outstanding /\ o.urb \notin unlinked /\ Cardinality(unlinked) < MaxUnlinks
  /\ unlinked' = unlinked \cup {o.urb}
  /\ wire' = Append(wire, [kind |-> "unlink", urb |-> o.urb, seq |-> o.seq])
  /\ UNCHANGED <<loopVars, timeVars, control, tableVars, recvVars, outgoing, audioVars, socket,
                 reading, urbs, outstanding>>

\* A transfer is given back by its completion, or by the unlink that cancelled it.
GivesBack(reply) == reply.kind = "submit" \/ ~ reply.ok

\* The kernel reads one unit; the last unit of a reply delivers it.
KernelRead ==
  /\ pc # "done" /\ socket # <<>>
  /\ socket' = Tail(socket)
  /\ reading' = (reading + 1) % ReplyUnits
  /\ outstanding' = IF reading + 1 = ReplyUnits /\ GivesBack(Head(socket).reply)
                    THEN {o \in outstanding : o.urb # Head(socket).reply.urb}
                    ELSE outstanding
  /\ UNCHANGED <<loopVars, timeVars, control, tableVars, recvVars, outgoing, audioVars, wire,
                 urbs, unlinked>>

-----------------------------------------------------------------------------

Init ==
  /\ pc = "service" /\ after = "wait" /\ rounds = 0 /\ completing = NoCompletion
  /\ clock = 0 /\ now = 0
  /\ control = Unconfigured
  /\ slots = [i \in Slots |-> NoSlot] /\ pending = {} /\ generation = 0 /\ nextOrder = 0
  /\ received = 0 /\ frameStarted = NoTime
  /\ outgoing = <<>> /\ abandoned = 0
  /\ wire = <<>> /\ socket = <<>> /\ reading = 0
  /\ urbs = 0 /\ outstanding = {} /\ unlinked = {}
  /\ collected = 0 /\ finished = 0 /\ streamed = [s \in Streams |-> 0]

Receive ==
  \/ ReceiveStop \/ ReceiveFail
  \/ \E n \in 1..(HeaderUnits + 1) : ReceivePart(n) \/ ReceiveUnlink(n) \/ ReceiveSubmit(n)

Flush == FlushReturn \/ FlushFail \/ \E n \in 1..ReplyUnits : FlushWrite(n)

Serve == \E i \in Slots : Capture(i) \/ Complete(i) \/ CompleteFail(i)

Worker ==
  \/ Service \/ ServiceStop \/ Receive \/ Flush \/ Serve \/ Settle \/ ReadyDone
  \/ Expire \/ Unexpired \/ \E elapsed \in 0..Timeout : Wait(elapsed)

Kernel ==
  \/ \E r \in Requests, s \in Seqs : KernelSubmit(r, s)
  \/ \E o \in outstanding : KernelUnlink(o)
  \/ KernelRead

Next == Worker \/ Kernel

Spec == Init /\ [][Next]_vars

\* The loop never stops by itself, the kernel reads what arrives, and time passes:
\* a wait that lasts happens again and again, and so does a receive call that
\* finds what the kernel sent.
LiveSpec ==
  /\ Spec
  /\ WF_vars(Worker) /\ WF_vars(KernelRead)
  /\ SF_vars(\E elapsed \in 1..Timeout : Wait(elapsed))
  /\ SF_vars(\E n \in 1..(HeaderUnits + 1) : ReceivePart(n) \/ ReceiveUnlink(n) \/ ReceiveSubmit(n))
  /\ SF_vars(\E n \in 1..ReplyUnits : FlushWrite(n))

-----------------------------------------------------------------------------
(* Properties.                                                             *)

\* Every variable of the worker keeps its type and its table its capacity.
TypeOK ==
  /\ pc \in {"service", "receive", "ready", "settle", "expire", "flush", "wait", "done"}
  /\ after \in {"receive", "settle", "wait", "done"}
  /\ rounds \in 0..SlotCount
  /\ clock \in 0..MaxTime /\ now \in 0..clock
  /\ control \in [configured: BOOLEAN, mic: BOOLEAN, play: BOOLEAN]
  /\ slots \in [Slots -> Transfer \cup {NoSlot}]
  /\ pending \subseteq [seq: Seqs, generation: Nat, deadline: Nat]
  /\ generation \in Nat /\ nextOrder \in Nat
  /\ received \in 0..HeaderUnits /\ frameStarted \in Nat \cup {NoTime}
  /\ outgoing \in Seq(Reply) /\ Len(outgoing) <= SlotCount
  /\ completing \in [slot: Slots \cup {0}, ok: BOOLEAN]
  /\ abandoned \in Nat

\* The transfer whose reply is being flushed no longer has a pending entry.
Unsettled == Live \ {completing.slot}

\* Slots and pending entries correspond one to one: each slot's ticket is the
\* ticket of an entry, so complete never meets a stale ticket, and each entry
\* has a slot that will complete it (Pending::insert, complete, unlink against
\* Worker.slots).
SlotsMatchPending ==
  /\ \A i \in Unsettled : \E e \in pending :
       e.seq = slots[i].seq /\ e.generation = slots[i].generation
  /\ \A e \in pending : \E i \in Unsettled :
       e.seq = slots[i].seq /\ e.generation = slots[i].generation
  /\ \A i, j \in Unsettled : slots[i].seq = slots[j].seq => i = j

\* The replies on their way to the kernel, in order: a reply is in the socket
\* once its last unit is.
InFlight ==
  LET last == {k \in DOMAIN socket : socket[k].unit = ReplyUnits}
  IN [socket |-> last, queue |-> DOMAIN outgoing]

Answers(u) ==
  Cardinality({k \in InFlight.socket : socket[k].reply.urb = u /\ GivesBack(socket[k].reply)})
  + Cardinality({k \in InFlight.queue : outgoing[k].urb = u /\ GivesBack(outgoing[k])})

\* A transfer the kernel waits for is in exactly one place: on the wire, in a
\* slot, or answered by exactly one reply on its way; a transfer given back is
\* nowhere.  So every submit is answered once, by its completion or by the
\* unlink that cancelled it, also when sequence numbers are used again.
AnsweredOnce ==
  pc # "done" => \A u \in 1..urbs :
    Cardinality({k \in DOMAIN wire : wire[k].kind = "submit" /\ wire[k].urb = u})
    + Cardinality({i \in Unsettled : slots[i].urb = u})
    + Answers(u)
    = IF \E o \in outstanding : o.urb = u THEN 1 ELSE 0

\* unlink_reply status 0 tells the kernel that the transfer is complete: its
\* completion is ahead of that reply, so no unlinked transfer is forgotten.
UnlinkTruthful ==
  pc # "done" =>
    /\ \A k \in DOMAIN socket :
         socket[k].reply.kind = "unlink" /\ socket[k].reply.ok =>
           \A o \in outstanding : o.urb = socket[k].reply.urb =>
             \E j \in 1..(k - 1) : socket[j].reply.urb = o.urb /\ socket[j].reply.kind = "submit"
    /\ \A k \in DOMAIN outgoing :
         outgoing[k].kind = "unlink" /\ outgoing[k].ok =>
           \A o \in outstanding : o.urb = outgoing[k].urb =>
             \/ \E j \in 1..(k - 1) : outgoing[j].urb = o.urb /\ outgoing[j].kind = "submit"
             \/ \E j \in DOMAIN socket : socket[j].reply.urb = o.urb /\ socket[j].reply.kind = "submit"

\* Streams keep the pace of the clock: no stream completes more packets than
\* milliseconds have passed, and a microphone packet is collected only when its
\* own millisecond has passed (next_ready, capture_due).
StreamPaced ==
  /\ \A s \in {"play", "mic"} : streamed[s] <= now
  /\ \A i \in Live : slots[i].captured > 0 =>
       slots[i].captured <= now - (slots[i].ready - CapturePackets(slots[i]))

\* Every collected packet is held by a queued transfer, belongs to a finished
\* one, or is counted once as abandoned (abandoned_capture_frames): by an
\* unlink, a refused transfer or the end of the connection.  A transfer that
\* completes has collected all its packets.
CaptureAccounted ==
  /\ collected = Held + finished + abandoned
  /\ \A i \in Live : completing = [slot |-> i, ok |-> TRUE] =>
       slots[i].captured = CapturePackets(slots[i])

\* The worker never waits with a request, a reply or a partial frame past its
\* deadline: each is answered, delivered or completed in time, or the
\* connection ends.
DeadlinesEnforced ==
  pc = "wait" =>
    /\ \A e \in pending : now < e.deadline
    /\ \A k \in DOMAIN outgoing : now < outgoing[k].deadline
    /\ received > 0 => frameStarted # NoTime /\ now < frameStarted + Timeout

\* The run ends with a transfer whose time has not come.
CutOff(u) == clock = MaxTime /\ \E i \in Unsettled : slots[i].urb = u /\ slots[i].ready > now

\* Every transfer is given back to the kernel, by its completion or by its
\* cancellation, or the connection ends.
Served ==
  \A u \in 1..MaxUrbs :
    (\E o \in outstanding : o.urb = u)
      ~> (pc = "done" \/ CutOff(u) \/ \A o \in outstanding : o.urb # u)

\* What the comment on Pending::complete says of an expired request: the worker
\* emits its required timeout completion.
TimeoutCompleted ==
  [][\A i \in Unsettled : \A e \in pending :
       (pc = "expire" /\ e.seq = slots[i].seq /\ now >= e.deadline)
         => \E k \in DOMAIN outgoing' : outgoing'[k].urb = slots[i].urb]_vars

\* Each transfer is held once, under its ticket, answered once, and never reported as
\* complete to an unlink before its completion is on its way: see the three parts.
RequestsAnswered == SlotsMatchPending /\ AnsweredOnce /\ UnlinkTruthful

\* Streams keep the pace of the clock, and no collected microphone packet is forgotten,
\* through unlinks, refused transfers and the end of the connection: see the two parts.
StreamSound == StreamPaced /\ CaptureAccounted
=============================================================================
