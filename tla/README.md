# A verification project for virtualgamepad

virtualgamepad creates virtual game controllers on Linux: an application edits the state of a
controller, and host programs see a HID device, evdev nodes or a USB device, with its audio.
This directory models the parts of it that carry state across calls, threads, processes and
crashes, checks them with TLC on small instances, and proves properties of eight of them with
TLAPS for every value of their constants. Every definition is translated from the code;
`PROJECT.json` gives the source lines of the definitions ("map"; a helper of a few lines inside
a listed definition's lines is not listed apart), the runs, the hazards they aim at, and
the defects ("mutants") each property is shown to detect. Definitions named `Faulty...` are
those defects; no specification uses them.

## The system

| Component | State it keeps | Operations | Interacts with | What is hard |
| --- | --- | --- | --- | --- |
| HID session runtime, `gr-hid` | state, protocol, dirty flag, bounded input queue, one reply slot, bounded observations, closed | update, update_protocol, service(now), take_observations, close, Drop | a personality (encodes reports, answers requests) and a transport (submits, receives) | a service call is a sequence of fallible steps; every early return must leave the rest consistent; unknown delivery; reply deadline |
| UHID provider, transport, required groups | kernel descriptor, request slot, start/open state, pending events; the members of a group | send, drain, submit, event, open, service, close | the kernel's uhid queue, several runtimes | three slots for one request; one member's end is everyone's |
| Native session: `ControllerRuntime`, `CompoundSession`, `Feedback`, uinput provider | edited state, dirty, components, effect table, one reply under way, retry budget | open, update, commit, drain, close | kernel input devices, host processes with force feedback | commits that stop between components, group failure, a host waiting in an ioctl |
| Controller session, live topology (curated `common/session.rs`) | backend, state, shape, observations | update, configure, service, commit, close | HID runtime, audio worker, native session | a change of shape that the backend refuses |
| Reverse subscription | bounded channel, closed flag, join handle, counters | publish, close, callback | any thread, and the callback itself | two locks, self-close, panic, concurrent closers |
| Personalities: DualSense, DualShock 4, Switch Pro, Xbox 360, Steam 2026, Wii | controller state, protocol state, retained outputs, memories, streams | edits, input, output, request, lifecycle, encode, decode | HID runtime, provider, USB worker | handshakes, bounded replies, chunked reads, settings transactions, attachments, ends of ranges |
| PCM queue, `gr-audio-contract` | ring, two cursors, flush mark, closed | push, discard, flush (both sides), read, close | an audio callback and a pump | lock-free, one step per atomic access |
| PCM channel, `gr-usbip/pcm_ipc.rs` | block being written or read, positions, deadlines | pump on both ends, close | two PCM queues and a stream socket | partial reads and writes, losses announced by gaps |
| USB/IP worker, `gr-usbip` | 32 transfer slots, ticket table, completion queue, control state | one loop: receive, capture, complete, expire, wait | the kernel's vhci driver | unlink against completion, reused sequence numbers, isochronous pacing, deadlines |
| Audio worker, `gr-audio-worker` | control session, two threads, three channels | update, output, close; the control loop | the application, UsbipWorker, PcmIpc | a thread failing while another waits, certified close |
| PipeWire backend, `gr-audio-linux` | session, worker loop, streams, loss ledger, timing | open, process, read, write, close | the PipeWire library, PCM queues, facade | callbacks on a foreign loop, failure against close |
| Root audio, `gr-root-audio` | helper thread, control lock, poller, bridge and pump threads, microphone credit | open, attach, read, write, close | broker, worker, PipeWire | close order of five threads, credit from a polled clock |
| Audio broker, `gr-privileged-broker` | quotas, port pool, journal on disk, sessions | accept, open, serve, close, restart | clients, worker processes, vhci ports, the administrator | daemon killed between any two steps, partial setup, failing cleanup |
| Gadget broker (protocol 1, `dummy_hcd.rs`) | registry, UDC reservations, ownership records, configfs tree | open, send, poll, close, recover | clients, kernel gadgets, the administrator | the same, and late answers |
| Application facade (`src/controllers.rs`, `application.rs`) | controller, its audio, identity | create, service, commit, close, status | sessions and audio | both halves live and die together |
| Demo: workers, discovery, host audio, control panel | controllers, batches, snapshots; device searches; host ports; latches, holds and contacts | frames, edits, cycles, searches, Drop | the facade, child processes, egui | snapshots older than edits, late answers, releases that must not be lost |
| Registry, contracts, wire, profiles, importers, tools | little or none | | | |

Calls run downwards (facade → session → runtime → provider); reverse events run upwards by
`service`/`drain` and, for callbacks, through ReverseSubscription. Between processes there are
three connections: application ↔ broker (requests and descriptors), application ↔ worker
(control messages and two PCM channels) and kernel ↔ worker (USB/IP). What makes each part
correct is stated as its properties below; the hazards behind them, each at its line, are in
`PROJECT.json`.

## Modules

Each component has a module of its own with its variables, `Init`, one action per operation or
step, `Next` and its properties. Report contents, names and wording are abstracted to what the
properties tell apart; fallible calls answer nondeterministically.

Sessions:

- **HidRuntime** (`gr-hid/src/lib.rs`). A service call is a sequence of steps ordered by `phase`
  (flush the old reply, one host event, flush the new reply, drain, generate, drain), each with
  the early returns of `service_inner`; `budget` is the call's remaining submissions. The owner's
  operations happen between calls. Transport and personality answer anything: submitted,
  definitely unsent or uncertain; every error class. Reports are sequence numbers. The clock
  saturates at `MaxTime`, as the code's does at `u64::MAX`.
- **UhidGroup** (`gr-provider-linux-uhid`, `gr-hid/src/group.rs`). Members with a kernel queue, the
  provider's session, the transport's request slot and a runtime as far as requests go, and
  `RequiredGroup` over them.
- **NativeSession** (`gr-controller-runtime`, `common/feedback.rs`, `common/session.rs`, the uinput
  provider). The layers of a native controller from the edited state to the kernel devices. A
  drain is a sequence of steps; host processes act at any moment, and the kernel may give up on
  a request.
- **ControllerSession** (`common/session.rs`, `common/live_topology.rs`). The HID, worker and
  native backends: updates, refusals, topology replacement, buffered observations.
- **ReverseSubscription** (`reverse_delivery.rs`). Every flag access, lock, send and join is a
  step; the callback is one of the callers.

Personalities: **PadCommon** (shared codecs and the snapshot protocol), **DualSense**, **DualShock4**,
**SwitchPro** and **Xbox360** are operators: state, edits, reports, evdev frames, outputs,
requests. **GamepadSession** runs one of them on one of its targets: the session loop, a host
that sends reports, and a reader of the device; `asked`, `owed` and `latest` keep what the host
last asked, the replies it is owed and the input of the last report, apart from the protocol's own
state. **WiiRemote** models the codec, memories,
attachments and companion nodes; **SteamController** settings, haptic streams and evdev.

Audio:

- **PcmQueue** (`gr-audio-contract/src/queue.rs`). One step per atomic load or store of a cursor,
  the flush mark, a position or one channel's sample. Sequential consistency is assumed: each
  cursor has one writer, which releases it, and one reader, which acquires it, and slots are
  handed over by the cursors. **FrameQueue** is the abstract queue with one step per call that
  it implements: pushes, losses, flushes and reads of contiguous frames, with gaps reported.
- **PcmIpc** (`gr-usbip/src/pcm_ipc.rs`). Both pumps with their resume offsets and deadlines. A frame
  is its position, so a lost, repeated or displaced frame is visible. The queues at both ends
  take one step per call, which FrameQueue justifies.
- **UsbipWorker** (`gr-usbip` worker, pending, completion queue, control). The loop of `run_inner`
  with the instant it read at its start; slots and tickets as in the code; frames and replies
  split wherever the socket likes. The kernel (external) submits what `Script` allows, unlinks,
  reads and reuses sequence numbers. `urb` identifies a transfer for the properties only.
- **AudioWorker** (`gr-audio-worker` client and session, `usb_personality/state.rs`). One exchange at
  a time; the control loop, the USB thread and the PCM thread as separate processes; a failing
  thread shuts the read half of the socket to wake the control loop.
- **PipeWireAudio** (open, worker loop, failure, close, and the facade above it, whose decisions
  are operators of **ControllerFacade**), **PipeWireStream** (callbacks of one stream, preroll,
  loss ledger, timing read beside them), **UsbAudio** (creation, threads and close order of the
  USB sound card), **UsbBridge** (its two directions of samples, microphone credit, silence ledger).

Privileged:

- **AudioBroker**. One thread per connection, with a label for each place where another actor or a
  crash can intervene. Unwinding is explicit: `closes` holds the close calls still to come, from
  the explicit rollback and from the Drop of each layer. The daemon's death clears its memory and
  leaves the journal, the hub and dying workers. Kernel hub, processes, clients and administrator
  are external.
- **GadgetBroker**. Client, connection, registry, gadget and journal, with the contract gate open or
  closed. The shipped gate (`require_dummy_hcd_contract`) refuses always; the code behind it is
  modelled all the same. Two history variables say what outlives a connection and why: `kept`, the UDC
  of a gadget whose release failed, and `blame`, the removal, record or crash that left a gadget.

Demo: **DemoWorker** (controllers, service workers, batches, snapshots), **DemoDiscovery** (device
searches and their processes), **DemoAudio** (host audio routes and ports),
**DemoInput** and **DemoEditor** (the control panel: what every pointer, key and focus change does to
latches, holds, contacts and batches). egui's responses are external inputs.

### How runs combine components

Components that do not interact are checked side by side in one run. An `MC` module EXTENDS one
of them, INSTANCEs the others, and has a variable `part`, fixed by the initial state, that says
which of them runs; the variables of the others stay as they are. `XAlone == part = "x" /\ UNCHANGED
<<part, the others>>` makes an action of X one of the whole, and `AllNext` is the disjunction. Each behaviour
is a behaviour of one component, so nothing is added or lost, and one state space serves
several components. The bounds of the instances are in the MC module, those of the extended
component in the cfg. Fairness of several components is merged: `WF(A \/ B)` with A and B of
different parts is `WF(A)` where the first runs and `WF(B)` where the second does, because part
is constant. Waits are stated as `[]<>` of their end: it is not enough that the first one ends.

## Runs

| Run | Module, cfg | Properties | Distinct states |
| --- | --- | --- | --- |
| hid_delivery | MCHidRuntime, HidDelivery.cfg | TypeOK, InputDelivery, RequestOwnership, ClosedOnce, ObservationAccounting, SubmittedInOrder | 2.8 M |
| usbip_answer | MCUsbipWorker, UsbipAnswer.cfg | RequestsAnswered, Served | 196 k |
| usbip_audio | MCUsbipWorker, UsbipAudio.cfg | DeadlinesEnforced, StreamSound | 2.2 M |
| audio | MCAudio, Audio.cfg | SlotOwnership, ImplementsQueue, StreamAccounted, AudioOwned, BridgeAccounted, WorkerAgreed, RouterSound, StreamsKept | 4.0 M |
| sessions | MCSessions, Sessions.cfg | SessionTruthful, ControllerSound, UhidSound, DrainedOnClose, DemoOwned, NothingStuck, SelectionKept | 962 k |
| broker | MCBroker, Broker.cfg | LeasesKept, AttachmentsSafe, QuotaExact, GadgetsOwned, ForeignKept | 2.7 M |
| controllers | MCControllers, Controllers.cfg | PadsShowState, PadsServeHost, WiiShowsState, WiiServesHost, SteamTruthful | 1.0 M |
| live_sessions | MCLiveSessions, LiveSessions.cfg | NoLostEdit, EditReaches, WaitsEnd | 192 k |
| live_audio | MCLiveAudio, LiveAudio.cfg | FramesKept, CallsReturn | 299 k |
| usbip_timeout | MCUsbipWorker, UsbipTimeout.cfg | TimeoutCompleted: violated, see Findings | |
| pipewire_failure | MCAudio, PipeWireFailure.cfg | AudioFailureRetained: violated, see Findings | |
| demo_lost | MCSessions, DemoLost.cfg | NothingStuck: violated with a slow worker, see Findings | |

What they show, by component (a union property names the definitions it is made of):

- *HID.* Whatever transport and host do, queued reports leave in order, once, without a gap,
  unless STOP or close takes them (InputDelivery, SubmittedInOrder); a consumed request keeps the
  reply slot until it is answered (RequestOwnership) and is answered or ends the session
  (WaitsEnd); edits survive refused batches and STOP (NoLostEdit) and reach the host in the end
  (EditReaches); observations are counted exactly; the transport is closed once. UhidSound: provider, transport and runtime agree
  on the one open request, and a group lives and dies as one.
- *Native and controller session.* A committed state is shown by all components; components live and
  die together; effect tables agree with the kernel (SessionTruthful); a waiting host is answered
  or loses its device (WaitsEnd). State, shape and installed protocol agree after refused changes
  (ControllerSound).
- *Subscription.* A returned close means drained, for every closer (DrainedOnClose); no close waits
  for ever (CallsReturn).
- *Personalities.* A settled controller shows the application's state in every report format, on
  every evdev node, through the tables each advertises, after one edit and after another on top of it;
  one value does not arrive as it was set, the least one of a motion component that is sent negated
  (see Observations). Over UHID the retained outputs and the replies of the Switch are what the host asked, in
  order and once, and a stream it asked for goes on; over dummy_hcd the Switch answers a batch in order as
  far as the provider takes it. Settings, memory and feedback are told as they happened: the Steam
  Controller's host knows the water level and every overrun, without a repetition.
- *PCM queue.* No frame is torn and no slot is written while it is read (SlotOwnership); the ring
  implements FrameQueue (ImplementsQueue): frames come once and in order, every loss is one
  reported gap, and nothing from before a finished flush follows it.
- *PCM channel.* Frames keep their positions and are conserved through splits, gaps and full queues.
- *USB/IP.* Slots and tickets agree although sequence numbers are reused; each transfer is answered
  once, by completion or by the unlink; a status 0 for an unlink is only sent behind the
  completion; the worker never waits past a deadline; streams keep the clock's pace and no
  captured packet is lost uncounted.
- *Audio worker.* Client and worker agree on the applied state between exchanges; a successful close
  means that both threads ended well; a failure reaches the client as a reason.
- *PipeWire and USB audio.* Losses are explained frame by frame, readers see whole records, no failure is
  recorded that did not happen, threads and endpoints end with their owner, every call returns;
  the microphone credit never overflows the worker.
- *Brokers.* What the kernel drives is covered by a journal record at every instant, so a restart
  never serves beside an unrecorded attachment; ports are leased to one session; quotas are exact
  on every path; an acknowledged close means released; departed clients and dead workers end
  sessions. The gadget broker touches only gadgets it recorded, and a connection that ends
  gives back gadget, record and UDC wherever it failed, unless the release itself fails: then all
  that is left stays reserved and recorded for recovery (GadgetsOwned).
- *Demo.* No snapshot undoes what was entered, nothing stays down that the user let go, selection
  follows its controller, audio ports play, hand on or count what they took (the exception, a broken
  pipe, shows an error; see Observations), search results belong to the latest request, unchanged host streams run on.

### Bounds

Each bound is a constant, named in its module and given in the cfg or the MC module. They are
chosen so that the case a property is about happens, and the mutants confirm it: every property is
violated under the bounds of its run once the code it watches is broken.

- HidDelivery: a queue of 2, 3 submissions per call, 3 reports and 3 observations, so that queue and
  observation buffer overflow, and 2 requests, so that one waits behind the other. One state and
  one configuration, since these properties do not look at them; LiveSessions has two of each and
  an inconsistent pair.
- Audio: the PCM queue has 2 frames of 2 channels in 3 slots and a clock of 4 frames, so cursors wrap,
  the ring fills and the clock ends; PipeWire and USB audio have up to two failures; the bridge has a credit of 3
  for blocks of 2; the audio worker an event queue of 1 and 3 events; the demo's ports hold two blocks of three,
  and the child of one port may exit.
- UsbipAnswer: 3 transfers over 2 sequence numbers and 2 slots, one unlink, replies that fill the
  socket. UsbipAudio: a script that configures the device, enables a stream, queues a transfer and
  then uses any endpoint or switches the stream off; 4 ms cover two captures of 2 packets, and
  playback of 1 behind 2. The two timeouts of one second become 2 and 3 ms, still longer than a transfer.
- Sessions: 2 components, 2 requests and 2 playbacks, one retry; 3 outside threads and the callback with a channel of 2;
  two UHID members; two demo controllers; each family's panel is drawn with the
  controls whose gestures interact. `Prompt` says that the demo's worker answers a batch before the next frame.
- Controllers: for sticks, triggers, touch contacts, battery and motion the ends of the range, and
  of words and motion a value between. A gamepad gets two edits, an edit and an event, or three events of its host (an edit costs 3 of
  6, an event 2), so a release follows a press; a counter of 2 stands for one of 255, and 2 replies may be pending.
- The Steam Controller's haptic FIFO holds 3 bytes with the watermarks at 1 and 2; of the packets,
  which start, stop and fill a channel with 1 or 2 bytes, five may come in two ticks: enough to overflow,
  to run dry and fill again, and to restart a running stream.
- LiveAudio: the PCM channel sends blocks of 2 frames with a 2-unit header over a socket
  of 3 units, so no block fits.
- Broker: 2 connections and 1 port, one crash, cleanup failing on one connection, and a quota with
  room for both; a quota that refuses the second session is in live_audio, and QuotaExact is
  proved for all limits.

Symmetry is used only in runs without liveness: sequence numbers in UsbipAudio, connections in
Broker. Deadlock is not checked where a model may rightly stop: sessions end for good, and clocks
and scripts are bounded.

### Fairness

- HidRuntime: the owner keeps calling service and a begun call ends (the crate's documentation
  requires it of the owner). That a reply ends needs no more: its deadline, not the transport, ends
  the wait. EditReaches is stated under `PeerFairness` as well: the host accepts input again and
  again, and not every service call is ended by an output that the personality refuses. The last
  is necessary: a refused output returns from `service_inner` before any input is drained or
  generated, so a host that sends nothing else starves input.
- NativeSession: the owner keeps draining, as `wants_write` and `next_service_in` tell it to.
- SteamController: the application keeps calling service and commit, and the host takes a report that is offered often enough.
- ReverseSubscription: threads run, mutexes are granted (strong fairness of each caller), the callback returns or panics.
- UsbipWorker: the loop runs, the kernel reads, the socket moves bytes again and again.
- PcmIpc: both pumps run, and the socket accepts some unit infinitely often.
- AudioWorker, PipeWireAudio, PipeWireStream, UsbAudio: every thread takes the steps it can; failures are never
  assumed to happen, and only a timeout that bounds a wait in the code ends it. UsbAudio's close waits
  for a lock the poller releases between rounds (strong fairness).
- AudioBroker: each connection's thread runs (its waits have deadlines in the code), and the kernel
  delivers a pending kill.
- Demo: the interface draws frames, workers and discovery threads run.

### Findings

- usbip_timeout: the comment on `Pending::complete` (pending.rs:97) says that an expired entry stays
  pending "so the worker can emit its required timeout completion". The worker does not: `run_inner`
  ends the connection with an error as soon as an entry has expired, and no completion for it is
  queued. The kernel learns of it by the end of the connection, and Served holds.
- pipewire_failure: the PipeWire worker tests `stop` before `failed`. When the facade, answering a
  failed graph, closes the session first, the worker returns Ok and the failure that
  `controllers/tests.rs` and `docs/APPLICATION_API.md` say is retained is lost.
- demo_lost: while a batch is out the panel draws its cards but does not take their edits; when the
  worker has applied the batch the view is replaced, and a release made meanwhile is gone. Press a
  d-pad button, release it in the next frame while the batch is out: the button stays down.

## Proofs

Each proof module has the same shape: one lemma per group of conjuncts of the inductive invariant
says that a step keeps the group, with one case per action of Next; what helpers do is stated once,
in lemmas of its own; the invariants a run checks follow. The assumptions are those the component names.

### HidRuntimeProofs

For all queue lengths, budgets, timeouts, sets of states and configurations, from
`LimitsAssumption` (the checks of `Runtime::new`), `ProtocolAssumption` (the neutral state is valid)
and `BoundAssumption` (the bounds are naturals):

- `TypeCorrect`: `Spec => []TypeOK`. TypeOK alone is not inductive: that the budget stays a
  natural number needs `BudgetInv`, which says that a flush is entered only with submissions left
  (one for the old reply, two for the new one).
- `InputDelivered`: `Spec => []InputDelivery`, with `QueueInv`, which adds that a closed session is
  between service calls and its queue is empty.
- `InputInOrder`: `Spec => SubmittedInOrder`, an action property, from QueueInv.
- `RequestOwned`: `Spec => []RequestOwnership`, with QueueInv.
- `ObservationsAccounted`: `Spec => []ObservationAccounting`, inductive with TypeOK.
- `TransportClosedOnce`: `Spec => []ClosedOnce`, with `CloseInv`.
- `EditsAreKept`: `Spec => []NoLostEdit`. Only update and configure change what NoLostEdit
  compares, so that a step either keeps those variables (`EditStays`) or is one of the two.

### PcmQueueProofs

For all capacities, channel counts, clocks and batches, from `QueueAssumption` (the checks of
`pcm_queue`). Slots are compared by their distance from a cursor in the direction of writing, so that
only the first lemmas look at the modulus. `IInv` has nine groups: the threads' places, the
numbers, the contents, the order of the cursors around the ring, what the producer has written,
and what the running read has marked, skipped, taken and will return. TLC checked it (capacity 2,
2 channels, 4 frames, batches of 2) before it was proved.

- `TypeCorrect`, and `SlotsOwned`: `Spec => []SlotOwnership`, producer and consumer never touch the same slot.
- `Refinement`: `Spec => ImplementsQueue`. The lock-free ring implements `FrameQueue`, a queue of numbered
  frames in which a push, a read and a flush are one step. The mapping takes for the queue the
  positions from tail to head and, while a read runs, for its result the one before it. A
  push maps to the store of the head, a read to the store of the tail; frames a flush discards are
  dropped at that store too. One lemma per abstract action (`AbstractPush`, `AbstractReturn`,
  ...) says when a step of the ring is that action, `PublishPushes`, `ReadReturns` and `FlushDrops` that the stores
  meet the condition, `InBetween` that every other step is a stutter, and `OneStep` puts them together.

### AudioBrokerProofs

For all connections, ports, users, quotas and crashes, from `BrokerAssumption`. `IInv` adds to the
types: a running daemon is the only place of live threads (`Down`); a thread in a close has that
close at the head of those it still makes (`Closes`); who holds a port (`Leases`); the order of record,
attachment, shutdown and removal (`Attachments`); how the acknowledgement of a close came about
(`Acknowledged`); and what the counters count (`Quota`). Lemmas named `...Moves` say what a step
can do to one variable, so that the groups are not proved action by action again.

- `TypeCorrect`, which needs QuotaExact: a counter stays a natural number only because each permit is released once.
- `LeasesAreKept`: `Spec => []LeasesKept`, the pool holds exactly the ports of
  the sessions that exist, none twice, and an acknowledged close means that port, permit, record,
  socket and worker are given back.
- `AttachmentsAreSafe`: `Spec => []AttachmentsSafe`, at every moment of an open, a close and a crash.
- `QuotasAreExact`: `Spec => []QuotaExact`, both quotas count exactly the permits held.

### UsbipWorkerProofs

For all slot counts, timeouts, socket capacities and scripts of the kernel, from `WorkerAssumption`. The lemma
`StepEffects` reduces the actions of Next to six effects on slots, replies and socket: nothing (`Still`), units
written (`Writes`), one submission (`Submitted`), one completion queued (`Completed`), one unlink
answered (`Unlinked`), or a step of the kernel alone (`KernelSteps`). Each group of RequestsAnswered is kept by each.

- `TypeCorrect`: `Spec => []TypeOK`, a matter of bounding ticks, sequence numbers and the packets due.
- `RequestsInTime`: `Spec => []DeadlinesEnforced`, with `Deadlines`: the deadlines in the completion
  queue are ordered (`Queued`), a partial frame is timed (`Begun`), and the flush before a wait
  runs only with nothing overdue (`Checked`). Without the order the head's deadline says nothing of the rest.
- `StreamsKeepPace`: `Spec => []StreamSound`, with `Streaming`: slots of one endpoint are scheduled in
  submission order a packet time apart (`Ordered`, `Spaced`, `Captured`), none is completed before
  its time (`Earliest`, `Ahead`), and frames counted are packets completed (`Accounted`). Packets in
  flight are the cardinality of a set of pairs, so that adding or completing a slot adds or removes one set.
- `RequestsAreAnswered`: `Spec => []RequestsAnswered`, with `Answering`: the pending map and the slots
  agree (`SlotsMatchPending`); the socket holds whole replies in order (`UnitsInOrder`); what is on the wire or
  in a slot is waited for, under one number each (`Numbered`, `Waiting`); an unlink on the wire names its
  transfer and is asked for once (`Unlinks`); a transfer is in exactly as many places (wire,
  slot, queue, socket) as answers are owed for it (`Once`); and the completion of an unlinked transfer
  is ahead of the reply that reports it (`AheadInSocket`, `AheadInQueue`).

### NativeSessionProofs

For every pool of effects, number of slots and requests, device class and script of the kernel, from
`NativeAssumption`. The lemma `StepCases` reduces each action of Next to what it does to the layers
(devices, shown state, closed flags) and to the feedback (inbox, batch, table, replies), so that the two
halves are proved apart.

- `TypeCorrect`: `Spec => []TypeOK`. No call takes more events than EventLimit, and retries never exceed Retries.
- `SessionIsTruthful`: `Spec => []SessionTruthful`. The device shows what was committed last
  (`CommittedShown`); components open in order and are then open or closed as one (`Grouped`), each destroyed
  once, and none after a refused opening; while the device lives, kernel and session hold the same effects
  (`Agreed`), which includes that a completion is applied before the next event. Requests are answered
  in the order the device yielded them because four places are ordered among each other (`InTurn`: answered, reply
  under way, drained batch, inbox) and requests are numbered (`Numbered`).

### ReverseSubscriptionProofs

For every set of callers, capacity and number of events, assuming that no caller has the name that
stands for a free lock (`Nobody`).

- `EventsAreDrained`: `Spec => []DrainedOnClose`. Until the callback panics, accepted events are those handled, the one in the
  callback's hand and those in the channel (`Conserved`); also after a panic the handled ones are the first accepted
  (`InOrder`); a worker that ends without a panic has seen the channel empty and its sender gone, for
  good (`Exhausted`); and whoever returns from close either joined the worker or found that another
  had, under the handle's lock (`Joined`).

### PcmIpcProofs

For every capacity of queues and socket, length of block and header, clock and number of frames, from
`ChannelAssumption`. The stream is what the receiver holds followed by what the socket holds: a sequence
of units, each the k-th of its block. `Carried` relates that stream, the sender, the frame the sender expects
next and the one the receiver expects next, and nothing else, so that it is proved of sequences before any action
is looked at:

- the units of a block stand together in order (`Whole`), the next block continues the one before or announces its gap
  (`Linked`), blocks ascend (`Ascending`); a block that lacks units is the one under way, and what was written of it
  is at the end (`Unfinished`, `Sent`); after a whole last block comes the next (`Finished`); all of it lies between
  the two expected frames (`Between`) and begins with what the receiver accepts (`Awaited`).
- `Writes` (units of the block under way enter), `Loads` (the source yields a block) and `Delivers` (a whole block leaves)
  keep Carried. A pump is a composition of the first two: `FirstWrite`, `PumpAlone`, `PumpReads`.
- `ReadFacts` gives the block the sender reads as the longest run of consecutive frames, which exists because a set
  of naturals has a least element.
- `TypeCorrect`: `Spec => []TypeOK`. `FramesAreKept`: `Spec => []FramesKept`, with `Places` (frames known are those of
  the five places; the two ends are apart because they lie on the two sides of the receiver's frame) and
  `SourceInOrder`. FramesKept alone is not inductive: it does not say that the rest of a split block follows.

### AudioWorkerProofs

For every set of states, capacity of the event channel and number of exchanges, from `Parameters` (the
neutral state is one of the states, the bounds are naturals).

- The invariant follows the exchange that may be under way through its stages: the request in the socket (`Asked`), the update
  with the USB thread (`Serving`), its acknowledgement (`Served`), the answer in the socket, perhaps with the
  failure that followed it (`Answered`), or nothing (`Silent`). A stage gives the contents of
  every channel, what the worker plays and where the control loop is, also after the client gave up; that only
  Silent is left to an idle client is `SilentStage`.
- `Threads`: a thread ends unasked only by waking the control loop. `Blamed` and `Ended`: a failure, the woken
  reader and the end of a session that had no good close all have a fault behind them. In particular the loss
  of the PCM channels after a good close finds the PCM thread stopped already.
- `TypeCorrect`, `StateIsAgreed`, `CloseIsCertified`, `EventsAreAccounted` and `FailuresSurface` are
  `Spec => []` of TypeOK, StateAgreed, CloseCertified, EventsAccounted and FailureSurfaces; the run audio checks
  the last four as WorkerAgreed. StateAgreed alone is not inductive: it says nothing of an update under way.

### Only model-checked

- Every liveness property: the prover reasons neither about ENABLED nor about fairness.
- The properties of the composing modules (MCAudio, MCSessions, MCControllers, MCLiveSessions,
  MCLiveAudio) that are conjunctions over components: most of these have no proof.
- What a fold computes over a sequence of data (retained outputs, encoded reports): this
  needs induction over data, for which the provers here have no rule.

## Observations

Behaviours met while modelling that the models keep and that no run states as a violation,
because nothing in the repository promises otherwise or the case cannot arise as shipped.

Controllers:

- The Switch's `service` on dummy_hcd and uinput runs the callbacks before it sends the replies, against
  the comment near switch_pro.rs:994. When a later reply fails, the call returns
  before `stream_enabled` is set although the acknowledgement of 0x03 went out.
- The DualSense's uinput topology advertises "microphone-mute", which its evdev device lacks. The DualShock 4 may
  report a tracking id above 127 on evdev, where HID masks it; its decoder
  reports motors that the retained state gates. A motion component that
  is sent negated (the gyro's Y; of the Switch, one of each sensor) is negated with wrapping, so the least
  value, which the axis declares, arrives with the wrong sign; HostReadsState says so.
- The Steam topology declares the whole raw range for trigger axes of which `validate_trigger_values` accepts
  the upper half: a negative slider value closes the controller. Its `service` closes on a
  retryable Busy or QueueFull while `commit` stays open.
- The Wii's commit does not close when a companion node's write is fatal; its HID `update_state`
  maps every refusal to Closed; its acknowledgement is validated against the last encoded state.

Broker and audio:

- `Bridge::start` can wait for ever when it starts late and its channel of one is full while it joins a live receiver.
  `source_ready` never starts when the requested frames and the preroll exceed the queue.
- `pump_session` drops a poll error when the run failed for another cause.
- A crash between the gadget's directory and its record leaves an unrecorded root; a torn
  record makes every later socket-activated start refuse. Concurrent opens of dummy_hcd can wait for
  each other's node. Closing one sleeps for a second, which is the client's read timeout. None of these is
  reachable while `require_dummy_hcd_contract` refuses.
- The PCM timing seqlock is modelled as sequentially consistent.

Demo:

- When the pipe to a host program breaks, `OutputPort`'s thread ends without counting the block it was
  writing, and the blocks in its channel go with the receiver: `dropped_packets` does not tell, only the error does.
- A failure message may be overwritten in the same frame by the selected controller's own submit error. Routing
  edits are copies of the last published view as a whole.
- `InputPort`'s thread ends without an error when it finds its child dead right after a whole block;
  a tick discards fresh microphone blocks, uncounted, while one is unsent. A speaker mapping changed by the
  provider restarts every host stream.
- A refused Wii attachment keeps an accessory button pressed while its latch is dropped (`refused` excepts it from
  NothingStuck); toggling MotionPlus alone neutralises the accessory and leaves its latches shown. A Hold box toggled
  by keyboard in the frame after a click drops the momentary press without a release. `apply_wii_button` ignores the
  Classic Pro's buttons.

## Plan

Modelled and checked is what the table of modules lists. What remains is proof, of the components that have none.

## Not modelled

Report layouts, descriptors, frame encodings and file-system checks are data: the models keep
whether they succeed. USB/IP profiles, contracts and wire conversions have no state after
construction. The demo's importers, family tables and soak test, the snapping of its d-pad and the drawing of touch
deflection, the tools, the scripts and the acceptance data are outside the system. Weak-memory effects
beyond release and acquire are outside the models. The libraries (PipeWire) and the kernel are external, modelled from
how the code uses them.
