------------------------------ MODULE MCAudio -------------------------------
(* The audio path of a controller. The constants of the sample queue are   *)
(* in the configuration, those of the other components are here. All       *)
(* components are there in every behaviour and one of them, part, runs;    *)
(* the variables of the others stay as they are.                           *)
EXTENDS PcmQueue

CONSTANTS
  Parts   \* the components that may run

VARIABLES part, graph, cb, queue, loss, slot, trk, shr, src, obs, truth, app, inner, ses, wkr, strm, fault, blame,
          usbApp, ctl, wk, chan, pump, br, pol, start, pcm, usbSes, usbFault, dir, host,
          bridgeGraph, bridge, poller, shared, client, bridgePump, wire, worker,
          workerClient, workerClosed, sequence, sent, accepted, outcome, workerPump,
          channels, exchanges, toWorker, toClient, readShut, control, current, failed, stop,
          usb, workerPcm, updates, acks, events, lost, applied, faults, produced, taken,
          access, activity, router, ports, action, shown, labSent, running

MCOffered == {[target |-> "uhid", exposure |-> e, playback |-> "samples", microphone |-> m] :
                e \in {"disabled", "emulated"}, m \in {"samples", "native"}}

\* A queue of three frames, cycles of two, a ledger of two losses.
Stream == INSTANCE PipeWireStream WITH
  Capacity <- 3, Scratch <- 1, LossEvents <- 2, Preroll <- 1, Quantum <- 2, Tries <- 2,
  MaxReceived <- 4, MaxTicks <- 4, MaxUnderrun <- 1

\* Up to two failures of the graph, the library or the provider.
PipeWire == INSTANCE PipeWireAudio WITH
  Features <- {"audio-pipewire"}, Offered <- MCOffered, Faults <- 2, LastToken <- 3

\* Up to two failures.
Usb == INSTANCE UsbAudio WITH
  MaxFaults <- 2, app <- usbApp, ses <- usbSes, fault <- usbFault

\* Blocks of two frames, a microphone credit of three.
Bridge == INSTANCE UsbBridge WITH
  Block <- 2, Fill <- 3, ClientCap <- 2, GraphCap <- 2, WorkerCap <- 4, Ledger <- 1,
  MaxHost <- 4, graph <- bridgeGraph, pump <- bridgePump

\* Two states, a reverse-event channel of one.
Wk == INSTANCE AudioWorker WITH
  States <- {"neutral", "pressed"}, Initial <- "neutral", EventQueue <- 1, MaxSequence <- 2,
  MaxEvents <- 3, MaxExchanges <- 3, client <- workerClient, closed <- workerClosed,
  pump <- workerPump, pcm <- workerPcm

\* A DualSense with a headset to plug in, two host devices and ports of two blocks.
Lab == INSTANCE DemoAudio WITH
  Family <- "DualSense", Devices <- {"default", "usb"}, Plugs <- {"headset"}, QueueLimit <- 2,
  MicChannels <- 2, MaxActions <- 2, MaxBlocks <- 3, MaxExits <- 1, sent <- labSent

\* A component that does not run.
StreamOff == graph = 0 /\ cb = 0 /\ queue = 0 /\ loss = 0 /\ slot = 0 /\ trk = 0 /\ shr = 0
    /\ src = 0 /\ obs = 0 /\ truth = 0
PipewireOff == app = 0 /\ inner = 0 /\ ses = 0 /\ wkr = 0 /\ strm = 0 /\ fault = 0
    /\ blame = 0
UsbOff == usbApp = 0 /\ ctl = 0 /\ wk = 0 /\ chan = 0 /\ pump = 0 /\ br = 0 /\ pol = 0
    /\ start = 0 /\ pcm = 0 /\ usbSes = 0 /\ usbFault = 0
BridgeOff == dir = 0 /\ host = 0 /\ bridgeGraph = 0 /\ bridge = 0 /\ poller = 0 /\ shared = 0
    /\ client = 0 /\ bridgePump = 0 /\ wire = 0 /\ worker = 0
WorkerOff == workerClient = 0 /\ workerClosed = 0 /\ sequence = 0 /\ sent = 0 /\ accepted = 0
    /\ outcome = 0 /\ workerPump = 0 /\ channels = 0 /\ exchanges = 0 /\ toWorker = 0
    /\ toClient = 0 /\ readShut = 0 /\ control = 0 /\ current = 0 /\ failed = 0 /\ stop = 0
    /\ usb = 0 /\ workerPcm = 0 /\ updates = 0 /\ acks = 0 /\ events = 0 /\ lost = 0
    /\ applied = 0 /\ faults = 0 /\ produced = 0 /\ taken = 0
LabOff == access = 0 /\ activity = 0 /\ router = 0 /\ ports = 0 /\ action = 0 /\ shown = 0
    /\ labSent = 0 /\ running = 0

AllInit ==
  /\ part \in Parts
  /\ Init
  /\ IF part = "stream" THEN Stream!Init ELSE StreamOff
  /\ IF part = "pipewire" THEN PipeWire!Init ELSE PipewireOff
  /\ IF part = "usb" THEN Usb!Init ELSE UsbOff
  /\ IF part = "bridge" THEN Bridge!Init ELSE BridgeOff
  /\ IF part = "worker" THEN Wk!Init ELSE WorkerOff
  /\ IF part = "lab" THEN Lab!Init ELSE LabOff

queueVars == vars
streamVars == <<graph, cb, queue, loss, slot, trk, shr, src, obs, truth>>
pipewireVars == <<app, inner, ses, wkr, strm, fault, blame>>
usbVars == <<usbApp, ctl, wk, chan, pump, br, pol, start, pcm, usbSes, usbFault>>
bridgeVars == <<dir, host, bridgeGraph, bridge, poller, shared, client, bridgePump, wire,
    worker>>
workerVars == <<workerClient, workerClosed, sequence, sent, accepted, outcome, workerPump,
    channels, exchanges, toWorker, toClient, readShut, control, current, failed, stop, usb,
    workerPcm, updates, acks, events, lost, applied, faults, produced, taken>>
labVars == <<access, activity, router, ports, action, shown, labSent, running>>

QueueAlone == part = "queue" /\ UNCHANGED <<part, streamVars, pipewireVars, usbVars,
    bridgeVars, workerVars, labVars>>
StreamAlone == part = "stream" /\ UNCHANGED <<part, queueVars, pipewireVars, usbVars,
    bridgeVars, workerVars, labVars>>
PipewireAlone == part = "pipewire" /\ UNCHANGED <<part, queueVars, streamVars,
    usbVars, bridgeVars, workerVars, labVars>>
UsbAlone == part = "usb" /\ UNCHANGED <<part, queueVars, streamVars, pipewireVars,
    bridgeVars, workerVars, labVars>>
BridgeAlone == part = "bridge" /\ UNCHANGED <<part, queueVars, streamVars,
    pipewireVars, usbVars, workerVars, labVars>>
WorkerAlone == part = "worker" /\ UNCHANGED <<part, queueVars, streamVars,
    pipewireVars, usbVars, bridgeVars, labVars>>
LabAlone == part = "lab" /\ UNCHANGED <<part, queueVars, streamVars, pipewireVars,
    usbVars, bridgeVars, workerVars>>


AllNext ==
  \/ QueueAlone /\ Next
  \/ StreamAlone /\ Stream!Next
  \/ PipewireAlone /\ PipeWire!Next
  \/ UsbAlone /\ Usb!Next
  \/ BridgeAlone /\ Bridge!Next
  \/ WorkerAlone /\ Wk!Next
  \/ LabAlone /\ Lab!Next

allVars == <<part, queueVars, streamVars, pipewireVars, usbVars, bridgeVars,
    workerVars, labVars>>

AllSpec == AllInit /\ [][AllNext]_allVars

-----------------------------------------------------------------------------
\* Every frame of the graph was read, is queued or was lost for one counted reason with its
\* exact position, and what the application reads beside the running callbacks is one
\* complete record (ingest, InputLoss, Tracker, timing::Shared).
StreamAccounted == part = "stream" => Stream!LossExplained /\ Stream!ReadsWhole

\* Audio is required together with its controller. With no failure none is recorded, on
\* PipeWire and on USB; threads, endpoints and the broker's client live only while their
\* owner does, also after a refused or timed-out creation; a returned close has closed both
\* halves and kept every cause, the first and the cleanup's.
AudioOwned ==
  /\ part = "pipewire" => PipeWire!CleanClose /\ PipeWire!EndpointsReleased /\ PipeWire!ClosedWhole
  /\ part = "usb" => Usb!UsbCleanClose /\ Usb!CausesKept /\ Usb!UsbReleased

\* The facade's tests close a controller whose audio has failed and expect the failure to
\* be retained, the status Failed and no further deadline (controllers/tests.rs).
AudioFailureRetained == part = "pipewire" => PipeWire!AudioFailureRetained

\* The bridge never sends more microphone frames than the worker can hold, traces each
\* silence of the host to its cause, and places playback frames at their position, through
\* polls of the host clock that are late or lost (NativeMicCredit, run, run_pump).
BridgeAccounted == part = "bridge" => Bridge!CreditKept /\ Bridge!SilenceTraced /\ Bridge!PlaybackPlaced

\* Client and audio worker agree on the state between exchanges, a successful close
\* certifies that both threads ended without error, a worker that fails says why, and each
\* host output is delivered in order, queued or counted as lost.
WorkerAgreed == part = "worker" => Wk!StateAgreed /\ Wk!CloseCertified /\ Wk!FailureSurfaces /\ Wk!EventsAccounted

\* In the demo's router every block a port took in is played, handed on or counted, or lost
\* with an output port that shows its error; the rest of a microphone block is a suffix of
\* that block whatever is flushed or switched; every enabled route has one port per channel
\* or shows an error; and dealing a block out to host devices and collecting it again puts
\* every sample in its channel.
RouterSound == part = "lab" => Lab!BlocksConserved /\ Lab!PendingSound /\ Lab!RoutesServed /\ Lab!ChannelsInPlace

\* Meters change in every cycle of the router; host streams are restarted, and what they
\* queue lost, only when something else changes or the user asks for it.
StreamsKept == [][part = "lab" => Lab!StreamKept]_labVars
=============================================================================
