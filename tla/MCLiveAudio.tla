---------------------------- MODULE MCLiveAudio -----------------------------
(* What must happen in the end: the threads and processes of the audio     *)
(* path, the closing of a subscription of its events, and two connections  *)
(* of one user to the audio broker. Constants of the PCM channel are in    *)
(* the configuration. All components are there in every behaviour and one  *)
(* of them, part, runs; the variables of the others stay as they are.      *)
EXTENDS PcmIpc

CONSTANTS
  Parts   \* the components that may run

VARIABLES part, graph, cb, queue, loss, slot, trk, shr, src, obs, truth, app, inner, ses,
          wkr, strm, fault, blame, usbApp, ctl, wk, chan, pump, br, pol, start, pcm, usbSes,
          usbFault, client, closed, sequence, sent, accepted, outcome, workerPump, channels,
          exchanges, toWorker, toClient, readShut, control, current, failed, stop, usb,
          workerPcm, updates, acks, events, lost, applied, faults, produced, taken, pc,
          callbackClosed, sender, senderLock, handle, handleLock, callbackQueue, worker,
          hand, delivered, callbackDropped, panics, published, callbackAccepted, handled,
          returned, up, crashes, admission, reserved, disk, hub, brokerWorker, killed,
          kernelSock, brokerPc, seen, port, closes, cleared, acked, faulted, inbox, gone,
          reply

MCOffered == {[target |-> "uhid", exposure |-> e, playback |-> "samples", microphone |-> m] :
                e \in {"disabled", "emulated"}, m \in {"samples", "native"}}

MCTight == [k \in {"conn", "sess"} |-> [global |-> 2, peer |-> IF k = "conn" THEN 2 ELSE 1]]

\* A queue of three frames and cycles of two.
Stream == INSTANCE PipeWireStream WITH
  Capacity <- 3, Scratch <- 1, LossEvents <- 1, Preroll <- 1, Quantum <- 2, Tries <- 1,
  MaxReceived <- 3, MaxTicks <- 3, MaxUnderrun <- 1

\* Up to two failures of the graph, the library or the provider.
PipeWire == INSTANCE PipeWireAudio WITH
  Features <- {"audio-pipewire"}, Offered <- MCOffered, Faults <- 2, LastToken <- 3

\* Up to two failures.
Usb == INSTANCE UsbAudio WITH
  MaxFaults <- 2, app <- usbApp, ses <- usbSes, fault <- usbFault

\* Two states, a reverse-event channel of one.
Wk == INSTANCE AudioWorker WITH
  States <- {"neutral", "pressed"}, Initial <- "neutral", EventQueue <- 1, MaxSequence <- 1,
  MaxEvents <- 1, MaxExchanges <- 2, pump <- workerPump, pcm <- workerPcm

\* Two threads and a channel of two events.
Sub == INSTANCE ReverseSubscription WITH
  Threads <- {"t1", "t2"}, Callback <- "callback", Capacity <- 2, MaxEvents <- 3,
  closed <- callbackClosed, queue <- callbackQueue, dropped <- callbackDropped,
  accepted <- callbackAccepted

\* One port, and a quota of one session for the user.
Broker == INSTANCE AudioBroker WITH
  Conns <- {"c1", "c2"}, Peers <- {"u1"}, PeerOf <- [c \in {"c1", "c2"} |-> "u1"], NoPort <- 99,
  Ports <- {0}, Limits <- MCTight, MaxRecords <- 2, MaxCrashes <- 0, MaxFaulted <- 0,
  worker <- brokerWorker, pc <- brokerPc

\* A component that does not run.
StreamOff == graph = 0 /\ cb = 0 /\ queue = 0 /\ loss = 0 /\ slot = 0 /\ trk = 0 /\ shr = 0
    /\ src = 0 /\ obs = 0 /\ truth = 0
PipewireOff == app = 0 /\ inner = 0 /\ ses = 0 /\ wkr = 0 /\ strm = 0 /\ fault = 0
    /\ blame = 0
UsbOff == usbApp = 0 /\ ctl = 0 /\ wk = 0 /\ chan = 0 /\ pump = 0 /\ br = 0 /\ pol = 0
    /\ start = 0 /\ pcm = 0 /\ usbSes = 0 /\ usbFault = 0
WorkerOff == client = 0 /\ closed = 0 /\ sequence = 0 /\ sent = 0 /\ accepted = 0
    /\ outcome = 0 /\ workerPump = 0 /\ channels = 0 /\ exchanges = 0 /\ toWorker = 0
    /\ toClient = 0 /\ readShut = 0 /\ control = 0 /\ current = 0 /\ failed = 0 /\ stop = 0
    /\ usb = 0 /\ workerPcm = 0 /\ updates = 0 /\ acks = 0 /\ events = 0 /\ lost = 0
    /\ applied = 0 /\ faults = 0 /\ produced = 0 /\ taken = 0
CallbackOff == pc = 0 /\ callbackClosed = 0 /\ sender = 0 /\ senderLock = 0 /\ handle = 0
    /\ handleLock = 0 /\ callbackQueue = 0 /\ worker = 0 /\ hand = 0 /\ delivered = 0
    /\ callbackDropped = 0 /\ panics = 0 /\ published = 0 /\ callbackAccepted = 0
    /\ handled = 0 /\ returned = 0
BrokerOff == up = 0 /\ crashes = 0 /\ admission = 0 /\ reserved = 0 /\ disk = 0 /\ hub = 0
    /\ brokerWorker = 0 /\ killed = 0 /\ kernelSock = 0 /\ brokerPc = 0 /\ seen = 0
    /\ port = 0 /\ closes = 0 /\ cleared = 0 /\ acked = 0 /\ faulted = 0 /\ inbox = 0
    /\ gone = 0 /\ reply = 0

AllInit ==
  /\ part \in Parts
  /\ Init
  /\ IF part = "stream" THEN Stream!Init ELSE StreamOff
  /\ IF part = "pipewire" THEN PipeWire!Init ELSE PipewireOff
  /\ IF part = "usb" THEN Usb!Init ELSE UsbOff
  /\ IF part = "worker" THEN Wk!Init ELSE WorkerOff
  /\ IF part = "callback" THEN Sub!Init ELSE CallbackOff
  /\ IF part = "broker" THEN Broker!Init ELSE BrokerOff

ipcVars == vars
streamVars == <<graph, cb, queue, loss, slot, trk, shr, src, obs, truth>>
pipewireVars == <<app, inner, ses, wkr, strm, fault, blame>>
usbVars == <<usbApp, ctl, wk, chan, pump, br, pol, start, pcm, usbSes, usbFault>>
workerVars == <<client, closed, sequence, sent, accepted, outcome, workerPump, channels,
    exchanges, toWorker, toClient, readShut, control, current, failed, stop, usb, workerPcm,
    updates, acks, events, lost, applied, faults, produced, taken>>
callbackVars == <<pc, callbackClosed, sender, senderLock, handle, handleLock, callbackQueue,
    worker, hand, delivered, callbackDropped, panics, published, callbackAccepted, handled,
    returned>>
brokerVars == <<up, crashes, admission, reserved, disk, hub, brokerWorker, killed, kernelSock,
    brokerPc, seen, port, closes, cleared, acked, faulted, inbox, gone, reply>>

IpcAlone == part = "ipc" /\ UNCHANGED <<part, streamVars, pipewireVars, usbVars, workerVars,
    callbackVars, brokerVars>>
StreamAlone == part = "stream" /\ UNCHANGED <<part, ipcVars, pipewireVars, usbVars,
    workerVars, callbackVars, brokerVars>>
PipewireAlone == part = "pipewire" /\ UNCHANGED <<part, ipcVars, streamVars, usbVars,
    workerVars, callbackVars, brokerVars>>
UsbAlone == part = "usb" /\ UNCHANGED <<part, ipcVars, streamVars, pipewireVars, workerVars,
    callbackVars, brokerVars>>
WorkerAlone == part = "worker" /\ UNCHANGED <<part, ipcVars, streamVars, pipewireVars,
    usbVars, callbackVars, brokerVars>>
CallbackAlone == part = "callback" /\ UNCHANGED <<part, ipcVars, streamVars, pipewireVars,
    usbVars, workerVars, brokerVars>>
BrokerAlone == part = "broker" /\ UNCHANGED <<part, ipcVars, streamVars, pipewireVars,
    usbVars, workerVars, callbackVars>>


AllNext ==
  \/ IpcAlone /\ Next
  \/ StreamAlone /\ Stream!Next
  \/ PipewireAlone /\ PipeWire!Next
  \/ UsbAlone /\ Usb!Next
  \/ WorkerAlone /\ Wk!Next
  \/ CallbackAlone /\ Sub!Next
  \/ BrokerAlone /\ Broker!Next

allVars == <<part, ipcVars, streamVars, pipewireVars, usbVars, workerVars, callbackVars,
    brokerVars>>

AllSpec == AllInit /\ [][AllNext]_allVars

\* The fairness each component assumes of its own steps.
AllLiveSpec ==
  /\ AllSpec
  /\ WF_allVars(
         (IpcAlone /\ (\E n \in 1..BlockUnits : InboundPart(n) \/ InboundBlock(n)))
      \/ (StreamAlone /\ Stream!Callbacks)
      \/ (PipewireAlone /\ PipeWire!Worker)
      \/ (UsbAlone /\ (Usb!ClientOpen \/ Usb!CardFound \/ Usb!Probe \/ Usb!StreamsNew \/ Usb!Startup \/ Usb!StartupJoin \/ Usb!Rollback))
      \/ (WorkerAlone /\ (Wk!ClientReceive \/ Wk!ClientEof))
      \/ (CallbackAlone /\ Sub!Work)
      \/ (BrokerAlone /\ Broker!Step("c1")))
  /\ WF_allVars(
         (IpcAlone /\ Overdue(tx.deadline) /\ OutboundClose)
      \/ (StreamAlone /\ Stream!Fill)
      \/ (PipewireAlone /\ PipeWire!Join)
      \/ (UsbAlone /\ (Usb!BridgeOpen \/ Usb!BridgeRun \/ Usb!BridgeJoin \/ Usb!BridgeSend))
      \/ (WorkerAlone /\ (Wk!ReadUpdate \/ Wk!Acknowledge \/ Wk!AcknowledgeFail \/ Wk!ReadOutput \/ Wk!ReadClose \/ Wk!ReadEof \/ Wk!Finish))
      \/ (CallbackAlone /\ Sub!Continue("t2"))
      \/ (BrokerAlone /\ Broker!Step("c2")))
  /\ WF_allVars(
         (IpcAlone /\ Overdue(rx.deadline) /\ InboundClose)
      \/ (PipewireAlone /\ (PipeWire!OpenReady \/ PipeWire!OpenTimedOut))
      \/ (UsbAlone /\ (Usb!PollTop \/ Usb!PollExchange))
      \/ (WorkerAlone /\ (\E valid \in BOOLEAN : Wk!UsbService(valid)))
      \/ (CallbackAlone /\ Sub!Continue("callback"))
      \/ (BrokerAlone /\ killed["c1"] /\ Broker!WorkerExit("c1")))
  /\ WF_allVars(
         (PipewireAlone /\ PipeWire!ReapFailure)
      \/ (UsbAlone /\ Usb!PumpExit)
      \/ (WorkerAlone /\ Wk!UsbStop)
      \/ (BrokerAlone /\ killed["c2"] /\ Broker!WorkerExit("c2")))
  /\ WF_allVars(WorkerAlone /\ Wk!PcmStop)
  /\ SF_allVars(
         (IpcAlone /\ (\E a, b \in 0..BlockUnits : a + b > 0 /\ OutboundPump(a, b)))
      \/ (UsbAlone /\ Usb!Closing)
      \/ (CallbackAlone /\ Sub!Continue("t1")))
  /\ SF_allVars(CallbackAlone /\ (Sub!CallReturns \/ Sub!CallPanics))

-----------------------------------------------------------------------------
\* No wait lasts for ever. A frame that left the source queue reaches the destination, is
\* dropped and counted, or the channel ends; queued frames of PipeWire are played; creation
\* and close of PipeWire and USB audio return and a failure of one half closes the other;
\* an exchange with the worker ends; a close of a subscription returns also when the
\* callback publishes, closes it or panics; and a broker connection whose client left or
\* whose worker died gives back all it holds.
CallsReturn ==
  \A f \in 0..1 : []<>CASE part = "ipc" -> ~Underway(f)
                        [] part = "stream" -> ~Stream!Playable
                        [] part = "pipewire" -> ~PipeWire!Owed
                        [] part = "usb" -> Usb!Returned
                        [] part = "worker" -> client = "idle"
                        [] part = "callback" -> ~Sub!Closing("t1")
                        [] part = "broker" -> ~Broker!Orphaned("c1")
                        [] OTHER -> TRUE
=============================================================================
