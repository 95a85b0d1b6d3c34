----------------------------- MODULE MCSessions -----------------------------
(* Sessions and their owners: the native session, whose constants are in   *)
(* the configuration, the curated controller session, the UHID stack and   *)
(* its group, the reverse-event callbacks, and above them the workers and  *)
(* the panel of the demo application. All components are there in every    *)
(* behaviour and one of them, part, runs; the variables of the others stay *)
(* as they are.                                                            *)
EXTENDS NativeSession

CONSTANTS
  Parts,  \* the components that may run
  Prompt  \* the demo's worker answers a batch before the next frame

VARIABLES part, backend, rt, live, bridge, session, controllerShown, controllerEvents, owed,
          shapes, committed, members, roles, group, host, faults, unreported, callbackPc,
          callbackClosed, sender, senderLock, handle, handleLock, queue, worker, hand,
          delivered, dropped, panics, published, accepted, handled, returned, controllers,
          selected, created, demoWorker, frame, generation, wanted, discovery, slot, thread,
          child, family, subject, ui, view, dev, editorPhase, batch, pointer, typing, space,
          asked, refused, open

MCSubjects ==
  {<<"Xbox", {"south", "east"}>>, <<"Xbox", {"up", "down"}>>,
   <<"Xbox", {"left-trigger", "right-trigger", "left-shoulder"}>>,
   <<"DualSense", {"touchpad-click", "touchpad.1", "touchpad.2"}>>,
   <<"DualShock4", {"left-stick", "left-stick-press", "l2"}>>,
   <<"SwitchPro", {"zl", "motion"}>>,
   <<"Steam", {"left_pad.click", "left_pad.1"}>>,
   <<"Steam", {"left_trigger.axis", "left_trigger.click", "up", "down", "imu"}>>,
   <<"Wii", {"nunchuk.c", "nunchuk.stick", "accel.x"}>>,
   <<"Wii", {"a", "classic.lt", "classic.zl", "nunchuk.accel.x"}>>,
   <<"Wii", {"ir.1", "ir.2"}>>}

\* A generation counter that ends at two, buffers of two observations.
Controller == INSTANCE ControllerSession WITH
  Controls <- {"core", "ext"}, Topologies <- {{}, {"core"}, {"core", "ext"}, {"core", "other"}},
  MaxGeneration <- 2, Observations <- 2, MaxEvents <- 4, shown <- controllerShown,
  events <- controllerEvents

\* Groups with two roles, a repeated role, too many roles and none.
Uhid == INSTANCE UhidGroup WITH
  Supplies <- {<<2, 1>>, <<1, 1>>, <<3, 1, 2>>, <<>>}, MaxGroup <- 2, MaxOutputs <- 1,
  QueueLen <- 2, HostEvents <- 2, Faults <- 2

\* Three threads and a channel of two events.
Sub == INSTANCE ReverseSubscription WITH
  Threads <- {"t1", "t2", "t3"}, Callback <- "callback", Capacity <- 2, MaxEvents <- 4,
  pc <- callbackPc, closed <- callbackClosed

\* Three controllers, two of them listed at once.
Demo == INSTANCE DemoWorker WITH
  Features <- {"audio-pipewire"}, EagerIds <- {1}, MaxCreated <- 3, MaxListed <- 2,
  MaxEdits <- 1, worker <- demoWorker

\* Two host backends.
Found == INSTANCE DemoDiscovery WITH
  Backends <- {"pipewire", "alsa"}, MaxGeneration <- 6

\* A few controls of every family at a time.
Editor == INSTANCE DemoEditor WITH
  Extent <- 2, Prompt <- Prompt, Subjects <- MCSubjects, phase <- editorPhase

\* A component that does not run.
ControllerOff == backend = 0 /\ rt = 0 /\ live = 0 /\ bridge = 0 /\ session = 0
    /\ controllerShown = 0 /\ controllerEvents = 0 /\ owed = 0 /\ shapes = 0 /\ committed = 0
UhidOff == members = 0 /\ roles = 0 /\ group = 0 /\ host = 0 /\ faults = 0 /\ unreported = 0
CallbackOff == callbackPc = 0 /\ callbackClosed = 0 /\ sender = 0 /\ senderLock = 0
    /\ handle = 0 /\ handleLock = 0 /\ queue = 0 /\ worker = 0 /\ hand = 0 /\ delivered = 0
    /\ dropped = 0 /\ panics = 0 /\ published = 0 /\ accepted = 0 /\ handled = 0
    /\ returned = 0
DemoOff == controllers = 0 /\ selected = 0 /\ created = 0 /\ demoWorker = 0 /\ frame = 0
DiscoveryOff == generation = 0 /\ wanted = 0 /\ discovery = 0 /\ slot = 0 /\ thread = 0
    /\ child = 0
EditorOff == family = 0 /\ subject = 0 /\ ui = 0 /\ view = 0 /\ dev = 0 /\ editorPhase = 0
    /\ batch = 0 /\ pointer = 0 /\ typing = 0 /\ space = 0 /\ asked = 0 /\ refused = 0
    /\ open = 0

AllInit ==
  /\ part \in Parts
  /\ Init
  /\ IF part = "controller" THEN Controller!Init ELSE ControllerOff
  /\ IF part = "uhid" THEN Uhid!Init ELSE UhidOff
  /\ IF part = "callback" THEN Sub!Init ELSE CallbackOff
  /\ IF part = "demo" THEN Demo!Init ELSE DemoOff
  /\ IF part = "discovery" THEN Found!Init ELSE DiscoveryOff
  /\ IF part = "editor" THEN Editor!Init ELSE EditorOff

nativeVars == vars
controllerVars == <<backend, rt, live, bridge, session, controllerShown, controllerEvents,
    owed, shapes, committed>>
uhidVars == <<members, roles, group, host, faults, unreported>>
callbackVars == <<callbackPc, callbackClosed, sender, senderLock, handle, handleLock, queue,
    worker, hand, delivered, dropped, panics, published, accepted, handled, returned>>
demoVars == <<controllers, selected, created, demoWorker, frame>>
discoveryVars == <<generation, wanted, discovery, slot, thread, child>>
editorVars == <<family, subject, ui, view, dev, editorPhase, batch, pointer, typing, space,
    asked, refused, open>>

NativeAlone == part = "native" /\ UNCHANGED <<part, controllerVars, uhidVars, callbackVars,
    demoVars, discoveryVars, editorVars>>
ControllerAlone == part = "controller" /\ UNCHANGED <<part, nativeVars, uhidVars,
    callbackVars, demoVars, discoveryVars, editorVars>>
UhidAlone == part = "uhid" /\ UNCHANGED <<part, nativeVars, controllerVars, callbackVars,
    demoVars, discoveryVars, editorVars>>
CallbackAlone == part = "callback" /\ UNCHANGED <<part, nativeVars, controllerVars, uhidVars,
    demoVars, discoveryVars, editorVars>>
DemoAlone == part = "demo" /\ UNCHANGED <<part, nativeVars, controllerVars, uhidVars,
    callbackVars, discoveryVars, editorVars>>
DiscoveryAlone == part = "discovery" /\ UNCHANGED <<part, nativeVars, controllerVars,
    uhidVars, callbackVars, demoVars, editorVars>>
EditorAlone == part = "editor" /\ UNCHANGED <<part, nativeVars, controllerVars, uhidVars,
    callbackVars, demoVars, discoveryVars>>


AllNext ==
  \/ NativeAlone /\ Next
  \/ ControllerAlone /\ Controller!Next
  \/ UhidAlone /\ Uhid!Next
  \/ CallbackAlone /\ Sub!Next
  \/ DemoAlone /\ Demo!Next
  \/ DiscoveryAlone /\ Found!Next
  \/ EditorAlone /\ Editor!Next

allVars == <<part, nativeVars, controllerVars, uhidVars, callbackVars, demoVars,
    discoveryVars, editorVars>>

AllSpec == AllInit /\ [][AllNext]_allVars

-----------------------------------------------------------------------------
\* A commit that returned Ok means that host or worker has the state as last edited; the
\* live shape, the installed protocol and the state agree and a refused change leaves all
\* of them; every observation is delivered, held or counted (ControllerSession, LiveTopology).
ControllerSound ==
  part = "controller" => Controller!CommitTruthful /\ Controller!ShapeAgreed /\ Controller!ObservationsConserved

\* Provider, transport and runtime agree on the one open request of a UHID session, and
\* what the kernel took are replies to distinct requests in order; a group of sessions
\* lives and dies as one and returns or counts every observation of its members.
UhidSound == part = "uhid" => Uhid!RequestSlotsAgree /\ Uhid!GroupAsOne

\* When a close from outside returns, also the second of two concurrent ones, the callback
\* will not run again and every accepted event was handled, in order, unless it panicked.
DrainedOnClose == part = "callback" => Sub!DrainedOnClose

\* No snapshot of a worker undoes what the user entered, a controller the user no longer
\* sees holds no device (EditProgress, remove_controller, Drop for App); host devices are
\* shown only as the answer to the latest request and for its backend, and a finished or
\* cancelled command leaves no process (Discovery::poll, terminate_discovery).
DemoOwned ==
  /\ part = "demo" => Demo!ViewCurrent /\ Demo!DevicesOwned
  /\ part = "discovery" => Found!ShownCurrent /\ Found!NoStrayProcess

\* Removing one controller, for whatever reason and at whatever index, leaves the
\* selection on the controller it was on.
SelectionKept == [][part = "demo" => Demo!SelectionStays]_demoVars

\* Once the worker has applied what was drawn, every event of the cards has reached the
\* controller, and whatever is not at rest there is shown as pressed, held or touched:
\* nothing stays down that the user has let go.
NothingStuck == part = "editor" => Editor!NothingStuck /\ Editor!EditsLand
=============================================================================
