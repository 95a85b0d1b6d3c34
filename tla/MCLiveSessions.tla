--------------------------- MODULE MCLiveSessions ---------------------------
(* What must happen in the end: the HID runtime, whose constants are in    *)
(* the configuration, the Steam Controller, which is a personality that    *)
(* may refuse outputs for ever, native sessions, and the workers of the    *)
(* demo. All components are there in every behaviour and one of them,      *)
(* part, runs; the variables of the others stay as they are.               *)
EXTENDS HidRuntime

CONSTANTS
  Parts   \* the components that may run

VARIABLES part, target, compat, steamState, steamDirty, proto, retained, queue, inbox,
          steamNow, steamClosed, shown, host, edits, events, beat, nativePhase, pc,
          nativeState, nativeDirty, nativeClosed, sinkClosed, fatal, effects, nativeEvents,
          nativePending, retries, playback, groupClosed, device, begun, nativeShown,
          destroyed, nativeInbox, waiting, hostEffects, requests, plays, answered, reported,
          controllers, selected, created, worker, frame, generation, wanted, discovery,
          slot, thread, child

\* The configuration reduced rejects the state where an optional control is held.
MCAccepts == [c \in Configs |-> IF c = "reduced" THEN States \ {"held"} ELSE States]

\* A Steam state at its extremes, and one with a trigger that is refused.
MCSamples ==
  LET pad == [position |-> <<0, 0>>, pressure |-> 0, touch |-> FALSE, click |-> FALSE]
      rest == [buttons |-> {}, sticks |-> <<<<0, 0>>, <<0, 0>>>>, triggers |-> <<0, 0>>, pads |-> <<pad, pad>>,
               stick_touch |-> <<FALSE, FALSE>>, grip_touch |-> <<FALSE, FALSE>>, motion |-> 0]
  IN {[rest EXCEPT !.buttons = {"A", "Steam"}, !.sticks = <<<<-32768, -32768>>, <<32767, 5>>>>,
                   !.triggers = <<32767, 1>>, !.pads[1].position = <<-32768, 7>>, !.pads[1].touch = TRUE,
                   !.pads[2].click = TRUE, !.stick_touch[1] = TRUE],
      [rest EXCEPT !.triggers = <<-1, 0>>]}

MCPackets ==
  {[kind |-> "configure", op |-> o, target |-> t] : o \in {"start", "stop"}, t \in {"internal", "pads"}}
    \cup {[kind |-> "mono", slot |-> 2, n |-> 1], [kind |-> "stereo", n |-> 3]}

\* A haptic FIFO of four bytes and packets of one and three.
Steam == INSTANCE SteamController WITH
  Capacity <- 4, HighWater <- 3, LowWater <- 1, StartDelay <- 1, RateBytes <- 5, RateTicks <- 2,
  MaxFeedback <- 3, Samples <- MCSamples, Buttons <- {"X"}, Packets <- MCPackets,
  Counter <- 2, MaxEdits <- 1, MaxEvents <- 2, MaxTime <- 2, EventCost <- 1,
  state <- steamState, dirty <- steamDirty, now <- steamNow, closed <- steamClosed

\* Two components, two requests of the host.
Native == INSTANCE NativeSession WITH
  Size <- 2, States <- {"neutral", "pressed"}, Neutral <- "neutral", None <- "none",
  Effects <- {0}, Strengths <- {"weak"}, Retries <- 1, EventLimit <- 2, Batch <- 2,
  MaxRequests <- 2, MaxPlays <- 0, phase <- nativePhase, state <- nativeState,
  dirty <- nativeDirty, closed <- nativeClosed, events <- nativeEvents,
  pending <- nativePending, shown <- nativeShown, inbox <- nativeInbox

\* Two controllers.
Demo == INSTANCE DemoWorker WITH
  Features <- {"audio-pipewire"}, EagerIds <- {1}, MaxCreated <- 2, MaxListed <- 2,
  MaxEdits <- 1

\* Two host backends.
Found == INSTANCE DemoDiscovery WITH
  Backends <- {"pipewire", "alsa"}, MaxGeneration <- 4

\* A component that does not run.
SteamOff == target = 0 /\ compat = 0 /\ steamState = 0 /\ steamDirty = 0 /\ proto = 0
    /\ retained = 0 /\ queue = 0 /\ inbox = 0 /\ steamNow = 0 /\ steamClosed = 0 /\ shown = 0
    /\ host = 0 /\ edits = 0 /\ events = 0 /\ beat = 0
NativeOff == nativePhase = 0 /\ pc = 0 /\ nativeState = 0 /\ nativeDirty = 0
    /\ nativeClosed = 0 /\ sinkClosed = 0 /\ fatal = 0 /\ effects = 0 /\ nativeEvents = 0
    /\ nativePending = 0 /\ retries = 0 /\ playback = 0 /\ groupClosed = 0 /\ device = 0
    /\ begun = 0 /\ nativeShown = 0 /\ destroyed = 0 /\ nativeInbox = 0 /\ waiting = 0
    /\ hostEffects = 0 /\ requests = 0 /\ plays = 0 /\ answered = 0 /\ reported = 0
DemoOff == controllers = 0 /\ selected = 0 /\ created = 0 /\ worker = 0 /\ frame = 0
DiscoveryOff == generation = 0 /\ wanted = 0 /\ discovery = 0 /\ slot = 0 /\ thread = 0
    /\ child = 0

AllInit ==
  /\ part \in Parts
  /\ Init /\ (part # "hid" => due = NoDeadline)
  /\ IF part = "steam" THEN Steam!Init ELSE SteamOff
  /\ IF part = "native" THEN Native!Init ELSE NativeOff
  /\ IF part = "demo" THEN Demo!Init ELSE DemoOff
  /\ IF part = "discovery" THEN Found!Init ELSE DiscoveryOff

hidVars == vars
steamVars == <<target, compat, steamState, steamDirty, proto, retained, queue, inbox,
    steamNow, steamClosed, shown, host, edits, events, beat>>
nativeVars == <<nativePhase, pc, nativeState, nativeDirty, nativeClosed, sinkClosed, fatal,
    effects, nativeEvents, nativePending, retries, playback, groupClosed, device, begun,
    nativeShown, destroyed, nativeInbox, waiting, hostEffects, requests, plays, answered,
    reported>>
demoVars == <<controllers, selected, created, worker, frame>>
discoveryVars == <<generation, wanted, discovery, slot, thread, child>>

HidAlone == part = "hid" /\ UNCHANGED <<part, steamVars, nativeVars, demoVars, discoveryVars>>
SteamAlone == part = "steam" /\ UNCHANGED <<part, hidVars, nativeVars, demoVars,
    discoveryVars>>
NativeAlone == part = "native" /\ UNCHANGED <<part, hidVars, steamVars, demoVars,
    discoveryVars>>
DemoAlone == part = "demo" /\ UNCHANGED <<part, hidVars, steamVars, nativeVars,
    discoveryVars>>
DiscoveryAlone == part = "discovery" /\ UNCHANGED <<part, hidVars, steamVars, nativeVars,
    demoVars>>


AllNext ==
  \/ HidAlone /\ Next
  \/ SteamAlone /\ Steam!Next
  \/ NativeAlone /\ Native!Next
  \/ DemoAlone /\ Demo!Next
  \/ DiscoveryAlone /\ Found!Next

allVars == <<part, hidVars, steamVars, nativeVars, demoVars, discoveryVars>>

AllSpec == AllInit /\ [][AllNext]_allVars

\* The fairness each component assumes of its own steps.
AllLiveSpec ==
  /\ AllSpec
  /\ WF_beat(part = "steam" /\ Steam!Beat)
  /\ WF_allVars(
         (SteamAlone /\ Steam!CommitFrame("taken"))
      \/ (HidAlone /\ Tick)
      \/ (NativeAlone /\ Native!Drain)
      \/ (DemoAlone /\ Demo!Interface)
      \/ (DiscoveryAlone /\ Found!Poll))
  /\ WF_allVars(
         (HidAlone /\ BeginService)
      \/ (NativeAlone /\ Native!DrainSteps)
      \/ (DemoAlone /\ Demo!Worker(1))
      \/ (DiscoveryAlone /\ Found!Thread))
  /\ WF_allVars(
         (HidAlone /\ ServiceStep)
      \/ (DemoAlone /\ Demo!Worker(2)))

-----------------------------------------------------------------------------
\* An edit is shown in the end or the session is closed. In the runtime it reaches the
\* personality, however the host interleaves requests and STOPs, if host and personality
\* let input through at all (HidRuntime's PeerFairness); the Steam Controller's reaches the host, also when the host
\* keeps sending packets that end each service call before input is served.
EditReaches ==
  PeerFairness => []<>CASE part = "hid" -> ~dirty \/ closed
                           [] part = "steam" -> ~steamDirty \/ steamClosed
                           [] OTHER -> TRUE

\* No wait lasts for ever. A required reply of the runtime is submitted or its deadline
\* closes the session, whatever the transport does; a native host that uploads or erases an
\* effect is answered or loses its device; the demo finds out a worker that ended by itself,
\* and a request for its host devices is answered.
WaitsEnd ==
  \A i \in 1..2 : []<>CASE part = "hid" -> reply = NoReply
                        [] part = "native" -> i \notin waiting
                        [] part = "demo" -> ~Demo!Deserted(i)
                        [] part = "discovery" -> ~Found!Unanswered
                        [] OTHER -> TRUE
=============================================================================
