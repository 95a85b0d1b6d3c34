----------------------------- MODULE DemoAudio -----------------------------
(***************************************************************************)
(* The audio side of one demo controller: the service worker's audio cycle *)
(* (demo/src/gui/audio_lab.rs: cycle, Activity, AudioRouter) and the host  *)
(* ports it owns (host_audio.rs: OutputPort, InputPort, CaptureQueue).     *)
(* Every port has a thread and a child process (aplay, pw-cat, ...), which *)
(* may die at any time. The interface sends one action at a time, built    *)
(* from the routing it was last shown.                                     *)
(*                                                                         *)
(* Audio is counted in blocks of STREAM_FRAMES frames; the tone is two of  *)
(* them. The controller's own sample queues are external: a read gives a   *)
(* block or none, a write accepts any part of what is offered, and either  *)
(* may fail.                                                               *)
(***************************************************************************)
EXTENDS Integers, Sequences, SequencesExt, FiniteSetsExt

CONSTANTS
    Family,         \* the controller family, a member of Families
    Devices,        \* host devices a channel may be routed to
    Plugs,          \* what the user plugs into the jack, within JackDevices
    QueueLimit,     \* blocks a port queues: 8 in the code
    MicChannels,    \* channels of the controller's microphone endpoint
    MaxActions,     \* bound: actions the user sends
    MaxBlocks,      \* bound: blocks offered to the open ports
    MaxExits        \* bound: open ports without their child

VARIABLES
    access,         \* which directions are accessed by samples
    activity,       \* Activity
    router,         \* AudioRouter: config and last_error
    ports,          \* the open host ports
    action,         \* audio_actions, a channel of one action
    shown,          \* the routing of the last published audio view, meters apart
    sent,           \* actions sent so far
    running         \* FALSE once a cycle failed: the worker closes

vars == <<access, activity, router, ports, action, shown, sent, running>>

-----------------------------------------------------------------------------
(* The routing policy (audio_topology.rs and the routing half of            *)
(* audio_lab.rs): which connectors a family has, which routes a routing     *)
(* state holds, and how the channels of a route are dealt out to host       *)
(* devices and collected from them. A block of samples is a sequence of     *)
(* interleaved samples, as in the code.                                     *)

JackDevices == {"mono-speaker", "stereo-speaker", "microphone", "headset"}
Families == {"Xbox360", "DualSense", "DualShock4", "SwitchPro", "WiiRemote", "Steam"}

OutputChannels(device) ==
    CASE device = "mono-speaker" -> 1
      [] device \in {"stereo-speaker", "headset"} -> 2
      [] device = "microphone" -> 0

InputChannels(device) == IF device \in {"microphone", "headset"} THEN 1 ELSE 0

\* AudioTopology::for_family.
Topology(family) ==
    CASE family = "Xbox360" -> [speaker |-> 0, microphone |-> 0, jack |-> TRUE]
      [] family = "DualSense" -> [speaker |-> 1, microphone |-> 2, jack |-> TRUE]
      [] family = "DualShock4" -> [speaker |-> 1, microphone |-> 0, jack |-> TRUE]
      [] family \in {"SwitchPro", "WiiRemote", "Steam"} ->
            [speaker |-> 0, microphone |-> 0, jack |-> FALSE]

Same(x, n) == [i \in 1 .. n |-> x]

OutputRoute(id, channels, sources) ==
    [id |-> id, channels |-> channels, enabled |-> TRUE, connected |-> TRUE,
     devices |-> Same("default", channels), map |-> sources, peak |-> 0]

InputRoute(id, channels, connected, targets) ==
    [id |-> id, channels |-> channels, enabled |-> FALSE, connected |-> connected,
     devices |-> Same("default", channels), map |-> targets, peak |-> 0]

\* set_jack_connected: both jack routes are made anew, so whatever the user had
\* chosen for them is forgotten; a route is kept for an empty jack's microphone.
SetJackConnected(r, connected, topology) ==
    LET outs == SelectSeq(r.outputs, LAMBDA o : o.id # "jack-output")
        ins == SelectSeq(r.inputs, LAMBDA i : i.id # "jack-microphone")
        n == OutputChannels(r.device)
        mic == connected /\ InputChannels(r.device) > 0
    IN [r EXCEPT
          !.jack = connected /\ topology.jack,
          !.outputs = IF topology.jack /\ connected /\ n > 0
              THEN Append(outs, OutputRoute("jack-output", n, [i \in 1 .. n |-> i]))
              ELSE outs,
          !.inputs = IF topology.jack
              THEN Append(ins, InputRoute("jack-microphone",
                       IF mic THEN InputChannels(r.device) ELSE InputChannels("headset"),
                       mic, <<1>>))
              ELSE ins]

\* select_jack_device: a device is plugged, or the jack is emptied.
SelectJackDevice(r, device, topology) ==
    IF device \in JackDevices
    THEN SetJackConnected([r EXCEPT !.device = device], TRUE, topology)
    ELSE SetJackConnected(r, FALSE, topology)

\* RoutingState::for_topology. Channel 0 in a map stands for None.
ForTopology(topology) ==
    LET empty == [jack |-> FALSE, device |-> "headset",
                  outputs |-> IF topology.speaker = 0 THEN <<>>
                      ELSE <<OutputRoute("onboard-speaker", topology.speaker,
                                         Same(0, topology.speaker))>>,
                  inputs |-> IF topology.microphone = 0 THEN <<>>
                      ELSE <<InputRoute("onboard-microphone", topology.microphone, TRUE,
                                        [i \in 1 .. topology.microphone |-> i])>>]
    IN SetJackConnected(empty, FALSE, topology)

FaultyConfiguration(r) == r

\* RoutingState::configuration: everything but the meters.
Configuration(r) ==
    LET still(routes) == [i \in DOMAIN routes |-> [routes[i] EXCEPT !.peak = 0]]
    IN [r EXCEPT !.outputs = still(@), !.inputs = still(@)]

\* output_device_groups and input_device_groups: the channels of a route by host
\* device, in the order in which the devices first appear.
DeviceGroups(route) ==
    LET channels == [i \in 1 .. route.channels |-> i]
        first(c) == \A d \in 1 .. c - 1 : route.devices[d] # route.devices[c]
        heads == SelectSeq(channels, first)
    IN [g \in DOMAIN heads |->
            [device |-> route.devices[heads[g]],
             channels |-> SelectSeq(channels,
                 LAMBDA c : route.devices[c] = route.devices[heads[g]])]]

\* select_output_channels: what one device is given of an interleaved block.
SelectOutputChannels(samples, n, channels) ==
    LET width == Len(channels)
    IN [k \in 1 .. (Len(samples) \div n) * width |->
            samples[((k - 1) \div width) * n + channels[((k - 1) % width) + 1]]]

\* collect_input_channels: the block whose channels came from several devices. The
\* first device decides its length; missing samples are silence.
CollectInputChannels(n, groups) ==
    LET frames == Len(groups[1].samples) \div Len(groups[1].channels)
        from == [c \in 1 .. n |-> {g \in DOMAIN groups : c \in ToSet(groups[g].channels)}]
        sample(f, c) ==
            IF from[c] = {} THEN 0
            ELSE LET g == groups[CHOOSE g \in from[c] : TRUE]
                     width == Len(g.channels)
                     at == (f - 1) * width + (CHOOSE i \in 1 .. width : g.channels[i] = c)
                 IN IF at \in DOMAIN g.samples THEN g.samples[at] ELSE 0
    IN [k \in 1 .. frames * n |-> sample(((k - 1) \div n) + 1, ((k - 1) % n) + 1)]

\* apply_channel_routes: every destination channel copies its source channel, or
\* is silent when it has none the source really has.
ApplyChannelRoutes(source, n, width, map) ==
    [k \in 1 .. (Len(source) \div n) * width |->
        LET c == map[((k - 1) % width) + 1]
        IN IF c \in 1 .. n THEN source[((k - 1) \div width) * n + c] ELSE 0]

Clip(x) == IF x > 32767 THEN 32767 ELSE IF x < -32768 THEN -32768 ELSE x

\* mix_channel_routes: every source channel is added to its destination, clipped.
MixChannelRoutes(source, n, block, width, map) ==
    [k \in DOMAIN block |->
        LET f == (k - 1) \div width
            c == ((k - 1) % width) + 1
            sources == SelectSeq([i \in 1 .. n |-> i],
                                 LAMBDA i : i \in DOMAIN map /\ map[i] = c)
        IN IF f * n + n > Len(source) THEN block[k]
           ELSE FoldSeq(LAMBDA i, sum : Clip(sum + source[f * n + i]), block[k], sources)]

\* sample_route_ownership: a direction the controller owns as a native client is
\* not routed by samples, and a route enabled for it is an error.
RouteOwnership(r, playback, capture) ==
    [playback |-> playback, capture |-> capture,
     refused |-> \/ ~playback /\ \E i \in DOMAIN r.outputs : r.outputs[i].enabled
                 \/ ~capture /\ \E i \in DOMAIN r.inputs : r.inputs[i].enabled]

-----------------------------------------------------------------------------
topology == Topology(Family)

NoAction == [kind |-> "none"]
NoConfig == [kind |-> "none"]

-----------------------------------------------------------------------------
(* Host ports.                                                              *)

Port(direction, route, channels) ==
    [direction |-> direction, route |-> route, channels |-> channels,
     child |-> "alive", thread |-> "runs", queue |-> 0, error |-> FALSE,
     offered |-> 0, taken |-> 0, dropped |-> 0]

\* OutputPort::write: a full queue drops the new block and counts it; a thread
\* that has ended takes nothing, one about to end still does.
Write(p) ==
    IF p.thread = "ended" THEN p
    ELSE IF p.queue = QueueLimit
    THEN [p EXCEPT !.offered = @ + 1, !.dropped = @ + 1]
    ELSE [p EXCEPT !.offered = @ + 1, !.queue = @ + 1]

\* CaptureQueue::push: a full queue drops its oldest block and counts it.
Push(p) ==
    IF p.queue = QueueLimit
    THEN [p EXCEPT !.offered = @ + 1, !.dropped = @ + 1]
    ELSE [p EXCEPT !.offered = @ + 1, !.queue = @ + 1]

FaultyReadNewest(p) == [p EXCEPT !.queue = 0, !.taken = @ + 1]

\* CaptureQueue::read_newest: the newest block is taken, the stale ones counted.
ReadNewest(p) ==
    [p EXCEPT !.queue = 0, !.taken = @ + 1, !.dropped = @ + p.queue - 1]

BlockLeft == FoldSeq(LAMBDA p, n : n + p.offered, 0, ports) < MaxBlocks

\* The output thread: one block is written to the child's pipe. A broken pipe is an
\* error and ends the loop; the block is gone and no counter has it.
PlayBlock(i) ==
    /\ ports[i].direction = "output" /\ ports[i].thread = "runs"
    /\ ports[i].queue > 0
    /\ ports' = [ports EXCEPT ![i] =
          IF @.child = "alive" THEN [@ EXCEPT !.queue = @ - 1, !.taken = @ + 1]
          ELSE [@ EXCEPT !.queue = @ - 1, !.error = TRUE, !.thread = "ending"]]

\* try_wait on a receive timeout, when nothing was played for a while.
OutputTimeout(i) ==
    /\ ports[i].direction = "output" /\ ports[i].thread = "runs"
    /\ ports[i].queue = 0 /\ ports[i].child = "dead"
    /\ ports' = [ports EXCEPT ![i] = [@ EXCEPT !.error = TRUE, !.thread = "ending"]]

\* The child is reaped and the closure returns; its receiver and all that still
\* waits in the channel go with it.
OutputEnds(i) ==
    /\ ports[i].direction = "output" /\ ports[i].thread = "ending"
    /\ ports' = [ports EXCEPT ![i] =
          [@ EXCEPT !.queue = 0, !.child = "dead", !.thread = "ended"]]

\* The input thread: a whole block was read and queued; a child found dead after
\* that ends the thread without an error.
CaptureBlock(i) ==
    /\ ports[i].direction = "input" /\ ports[i].thread = "runs"
    /\ BlockLeft
    /\ ports' = [ports EXCEPT ![i] =
          IF @.child = "alive" THEN Push(@) ELSE [Push(@) EXCEPT !.thread = "ended"]]

\* read_exact failed: the stream is over.
CaptureEnds(i) ==
    /\ ports[i].direction = "input" /\ ports[i].thread = "runs"
    /\ ports[i].child = "dead"
    /\ ports' = [ports EXCEPT ![i] =
          [@ EXCEPT !.thread = "ended", !.child = "dead", !.error = TRUE]]

PortThread(i) ==
    /\ i \in DOMAIN ports
    /\ PlayBlock(i) \/ OutputTimeout(i) \/ OutputEnds(i) \/ CaptureBlock(i) \/ CaptureEnds(i)
    /\ UNCHANGED <<access, activity, router, action, shown, sent, running>>

\* The host's audio program exits (external); bound: at most MaxExits of the open
\* ports have lost theirs.
ChildExits(i) ==
    /\ ports[i].child = "alive" /\ ports[i].thread = "runs"
    /\ Cardinality({j \in DOMAIN ports : ports[j].child = "dead"}) < MaxExits
    /\ ports' = [ports EXCEPT ![i].child = "dead"]
    /\ UNCHANGED <<access, activity, router, action, shown, sent, running>>

-----------------------------------------------------------------------------
(* The audio cycle of the service worker.                                   *)

\* update_provider_speaker_mapping: the controller's output report decides which
\* playback channel its own speaker plays.
SpeakerMapped(r, source) ==
    [r EXCEPT !.outputs = [i \in DOMAIN @ |->
        IF @[i].id = "onboard-speaker"
        THEN [@[i] EXCEPT !.map = Same(source, Len(@))] ELSE @[i]]]

Cleared(a) == [a EXCEPT !.pending = 0, !.accepted = 0]

\* Activity::apply: a flushed microphone and a switched tone both discard the part
\* of a block that was not accepted yet.
Apply(a, act) ==
    CASE act.kind = "flush" -> Cleared(a)
      [] act.kind = "tone" -> Cleared([a EXCEPT !.tone = act.on])
      [] act.kind = "routing" -> [a EXCEPT !.routing = act.routing]
      [] act.kind \in {"none", "retry"} -> a

\* The ports a routing asks for: one per device group of every route that is
\* enabled, connected and ours.
Wanted(r) ==
    LET own == RouteOwnership(r, access.playback, access.capture)
        of(direction, routes) ==
            UNION {{Port(direction, routes[i].id, g.channels) :
                        g \in ToSet(DeviceGroups(routes[i]))} :
                   i \in {j \in DOMAIN routes : routes[j].enabled /\ routes[j].connected}}
    IN (IF own.playback THEN of("output", r.outputs) ELSE {})
       \cup (IF own.capture THEN of("input", r.inputs) ELSE {})

\* AudioRouter::configure: an unchanged configuration leaves every stream alone;
\* otherwise all ports are dropped (their children killed, their threads joined)
\* and the wanted ones opened. Some may not open.
Config(r) ==
    [kind |-> "config", playback |-> access.playback, capture |-> access.capture,
     routing |-> Configuration(r)]

Unchanged(r) == router.config = Config(r) /\ action.kind # "retry"

Configured(r, refused) ==
    IF Unchanged(r) THEN router
    ELSE [config |-> Config(r),
          error |-> \/ RouteOwnership(r, access.playback, access.capture).refused
                    \/ refused # {}]

\* What a read of the controller's playback does to routes and ports: every
\* enabled route is mixed and offered to its ports, the others fall silent.
Played(routes, got) ==
    [i \in DOMAIN routes |-> [routes[i] EXCEPT !.peak =
        IF routes[i].enabled /\ got /\ Max({0} \cup ToSet(routes[i].map)) > 0 THEN 1 ELSE 0]]

Serves(r, p) ==
    LET routes == IF p.direction = "output" THEN r.outputs ELSE r.inputs
    IN \E i \in DOMAIN routes : routes[i].id = p.route /\ routes[i].enabled

Offered(r, opened, got) ==
    [i \in DOMAIN opened |->
        IF opened[i].direction = "output" /\ got /\ Serves(r, opened[i])
        THEN Write(opened[i]) ELSE opened[i]]

\* The routes that give microphone samples in this cycle, and the ports they read.
Heard(r, opened) ==
    {i \in DOMAIN opened : /\ opened[i].direction = "input"
                           /\ Serves(r, opened[i])
                           /\ opened[i].queue > 0}

HeardRoutes(r, opened) ==
    {i \in DOMAIN r.inputs : \E p \in Heard(r, opened) : opened[p].route = r.inputs[i].id}

Metered(r, opened) ==
    [i \in DOMAIN r.inputs |-> [r.inputs[i] EXCEPT !.peak =
        IF ~r.inputs[i].enabled THEN 0
        ELSE IF i \in HeardRoutes(r, opened) THEN 1 ELSE @]]

\* The block a cycle would send: from a route that reaches a microphone channel,
\* or the tone. It is only kept when nothing is left of the previous one.
Block(a, opened) ==
    IF a.tone THEN 2
    ELSE IF \E i \in HeardRoutes(a.routing, opened) :
                ToSet(a.routing.inputs[i].map) \cap (1 .. MicChannels) # {}
    THEN 1 ELSE 0

\* The pending block after n more of its parts were accepted.
Advanced(a, n) ==
    IF a.accepted + n = a.pending THEN Cleared(a) ELSE [a EXCEPT !.accepted = @ + n]

\* cycle and Activity::tick. The ports of an unchanged configuration are the open
\* ones, those of a new one are opened here. The view is published after it, unless
\* the interface holds the lock; only a new routing makes that visible.
Cycle ==
    /\ running
    /\ action.kind = "tone" => ~action.on \/ access.capture
    /\ \E source \in IF access.playback THEN {0, 1} ELSE {1},
          locked \in IF action.kind = "routing" THEN BOOLEAN ELSE {TRUE},
          got \in IF access.playback THEN BOOLEAN ELSE {FALSE} :
        LET a == [Apply(activity, action) EXCEPT !.routing =
                     IF action.kind = "routing" THEN @ ELSE SpeakerMapped(@, source)]
            kept == Unchanged(a.routing)
            wanted == Wanted(a.routing)
        IN /\ got => BlockLeft
           /\ \E refused \in IF kept THEN {{}} ELSE {{}, wanted} :
              /\ router' = Configured(a.routing, refused)
              /\ LET opened == IF kept THEN ports ELSE SetToSeq(wanted \ refused)
                     r == [a.routing EXCEPT
                             !.outputs = IF access.playback THEN Played(@, got) ELSE @,
                             !.inputs = IF access.capture
                                        THEN Metered(a.routing, opened) ELSE @]
                     block == IF access.capture THEN Block(a, opened) ELSE 0
                     b == [a EXCEPT !.routing = r,
                                    !.pending = IF @ = 0 THEN block ELSE @]
                     heard == IF access.capture THEN Heard(a.routing, opened) ELSE {}
                     played == Offered(a.routing, opened, got)
                 IN /\ ports' = [i \in DOMAIN opened |->
                          IF i \in heard THEN ReadNewest(opened[i]) ELSE played[i]]
                    /\ \E n \in IF b.pending = 0 THEN {0} ELSE 0 .. (b.pending - b.accepted) :
                          activity' = [(IF b.pending = 0 THEN b ELSE Advanced(b, n))
                              EXCEPT !.error = router'.error
                                  \/ \E i \in DOMAIN opened : opened[i].error]
                    /\ shown' = IF locked THEN Configuration(r) ELSE shown
    /\ action' = NoAction
    /\ UNCHANGED <<access, sent, running>>

\* A tone without a microphone of ours, a flush, a read or a write that fails: the
\* worker reports it, closes, and its ports are dropped with it.
CycleFails ==
    /\ running
    /\ running' = FALSE
    /\ ports' = <<>>
    /\ UNCHANGED <<access, activity, router, action, shown, sent>>

-----------------------------------------------------------------------------
(* The user, through the last audio view shown.                             *)

\* One edit of the routing panel: a route switched, a channel moved to another
\* device, something plugged into the jack or out of it.
RouteEdits(route) ==
    {[route EXCEPT !.enabled = ~@]} \cup
    ({[route EXCEPT !.devices[c] = d] : c \in DOMAIN route.devices, d \in Devices} \ {route})

Edits(r) ==
    {[r EXCEPT !.outputs[i] = e] : <<i, e>> \in
        UNION {{<<i, e>> : e \in RouteEdits(r.outputs[i])} : i \in DOMAIN r.outputs}}
    \cup {[r EXCEPT !.inputs[i] = e] : <<i, e>> \in
        UNION {{<<i, e>> : e \in RouteEdits(r.inputs[i])} : i \in DOMAIN r.inputs}}
    \cup {SelectJackDevice(r, device, topology) : device \in
              IF topology.jack THEN Plugs \cup {"nothing"} ELSE {}}

Send(act) ==
    /\ running
    /\ action = NoAction
    /\ sent < MaxActions
    /\ action' = act
    /\ sent' = sent + 1
    /\ UNCHANGED <<access, activity, router, ports, shown, running>>

UserActs ==
    \/ Send([kind |-> "flush"])
    \/ \E on \in BOOLEAN : Send([kind |-> "tone", on |-> on])
    \/ Send([kind |-> "retry"])
    \/ \E r \in Edits(shown) : Send([kind |-> "routing", routing |-> r])

Init ==
    /\ access \in {[playback |-> TRUE, capture |-> FALSE],
                   [playback |-> FALSE, capture |-> TRUE]}
    /\ activity = [routing |-> ForTopology(topology), tone |-> FALSE, pending |-> 0,
                   accepted |-> 0, error |-> FALSE]
    /\ router = [config |-> NoConfig, error |-> FALSE]
    /\ ports = <<>>
    /\ action = NoAction
    /\ shown = ForTopology(topology)
    /\ sent = 0
    /\ running = TRUE

Next ==
    \/ Cycle \/ CycleFails
    \/ UserActs
    \/ \E i \in DOMAIN ports : PortThread(i) \/ ChildExits(i)

Spec == Init /\ [][Next]_vars

-----------------------------------------------------------------------------
\* Blocks a port took in that were neither played nor handed on nor counted as
\* dropped, and that do not wait either.
Lost(p) == p.offered - (p.taken + p.dropped + p.queue)

\* A port loses nothing uncounted while its thread runs, and no input port ever
\* does. An output port whose thread ends loses the block it was writing, and what waits
\* in its channel only when the thread is gone; it shows an error from before the first
\* of them is lost. At most QueueLimit wait (OutputPort::open, write, CaptureQueue).
BlocksConserved ==
    \A i \in DOMAIN ports : LET p == ports[i] IN
        /\ p.queue \in 0 .. QueueLimit
        /\ Lost(p) >= 0
        /\ Lost(p) > 1 => p.thread = "ended"
        /\ Lost(p) > 0 => p.direction = "output" /\ p.thread # "runs" /\ p.error

\* The unaccepted rest of a microphone block is always a suffix of that block:
\* whatever is flushed or switched in between, no offset outlives its block.
PendingSound ==
    activity.accepted < activity.pending \/ activity.accepted + activity.pending = 0

\* Between two cycles every channel of a route that is enabled, connected and ours
\* has exactly one port, or an error is shown; no other port is open.
RoutesServed ==
    LET r == activity.routing
        want == {[d |-> p.direction, route |-> p.route, channels |-> p.channels] :
                     p \in Wanted(r)}
        have == {[d |-> ports[i].direction, route |-> ports[i].route,
                  channels |-> ports[i].channels] : i \in DOMAIN ports}
    IN running /\ router.config # NoConfig =>
          /\ have \subseteq want
          /\ have = want \/ router.error
          /\ Cardinality(have) = Len(ports)

\* Meters change in every cycle; host streams are restarted, and what they queue
\* lost, only when something else changes or the user asks for it
\* (AudioRouter::configure).
StreamKept ==
    (\E i \in DOMAIN ports : i \in DOMAIN ports' => ports'[i].offered < ports[i].offered)
    => \/ ~running'
       \/ action.kind = "retry"
       \/ \E side \in {"outputs", "inputs"} :
             LET before == activity.routing[side]
                 after == activity'.routing[side]
             IN \/ DOMAIN before # DOMAIN after
                \/ \E i \in DOMAIN before :
                      [before[i] EXCEPT !.peak = 0] # [after[i] EXCEPT !.peak = 0]

\* See StreamKept.
StreamsKept == [][StreamKept]_vars

\* Two frames of the controller's stereo sound.
StereoBlock == <<1, 20000, -30000, 4>>

\* What an output route's own map sends out, mixed back by the same map, is every
\* stereo channel once for each destination that copies it, clipped
\* (apply_channel_routes, mix_channel_routes).
MapsAgree(route) ==
    LET heard == ApplyChannelRoutes(StereoBlock, 2, route.channels, route.map)
        back == MixChannelRoutes(heard, route.channels, Same(0, 4), 2, route.map)
        copies(c) == Cardinality({i \in 1 .. route.channels : route.map[i] = c})
    IN \A k \in 1 .. 4 : back[k] = Clip(StereoBlock[k] * copies(((k - 1) % 2) + 1))

\* Dealing a block out to the host devices of a route and collecting it again
\* gives the block back, every sample in its channel (device groups,
\* select_output_channels, collect_input_channels); see MapsAgree.
ChannelsInPlace ==
    /\ \A i \in DOMAIN activity.routing.outputs : MapsAgree(activity.routing.outputs[i])
    /\ \A side \in {"outputs", "inputs"} : \A i \in DOMAIN activity.routing[side] :
           LET route == activity.routing[side][i]
               block == [k \in 1 .. 2 * route.channels |-> k]
               groups == DeviceGroups(route)
               dealt == [g \in DOMAIN groups |->
                           [channels |-> groups[g].channels,
                            samples |-> SelectOutputChannels(block, route.channels,
                                                             groups[g].channels)]]
           IN CollectInputChannels(route.channels, dealt) = block
=============================================================================
