--------------------------- MODULE MCControllers ----------------------------
(* The controller personalities: the four gamepads on the targets each of  *)
(* them has, whose constants are in the configuration, the Wii Remote and  *)
(* the Steam Controller. All components are there in every behaviour and   *)
(* one of them, part, runs; the variables of the others stay as they are.  *)
EXTENDS GamepadSession

CONSTANTS
  Parts   \* the components that may run

VARIABLES part, wiiTarget, options, wiiState, wiiDirty, wiiProto, wiiQueue, wiiInbox,
          wiiClosed, resolution, topology, nodes, shown, host, edits, attachments, events,
          refused, steamTarget, compat, steamState, steamDirty, steamProto, retained,
          steamQueue, steamInbox, now, steamClosed, steamShown, steamHost,
          steamEdits, steamEvents, beat

MCImage == [i \in 1..18 |-> 0]

MCCamera == [r \in {0, 26, 48, 51} |-> IF r = 48 THEN 8 ELSE IF r = 51 THEN 1 ELSE 0]

MCCalibration == [motion_plus |-> [i \in 1..32 |-> i], nunchuk |-> [i \in 1..16 |-> 100 + i], classic |-> << >>]

MCNunchuk == [kind |-> "nunchuk", stick |-> <<128, 128>>, accel |-> <<1023, 2, 5>>, buttons |-> {"c"}]
MCClassic == [kind |-> "classic", left |-> <<63, 0>>, right |-> <<29, 1>>, triggers |-> <<0, 0>>, buttons |-> {"Up"}]

MCAttachments == {<<[kind |-> "none"], FALSE>>, <<MCNunchuk, TRUE>>, <<MCClassic, TRUE>>}

MCEdits ==
  {[buttons |-> {"A", "Home"}, accel |-> <<1023, 513, 6>>, ir |-> <<<<1023, 767>>, <<>>, <<5, 300>>, <<>>>>], << >>}

MCOptions ==
  {[reattach_status |-> TRUE, external_id |-> FALSE, id_mirror |-> TRUE, calibration_copy |-> TRUE]}

\* Host reports: a write, a read and a change of the data mode.
W(space, slave, offset, data) ==
  [id |-> 22, short |-> FALSE, rumble |-> FALSE, w |-> [space |-> space, slave |-> slave, offset |-> offset, data |-> data]]
R(space, slave, address, remaining) ==
  [id |-> 23, short |-> FALSE, rumble |-> FALSE, r |-> [space |-> space, slave |-> slave, address |-> address, remaining |-> remaining]]
M(mode, ack) == [id |-> 18, short |-> FALSE, rumble |-> TRUE, ack |-> ack, mode |-> mode]

MCOutputs ==
  {W(0, 0, 1, <<7>>), W(1, 82, 240, <<85>>), W(1, 82, 251, <<0>>), W(1, 83, 254, <<5>>),
   R(0, 0, 0, 18),
   M(55, TRUE), M(62, FALSE),
   [id |-> 19, short |-> FALSE, rumble |-> FALSE, ack |-> TRUE, on |-> TRUE]}

MCRequests ==
  {[id |-> 21, short |-> FALSE, rumble |-> FALSE],
   [id |-> 17, short |-> TRUE, rumble |-> FALSE, ack |-> TRUE, leds |-> {1}]}

MCWords == {-32768, 300, 32767}
\* Every component at both ends of its range, and between them.
MCMotion == {<<-32768, 32767, -901>>, <<-901, -32768, 32767>>, <<32767, -901, -32768>>}
MCContacts == {[id |-> 1, x |-> 0, y |-> 941], [id |-> 200, x |-> 1919, y |-> 300],
               [id |-> 3, x |-> 1920, y |-> 10]}

\* A Steam state at its extremes, and one with a trigger that is refused.
MCSamples ==
  LET pad == [position |-> <<0, 0>>, pressure |-> 0, touch |-> FALSE, click |-> FALSE]
      rest == [buttons |-> {}, sticks |-> <<<<0, 0>>, <<0, 0>>>>, triggers |-> <<0, 0>>, pads |-> <<pad, pad>>,
               stick_touch |-> <<FALSE, FALSE>>, grip_touch |-> <<FALSE, FALSE>>, motion |-> 0]
  IN {[rest EXCEPT !.buttons = {"A", "Steam"}, !.sticks = <<<<-32768, -32768>>, <<32767, 5>>>>,
                   !.triggers = <<32767, 1>>, !.pads[1].position = <<-32768, 7>>, !.pads[1].touch = TRUE,
                   !.pads[2].click = TRUE, !.stick_touch[1] = TRUE],
      [rest EXCEPT !.triggers = <<-1, 0>>]}

MCPackets ==
  {[kind |-> "configure", op |-> o, target |-> "internal"] : o \in {"start", "stop"}}
    \cup {[kind |-> "configure", op |-> "start", target |-> "pads"],
          [kind |-> "mono", slot |-> 2, n |-> 1], [kind |-> "stereo", n |-> 2]}

\* One input edit, one change of the extension port and three host reports.
Wii == INSTANCE WiiRemote WITH
  Image <- MCImage, Calibration <- MCCalibration, Plugged <- MCNunchuk, Camera <- MCCamera,
  Window <- 5888, Attachments <- MCAttachments, Edits <- MCEdits, Outputs <- MCOutputs,
  Requests <- MCRequests, Revisions <- {"tr"}, Options <- MCOptions, MaxPending <- 4,
  InputQueue <- 8, MaxEdits <- 1, MaxAttachments <- 1, MaxEvents <- 3, MaxRefused <- 1,
  target <- wiiTarget, state <- wiiState, dirty <- wiiDirty, proto <- wiiProto,
  queue <- wiiQueue, inbox <- wiiInbox, closed <- wiiClosed

\* A haptic FIFO of three bytes and packets of one and two, five of which may come: it
\* overflows, runs dry and fills again, and is stopped and started anew.
Steam == INSTANCE SteamController WITH
  Capacity <- 3, HighWater <- 2, LowWater <- 1, StartDelay <- 1, RateBytes <- 5, RateTicks <- 2,
  MaxFeedback <- 3, Samples <- MCSamples, Buttons <- {"X"}, Packets <- MCPackets,
  Counter <- 2, MaxEdits <- 1, MaxEvents <- 5, MaxTime <- 2, EventCost <- 2, target <- steamTarget,
  state <- steamState, dirty <- steamDirty, proto <- steamProto, queue <- steamQueue,
  inbox <- steamInbox, closed <- steamClosed, shown <- steamShown, host <- steamHost,
  edits <- steamEdits, events <- steamEvents

\* A component that does not run.
PadsOff == fam = 0 /\ target = 0 /\ state = 0 /\ edited = 0 /\ hstate = 0 /\ dirty = 0
    /\ queue = 0 /\ proto = 0 /\ inbox = 0 /\ frame = 0 /\ owed = 0 /\ latest = 0 /\ asked = 0
    /\ changes = 0 /\ calls = 0 /\ closed = 0
WiiOff == wiiTarget = 0 /\ options = 0 /\ wiiState = 0 /\ wiiDirty = 0 /\ wiiProto = 0
    /\ wiiQueue = 0 /\ wiiInbox = 0 /\ wiiClosed = 0 /\ resolution = 0 /\ topology = 0
    /\ nodes = 0 /\ shown = 0 /\ host = 0 /\ edits = 0 /\ attachments = 0 /\ events = 0
    /\ refused = 0
SteamOff == steamTarget = 0 /\ compat = 0 /\ steamState = 0 /\ steamDirty = 0
    /\ steamProto = 0 /\ retained = 0 /\ steamQueue = 0 /\ steamInbox = 0 /\ now = 0
    /\ steamClosed = 0 /\ steamShown = 0 /\ steamHost = 0 /\ steamEdits = 0
    /\ steamEvents = 0 /\ beat = 0

AllInit ==
  /\ part \in Parts
  /\ IF part = "pads" THEN Init ELSE PadsOff
  /\ IF part = "wii" THEN Wii!Init ELSE WiiOff
  /\ IF part = "steam" THEN Steam!Init ELSE SteamOff

padsVars == vars
wiiVars == <<wiiTarget, options, wiiState, wiiDirty, wiiProto, wiiQueue, wiiInbox, wiiClosed,
    resolution, topology, nodes, shown, host, edits, attachments, events, refused>>
steamVars == <<steamTarget, compat, steamState, steamDirty, steamProto, retained, steamQueue,
    steamInbox, now, steamClosed, steamShown, steamHost, steamEdits, steamEvents,
    beat>>

PadsAlone == part = "pads" /\ UNCHANGED <<part, wiiVars, steamVars>>
WiiAlone == part = "wii" /\ UNCHANGED <<part, padsVars, steamVars>>
SteamAlone == part = "steam" /\ UNCHANGED <<part, padsVars, wiiVars>>


AllNext ==
  \/ PadsAlone /\ Next
  \/ WiiAlone /\ Wii!Next
  \/ SteamAlone /\ Steam!Next

allVars == <<part, padsVars, wiiVars, steamVars>>

AllSpec == AllInit /\ [][AllNext]_allVars

-----------------------------------------------------------------------------
\* What a settled gamepad shows is the state the application set, after one edit and after
\* another on top of it: the host's driver reads it from every report (encode of each
\* family, the worker's codec), with the ends of every range and the one exception of
\* HostReadsState, and the uinput nodes show it through the tables they advertise, in the
\* declared ranges (split_frame).
PadsShowState == part = "pads" => HostReadsState /\ EvdevTruthful

\* What a gamepad keeps for its host over UHID is right: the retained outputs are what the
\* host last asked of each group and the revision counts the changes; every reply a Switch
\* host is owed is on its way, in order and once, with the input of the last report before
\* it; and a report stream it asked for has a report on its way or a deadline. Over dummy_hcd
\* a Switch answers in order until the provider refuses a reply, which loses the rest.
PadsServeHost == part = "pads" => RetainedAgree /\ RepliesInOrder /\ StreamAlive

\* A Wii Remote shows its current inputs in every report mode and on every uinput node,
\* through mode changes, accessory swaps, MotionPlus forwarding and failed commits (data,
\* extensions::packet, Nodes::commit).
WiiShowsState == part = "wii" => Wii!WiiReadsState /\ Wii!NodesShowState

\* A Wii host never takes an accessory for initialised that was replaced or reset since;
\* acknowledgements and read chunks come in order, once and whole; the EEPROM snapshot has
\* every write the device accepted (change_attachment, accept_inner, ResourceSession).
WiiServesHost == part = "wii" => Wii!AttachmentAgreed /\ Wii!AnsweredInOrder /\ Wii!SnapshotHonest

\* What the Steam Controller tells its host is true: the settled input is the state the
\* application set, on both targets; the settings are the ones acknowledged and a GET
\* answers the SET before it; the feedback gives the water level of every haptic channel,
\* never the same watermark twice in a row, and every channel that overran; no FIFO holds
\* more than its capacity (StreamState::push, watermark, advance).
SteamTruthful == part = "steam" => Steam!SteamReadsState /\ Steam!FeatureHonest /\ Steam!FeedbackTruthful
=============================================================================
