-------------------------- MODULE SteamController --------------------------
(***************************************************************************)
(* One open Steam Controller (2026): the HID personality in the HID        *)
(* runtime on `uhid`, or the reduced evdev device on `uinput`. The host    *)
(* sets and reads feature report 1, sends haptic commands and PCM packets, *)
(* and reads input and feedback reports. Bytes of fields that no decision  *)
(* reads are left out; a report is a record of what it means. A batch, the *)
(* input and at most MaxFeedback + 4 statuses, fits the runtime's queue.   *)
(***************************************************************************)
EXTENDS Integers, Sequences, FiniteSets, SequencesExt

CONSTANTS
  Capacity, HighWater, LowWater,  \* FIFO bytes: 0 < LowWater < HighWater <= Capacity
  StartDelay,                     \* ticks between the first byte and playing
  RateBytes, RateTicks,           \* RateBytes are played in RateTicks
  MaxFeedback,                    \* statuses held before Busy
  Samples,     \* states offered to set_inputs, valid or not
  Buttons,     \* digital controls offered to set_button
  Packets,     \* PCM packets of the host
  Counter,     \* report sequence numbers, 256 in the code
  MaxEdits, MaxEvents, MaxTime, \* bounds
  EventCost    \* what a host event or a streaming edit spends of MaxEvents; a PCM packet spends one

----------------------------------------------------------------------------
(* The haptic PCM stream: four channels with a bounded FIFO each, drained  *)
(* at a fixed rate once a start delay is over, and the queue of status     *)
(* feedback the host reads. Every operation is transactional: it returns   *)
(* the next stream or an error and no stream.                              *)

Never == -1

\* Feedback IDs [0, 1, 3, 4] are slots 1 to 4.
Slots == 1..4

\* Results: Done with the next stream or Fail with a reply error.
Done(s) == [ok |-> TRUE, s |-> s]
Fail(e) == [ok |-> FALSE, error |-> e]
Bind(r, Op(_)) == IF r.ok THEN Op(r.s) ELSE r

IdleChannel ==
  [configured |-> FALSE, buffered |-> 0, playing |-> FALSE, start |-> Never, fraction |-> 0,
   high |-> "unknown"]

NewStream(on) ==
  [enabled |-> on, ch |-> [i \in Slots |-> IdleChannel], received |-> [i \in Slots |-> 0],
   overrun |-> [i \in Slots |-> 0], feedback |-> << >>, last |-> << >>, now |-> 0]

Reset(s, now) ==
  [s EXCEPT !.ch = [i \in Slots |-> IdleChannel], !.feedback = << >>, !.now = now]

Tell(s, i, status) ==
  IF Len(s.feedback) >= MaxFeedback THEN Fail("busy")
  ELSE Done([s EXCEPT !.feedback = Append(@, <<i, status>>)])

\* A watermark is reported when it is crossed, not while it is held.
Level(c) ==
  CASE c.buffered >= HighWater -> "high" [] c.buffered <= LowWater -> "low" [] OTHER -> c.high

Watermark(s, i) ==
  IF Level(s.ch[i]) = s.ch[i].high THEN Done(s)
  ELSE Tell([s EXCEPT !.ch[i].high = Level(s.ch[i])], i, Level(s.ch[i]))

\* FaultyPush keeps what does not fit.
FaultyPush(s, i, n) ==
  LET space == Capacity - s.ch[i].buffered
      counted == [s EXCEPT !.received[i] = @ + n, !.overrun[i] = @ + Max({0, n - space})]
      fill(t) == Watermark([t EXCEPT !.ch[i].start = IF t.ch[i].buffered = 0 THEN t.now + StartDelay ELSE @,
                                     !.ch[i].buffered = @ + n], i)
  IN IF ~s.ch[i].configured THEN Fail("invalid")
     ELSE Bind(IF n > space THEN Tell(counted, i, "overrun") ELSE Done(counted), fill)

\* What does not fit is counted, reported and dropped.
Push(s, i, n) ==
  LET space == Capacity - s.ch[i].buffered
      counted == [s EXCEPT !.received[i] = @ + n, !.overrun[i] = @ + Max({0, n - space})]
      fill(t) == Watermark([t EXCEPT !.ch[i].start = IF t.ch[i].buffered = 0 THEN t.now + StartDelay ELSE @,
                                     !.ch[i].buffered = @ + Min({n, space})], i)
  IN IF ~s.ch[i].configured THEN Fail("invalid")
     ELSE Bind(IF n > space THEN Tell(counted, i, "overrun") ELSE Done(counted), fill)

Stopped(s, i) == [s EXCEPT !.ch[i] = IdleChannel]

Configure(s, i, p) ==
  CASE p.op = "stop" -> Tell(Stopped(s, i), i, "empty")
    [] p.op # "stop" /\ p.target = "pads" -> Tell(s, i, "rejected")
    [] OTHER -> IF s.ch[i].configured THEN Fail("busy")
                ELSE Tell([s EXCEPT !.ch[i] = [IdleChannel EXCEPT !.configured = TRUE]], i, "configured")

\* Packets: configure a pair of slots, or data for one slot or for both.
Apply(s, p) ==
  CASE p.kind = "configure" ->
         LET pair == IF p.target = "internal" THEN <<2, 1>> ELSE <<4, 3>> IN
         Bind(Configure(s, pair[1], p), LAMBDA t : Configure(t, pair[2], p))
    [] p.kind = "mono" -> Push(s, p.slot, p.n)
    [] p.kind = "stereo" -> Bind(Push(s, 1, p.n), LAMBDA t : Push(t, 2, p.n))

\* One channel plays from the last call, or from its start, until now: the
\* channel it leaves and the status it reports, if any.
Play(c, last, now) ==
  LET from == IF c.playing THEN last ELSE IF c.start # Never /\ c.start <= now THEN c.start ELSE Never
      units == (now - from) * RateBytes + c.fraction
      left == c.buffered - Min({units \div RateTicks, c.buffered})
      played == [c EXCEPT !.playing = TRUE, !.start = Never, !.fraction = units % RateTicks,
                          !.buffered = left]
  IN CASE ~c.configured \/ c.buffered = 0 \/ from = Never -> [ch |-> c, status |-> << >>]
       [] OTHER -> IF left = 0
                   THEN [ch |-> [IdleChannel EXCEPT !.configured = TRUE], status |-> <<"empty">>]
                   ELSE [ch |-> [played EXCEPT !.high = Level(played)],
                         status |-> IF Level(played) = c.high THEN << >> ELSE <<Level(played)>>]

\* All channels in order; the call fails when their statuses do not fit.
Advance(s, now) ==
  LET plays == [i \in Slots |-> Play(s.ch[i], s.now, now)]
      told(i) == [k \in 1..Len(plays[i].status) |-> <<i, plays[i].status[k]>>]
      feedback == s.feedback \o told(1) \o told(2) \o told(3) \o told(4)
  IN IF Len(feedback) > MaxFeedback THEN Fail("busy")
     ELSE Done([s EXCEPT !.ch = [i \in Slots |-> plays[i].ch], !.feedback = feedback, !.now = now])

\* A packet is applied as a whole or not at all.
Accept(s, p, now) ==
  IF ~s.enabled THEN Fail("unsupported")
  ELSE Bind(Bind(Advance(s, now), LAMBDA t : Apply(t, p)), LAMBDA t : Done([t EXCEPT !.last = <<p>>]))

\* The statuses to report by now, with the stream they leave.
Poll(s, now) ==
  LET r == Advance([s EXCEPT !.feedback = << >>], now) IN
  Bind(r, LAMBDA t : Done([stream |-> [t EXCEPT !.feedback = << >>], reports |-> s.feedback \o t.feedback]))

StreamDeadline(s) ==
  IF s.feedback # << >> THEN s.now
  ELSE LET due == {IF s.ch[i].playing THEN s.now + 1 ELSE s.ch[i].start :
                     i \in {i \in Slots : s.ch[i].buffered # 0}}
       IN IF due = {} THEN Never ELSE Min(due)

----------------------------------------------------------------------------
VARIABLES
  target, compat,  \* creation: the target and the steam_client_compat option
  state, dirty,    \* Runtime or ControllerRuntime: inputs, not yet encoded
  proto,           \* SteamProtocol: see NewProtocol
  retained,        \* SteamController2026Outputs: what the application reads
  queue,           \* Runtime.pending: reports not yet taken by the transport
  inbox,           \* the next host event, or << >>
  now, closed,
  shown,           \* the last input report or frame at the host, or << >>
  host,            \* what the host knows: see Init
  edits, events,   \* spent of MaxEdits, MaxEvents
  beat             \* alternates with every call of service while an edit waits

vars == <<target, compat, state, dirty, proto, retained, queue, inbox, now, closed, shown, host,
          edits, events, beat>>

None == "none"

----------------------------------------------------------------------------
(* Inputs: SteamController2026State and its two encodings.                 *)

ButtonBit ==
  [A |-> 0, B |-> 1, X |-> 2, Y |-> 3, Qam |-> 4, RightStick |-> 5, Menu |-> 6, R4 |-> 7, R5 |-> 8,
   RightShoulder |-> 9, Down |-> 10, Right |-> 11, Left |-> 12, Up |-> 13, View |-> 14,
   LeftStick |-> 15, Steam |-> 16, L4 |-> 17, L5 |-> 18, LeftShoulder |-> 19, RightTrigger |-> 23,
   LeftTrigger |-> 27]

NeutralInputs ==
  [buttons |-> {}, sticks |-> <<<<0, 0>>, <<0, 0>>>>, triggers |-> <<0, 0>>,
   pads |-> [i \in 1..2 |-> [position |-> <<0, 0>>, pressure |-> 0, touch |-> FALSE, click |-> FALSE]],
   stick_touch |-> <<FALSE, FALSE>>, grip_touch |-> <<FALSE, FALSE>>, motion |-> 0]

\* Bits of the report's button word: touches and clicks beside the buttons.
ButtonBits(s) ==
  {ButtonBit[b] : b \in s.buttons}
    \cup UNION {IF p[1] THEN {p[2]} ELSE {} :
                  p \in {<<s.stick_touch[2], 20>>, <<s.pads[2].touch, 21>>, <<s.pads[2].click, 22>>,
                         <<s.stick_touch[1], 24>>, <<s.pads[1].touch, 25>>, <<s.pads[1].click, 26>>,
                         <<s.grip_touch[2], 28>>, <<s.grip_touch[1], 29>>}}

ValidTriggers(s) == \A i \in 1..2 : s.triggers[i] >= 0

\* Signed words travel as their low sixteen bits.
Word(v) == v % 65536

\* Report 0x42.
Input42(s, seq) ==
  [id |-> 66, seq |-> seq, bits |-> ButtonBits(s),
   words |-> [i \in 1..6 |-> Word((s.triggers \o s.sticks[1] \o s.sticks[2])[i])],
   pads |-> [i \in 1..2 |-> [position |-> <<Word(s.pads[i].position[1]), Word(s.pads[i].position[2])>>,
                             pressure |-> s.pads[i].pressure]],
   motion |-> s.motion]

EvdevButtons ==
  [A |-> 304, B |-> 305, X |-> 307, Y |-> 308, Qam |-> 294, RightStick |-> 318, Menu |-> 315,
   R4 |-> 549, R5 |-> 551, RightShoulder |-> 311, Down |-> 545, Right |-> 547, Left |-> 546,
   Up |-> 544, View |-> 314, LeftStick |-> 317, Steam |-> 316, L4 |-> 548, L5 |-> 550,
   LeftShoulder |-> 310, RightTrigger |-> 313, LeftTrigger |-> 312]

\* Declared keys and axis ranges of the uinput device.
Realization ==
  [keys |-> {EvdevButtons[b] : b \in DOMAIN EvdevButtons} \cup {289, 290},
   axes |-> [a \in {0, 1, 3, 4, 16, 17, 18, 19, 20, 21} |->
               IF a >= 20 THEN 0..32767 ELSE -32767..32767]]

Clamp(v) == Max({-32767, Min({32767, v})})

EvdevFrame(s) ==
  [keys |-> {EvdevButtons[b] : b \in s.buttons}
              \cup {k \in {289, 290} : s.pads[k - 288].click},
   axes |-> [a \in DOMAIN Realization.axes |-> Clamp(
     CASE a = 0 -> s.sticks[1][1] [] a = 1 -> -s.sticks[1][2]
       [] a = 3 -> s.sticks[2][1] [] a = 4 -> -s.sticks[2][2]
       [] a \in 16..19 -> LET p == s.pads[1 + (a - 16) \div 2] IN
                          IF p.touch THEN p.position[1 + (a % 2)] ELSE 0
       [] a = 20 -> s.triggers[2] [] a = 21 -> s.triggers[1])]]

----------------------------------------------------------------------------
(* Feature report 1. A SET is a command with arguments; the device keeps   *)
(* the settings it accepts and at most one question for the next GET.      *)

\* Switches are 0 or 1; a setting the device was never told is Unset.
Unset == -1
NoSettings == [mappings |-> Unset, lizard |-> Unset, watchdog |-> Unset, imu |-> Unset,
               rgbw |-> Unset, compat |-> << >>]

ClientKeys == {7, 8, 9, 24, 34, 35, 45, 46, 48, 49, 50, 52, 53, 82, 84, 85}

\* What one key of the 0x87 list may hold.
SettingVerdict(key, value) ==
  CASE key = 9 -> IF value <= 1 THEN "ok" ELSE "invalid"
    [] key = 37 /\ compat -> IF value <= 1 THEN "ok" ELSE "invalid"
    [] key \in {48, 71} -> "ok"
    [] key \notin {9, 37, 48, 71} /\ compat /\ key \in ClientKeys -> "ok"
    [] OTHER -> "unsupported"

\* The settings after one accepted key.
Set(o, key, value) ==
  LET named == CASE key = 9 -> [o EXCEPT !.lizard = value]
                 [] key = 48 -> [o EXCEPT !.imu = value]
                 [] key = 71 -> [o EXCEPT !.watchdog = value]
                 [] OTHER -> o
  IN IF compat THEN [named EXCEPT !.compat = [k \in DOMAIN @ \cup {key} |-> IF k = key THEN value ELSE @[k]]]
     ELSE named

\* The first key that is refused ends the list.
FirstBad(list) == SelectSeq(list, LAMBDA kv : SettingVerdict(kv[1], kv[2]) # "ok")

\* The settings after command c, or why it is refused. Commands of the client
\* profile are unknown without it.
Settings(o, c) ==
  CASE c.op \in {"foreign"} -> Fail("unsupported")
    [] c.op \in {"short", "malformed"} -> Fail("invalid")
    [] c.op \in {"serial", "attributes"} -> Done(o)
    [] c.op \in {"probe", "named", "ledcolor", "ledoverride"} /\ compat -> Done(o)
    [] c.op = "rgbw" /\ compat -> Done([o EXCEPT !.rgbw = c.v])
    [] c.op = "mappings" -> Done([o EXCEPT !.mappings = c.v])
    [] c.op = "restore" -> Done([o EXCEPT !.lizard = Unset, !.imu = Unset, !.watchdog = Unset,
                                          !.compat = << >>])
    [] c.op = "settings" ->
         IF FirstBad(c.list) # << >>
         THEN Fail(SettingVerdict(FirstBad(c.list)[1][1], FirstBad(c.list)[1][2]))
         ELSE Done(FoldLeft(LAMBDA a, kv : Set(a, kv[1], kv[2]), o, c.list))
    [] OTHER -> Fail("unsupported")

Known(c) ==
  c.op \in {"foreign", "short", "malformed", "serial", "attributes", "mappings", "restore", "settings"}
    \/ (compat /\ c.op \in {"probe", "named", "ledcolor", "ledoverride", "rgbw"})

\* The question a SET leaves; every other SET, refused or not, leaves none.
Question(c) ==
  CASE ~Known(c) -> "unknown"
    [] c.op \in {"serial", "attributes"} -> c.op
    [] c.op \in {"named", "ledcolor", "ledoverride"} -> c.op
    [] OTHER -> None

Feature(p, c) ==
  LET r == Settings(p.outputs, c) IN
  [p EXCEPT !.query = Question(c), !.outputs = IF r.ok THEN r.s ELSE @]

Setting(o, key) == IF key \in DOMAIN o.compat THEN o.compat[key] ELSE Unset

\* The body of the answer to a GET, or << >> for an error.
GetFeature(p) ==
  CASE p.query = None -> << >>
    [] p.query = "ledoverride" -> <<"ledoverride", Setting(p.outputs, 37) = 1>>
    [] OTHER -> <<p.query>>

----------------------------------------------------------------------------
(* SteamProtocol and SteamHidProtocol.                                     *)

NewProtocol(streaming) ==
  [stream |-> NewStream(streaming), haptics |-> [i \in 0..1 |-> Unset], outputs |-> NoSettings,
   query |-> None, stopped |-> FALSE, framed |-> TRUE, refresh |-> Never, seq |-> 0]

\* Output reports: haptic commands 0x80 to 0x85, PCM packets 0x86 to 0x88.
AcceptOutput(p, r) ==
  IF r.id = "pcm" /\ (~p.stream.enabled \/ p.stopped)
  THEN Fail(IF p.stream.enabled THEN "busy" ELSE "unsupported")
  ELSE CASE r.id = "pcm" -> Bind(IF r.packet.kind = "bad" THEN Fail("unsupported") ELSE Accept(p.stream, r.packet, now),
                                 LAMBDA t : Done([p EXCEPT !.stream = t]))
         [] r.id = "haptic" -> Done([p EXCEPT !.haptics[r.index] = r.v])
         [] OTHER -> Fail(r.error)

ProtocolInput(p, s) ==
  LET with(polled) ==
        [proto |-> [p EXCEPT !.refresh = Never, !.seq = (@ + 1) % Counter, !.stream = polled.s.stream],
         reports |-> <<Input42(s, p.seq)>> \o [i \in 1..Len(polled.s.reports) |->
                                                 [id |-> 68, slot |-> polled.s.reports[i][1],
                                                  status |-> polled.s.reports[i][2]]]]
  IN IF p.stopped THEN [proto |-> p, reports |-> << >>] ELSE with(Poll(p.stream, now))

Due(p) == \E at \in {p.refresh, StreamDeadline(p.stream)} \ {Never} : now >= at

Lifecycle(p, e) ==
  CASE e = "start" -> [p EXCEPT !.stream = Reset(@, now), !.framed = TRUE, !.stopped = FALSE, !.refresh = now]
    [] e = "misframed" -> [p EXCEPT !.stream = Reset(@, now), !.framed = FALSE, !.stopped = FALSE,
                                    !.refresh = now]
    [] e = "stop" -> [p EXCEPT !.stream = Reset(@, now), !.stopped = TRUE, !.refresh = Never,
                               !.query = None]
    [] OTHER -> p

Streaming(s) == [enabled |-> s.enabled,
                 ch |-> [i \in Slots |-> [configured |-> s.ch[i].configured, buffered |-> s.ch[i].buffered]],
                 received |-> s.received, overrun |-> s.overrun, last |-> s.last]

\* sync_outputs, after every call into the protocol.
SyncOutputs(o, p) ==
  LET next == [o EXCEPT !.streaming = Streaming(p.stream),
                        !.brightness = Setting(p.outputs, 45),
                        !.override = Setting(p.outputs, 37),
                        !.rgbw = p.outputs.rgbw]
  IN IF next = o THEN o ELSE [next EXCEPT !.revision = @ + 1]

\* SteamController2026Outputs::retain, on an accepted output.
Retain(o, r) ==
  CASE r.id = "pcm" -> [o EXCEPT !.streaming.last = <<r.packet>>, !.revision = @ + 1]
    [] r.id = "haptic" /\ o.haptics[r.index] # r.v -> [o EXCEPT !.haptics[r.index] = r.v, !.revision = @ + 1]
    [] OTHER -> o

NoOutputs == [revision |-> 0, haptics |-> [i \in 0..1 |-> Unset], streaming |-> Streaming(NewStream(FALSE)),
              brightness |-> Unset, override |-> Unset, rgbw |-> Unset]

----------------------------------------------------------------------------
(* The session. create commits the neutral state before it returns, in a   *)
(* call that also takes the kernel's START.                                *)
Init ==
  /\ target \in {"uhid", "uinput"} /\ compat \in BOOLEAN
  /\ state = NeutralInputs /\ dirty = FALSE
  /\ \E streaming \in BOOLEAN :
       \* The two options do not interact, and neither matters on uinput.
       /\ streaming => ~compat
       /\ target = "uinput" => ~streaming /\ ~compat
       /\ proto = IF target = "uhid" THEN [NewProtocol(streaming) EXCEPT !.seq = 1] ELSE NewProtocol(streaming)
       /\ retained = SyncOutputs(NoOutputs, NewProtocol(streaming))
  /\ queue = << >> /\ inbox = << >>
  /\ now = 0 /\ closed = FALSE
  /\ shown = IF target = "uhid" THEN <<Input42(NeutralInputs, 0)>> ELSE <<EvdevFrame(NeutralInputs)>>
  /\ host = [running |-> TRUE, acked |-> NoSettings, asked |-> None, level |-> [i \in Slots |-> "unknown"],
             overran |-> {}, repeated |-> FALSE]
  /\ edits = 0 /\ events = 0 /\ beat = FALSE

\* set_inputs, set_button, set_digital and neutralize; an invalid state is refused. Of a
\* session that streams only the fact of an edit matters: there it is neutralize, and it
\* spends of the events.
Edit ==
  /\ ~closed /\ edits < MaxEdits
  /\ events' = IF proto.stream.enabled THEN events + EventCost ELSE events
  /\ events' <= MaxEvents
  /\ \E s \in {NeutralInputs} \cup
        (IF proto.stream.enabled THEN {}
         ELSE Samples \cup {[state EXCEPT !.buttons = @ \cup {b}] : b \in Buttons}
                      \cup {[state EXCEPT !.buttons = @ \ {b}] : b \in Buttons}) :
       /\ ValidTriggers(s) /\ (target = "uhid" => proto.framed)
       /\ state' = s
  /\ dirty' = TRUE
  /\ edits' = edits + 1
  /\ UNCHANGED <<target, compat, proto, retained, queue, inbox, now, closed, shown, host, beat>>

\* commit on uinput: a frame is taken, refused for now, or the device is lost.
CommitFrame(outcome) ==
  /\ ~closed /\ target = "uinput" /\ dirty
  /\ dirty' = (outcome # "taken")
  /\ shown' = IF outcome = "taken" THEN <<EvdevFrame(state)>> ELSE shown
  /\ closed' = (outcome = "fatal")
  /\ UNCHANGED <<target, compat, state, proto, retained, queue, inbox, now, host, edits, events, beat>>

\* Time passes; only a stream depends on it.
Tick ==
  /\ ~closed /\ proto.stream.enabled /\ now < MaxTime
  /\ now' = now + 1
  /\ UNCHANGED <<target, compat, state, dirty, proto, retained, queue, inbox, closed, shown, host,
                 edits, events, beat>>

\* The device goes, and with it what its host saw and sent.
Close ==
  /\ ~closed
  /\ closed' = TRUE /\ queue' = << >> /\ inbox' = << >> /\ shown' = << >>
  /\ UNCHANGED <<target, compat, state, dirty, proto, retained, now, host, edits, events, beat>>

----------------------------------------------------------------------------
(* The host.                                                               *)
FeatureCommands ==
  {[op |-> o] : o \in {"foreign", "short", "malformed", "serial", "attributes", "probe", "named",
                       "ledcolor", "ledoverride", "restore", "gyro"}}
    \cup {[op |-> "rgbw", v |-> 1], [op |-> "mappings", v |-> 1]}
    \cup {[op |-> "settings", list |-> l] :
            l \in {<<<<9, 1>>, <<45, 7>>>>, <<<<48, 5>>, <<9, 2>>>>, <<<<37, 1>>, <<37, 0>>>>,
                   <<<<71, 3>>, <<99, 0>>>>}}

OutputReports ==
  IF proto.stream.enabled THEN {[id |-> "pcm", packet |-> p] : p \in Packets}
  ELSE {[id |-> "pcm", packet |-> [kind |-> "bad"]]}
         \cup {[id |-> "haptic", index |-> 0, v |-> v] : v \in {1, 2}}
         \cup {[id |-> "other", error |-> e] : e \in {"invalid", "unsupported"}}

\* A host that streams sends no feature commands and no other outputs: they share no state.
HostEvents ==
  {[ev |-> "lifecycle", kind |-> k] : k \in {"start", "misframed", "stop", "open"}}
    \cup (IF proto.stream.enabled THEN {}
          ELSE {[ev |-> "feature", c |-> c] : c \in FeatureCommands} \cup {[ev |-> "get"]})
    \cup {[ev |-> o, r |-> r] : o \in {"output", "set"}, r \in OutputReports}

IsPacket(e) == e.ev \in {"output", "set"} /\ e.r.id = "pcm"

\* A repeated start of a running stream is refused and changes nothing.
Repeated(e) ==
  /\ IsPacket(e) /\ e.ev = "output" /\ proto.stream.enabled
  /\ e.r.packet.kind = "configure" /\ e.r.packet.op = "start" /\ e.r.packet.target = "internal"
  /\ proto.stream.ch[2].configured

HostSends ==
  /\ ~closed /\ target = "uhid" /\ inbox = << >>
  /\ \E e \in HostEvents :
       /\ IF e.ev = "lifecycle" THEN e.kind \in {"start", "misframed"} <=> ~host.running
          ELSE host.running
       /\ events' = events + (CASE Repeated(e) -> 0 [] ~Repeated(e) /\ IsPacket(e) -> 1
                                 [] OTHER -> EventCost)
       /\ events' <= MaxEvents
       /\ inbox' = <<e>>
  /\ UNCHANGED <<target, compat, state, dirty, proto, retained, queue, now, closed, shown, host,
                 edits, beat>>

\* The host's own record of a list of settings it was acknowledged.
Acknowledged(o, c) ==
  LET keys == IF c.op = "settings" THEN {kv[1] : kv \in ToSet(c.list)} ELSE {}
      value(k) == Last(SelectSeq(c.list, LAMBDA kv : kv[1] = k))[2]
      own == [o EXCEPT !.lizard = IF 9 \in keys THEN value(9) ELSE @,
                       !.imu = IF 48 \in keys THEN value(48) ELSE @,
                       !.watchdog = IF 71 \in keys THEN value(71) ELSE @]
  IN CASE c.op = "settings" ->
            IF compat THEN [own EXCEPT !.compat = [k \in DOMAIN @ \cup keys |-> IF k \in keys THEN value(k) ELSE @[k]]]
            ELSE own
       [] c.op = "rgbw" -> [o EXCEPT !.rgbw = c.v]
       [] c.op = "mappings" -> [o EXCEPT !.mappings = c.v]
       [] c.op = "restore" -> [o EXCEPT !.lizard = Unset, !.imu = Unset, !.watchdog = Unset, !.compat = << >>]
       [] OTHER -> o

\* What the host knows after a feedback report: the level of the slot, whether the slot
\* ever overran, and whether one watermark was told twice without another between.
Hear(h, r) ==
  CASE r.status = "rejected" -> h
    [] r.status = "overrun" -> [h EXCEPT !.overran = @ \cup {r.slot}]
    [] r.status \in {"low", "high"} ->
         [h EXCEPT !.level[r.slot] = r.status, !.repeated = @ \/ h.level[r.slot] = r.status]
    [] OTHER -> [h EXCEPT !.level[r.slot] = "unknown"]

Heard(h, reports) == FoldLeft(Hear, h, reports)

Overrun(p) == {i \in Slots : p.stream.overrun[i] > 0}

Feedback(reports) == SelectSeq(reports, LAMBDA r : r.id = 68)

HostAfter(e, sent) ==
  LET h == CASE e.ev = "lifecycle" /\ e.kind # "open" ->
                  [host EXCEPT !.running = e.kind # "stop", !.asked = None,
                               !.level = [i \in Slots |-> "unknown"], !.overran = Overrun(proto)]
             [] e.ev = "feature" ->
                  [host EXCEPT !.asked = e.c.op,
                               !.acked = IF Settings(proto.outputs, e.c).ok THEN Acknowledged(@, e.c) ELSE @]
             [] OTHER -> host
  IN Heard(h, Feedback(sent))

----------------------------------------------------------------------------
(* Runtime::service. An output the protocol refuses as busy ends the call  *)
(* before input is served; any other refused output ends the session.      *)

\* The protocol after the event, or the error that ends the call.
After(e) ==
  CASE e.ev = "lifecycle" -> Done(Lifecycle(proto, e.kind))
    [] e.ev = "feature" -> Done(Feature(proto, e.c))
    [] e.ev = "set" -> IF AcceptOutput(proto, e.r).ok THEN AcceptOutput(proto, e.r) ELSE Done(proto)
    [] e.ev = "output" -> AcceptOutput(proto, e.r)
    [] OTHER -> Done(proto)

Taken(e) == e.ev \in {"set", "output"} /\ AcceptOutput(proto, e.r).ok

\* SteamController2026Controller::service closes on every error, commit only
\* when the session is closed.
FaultyCloses(how, error) == error # "busy"
Closes(how, error) == how = "service" \/ error # "busy"

Ends(how, error) ==
  /\ closed' = Closes(how, error)
  /\ queue' = IF closed' THEN << >> ELSE queue
  /\ UNCHANGED <<proto, retained, dirty, shown, host>>

Serves(e, p, taken) ==
  LET stop == e.ev = "lifecycle" /\ e.kind = "stop"
      old == IF stop THEN << >> ELSE queue
      left == IF taken THEN << >> ELSE old
      due == left = << >> /\ (dirty \/ stop \/ Due(p))
      shows(inputs) == shown' = IF inputs = << >> THEN shown ELSE <<Last(inputs)>>
      sends(sent) == host' = HostAfter(e, sent) /\ shows(SelectSeq(sent, LAMBDA r : r.id = 66))
      leaves(gen) ==
        /\ queue' = IF taken THEN << >> ELSE left \o gen.reports
        /\ proto' = gen.proto
        /\ retained' = SyncOutputs(IF Taken(e) THEN Retain(retained, e.r) ELSE retained, gen.proto)
        /\ sends(IF taken THEN old \o gen.reports ELSE << >>)
  IN IF due /\ ~p.framed THEN closed' = TRUE /\ queue' = << >>
                              /\ UNCHANGED <<proto, retained, dirty, shown, host>>
     ELSE /\ dirty' = ((dirty \/ stop) /\ ~due)
          /\ leaves(IF due THEN ProtocolInput(p, state) ELSE [proto |-> p, reports |-> << >>])
          /\ UNCHANGED closed

Service(how, taken) ==
  LET e == IF inbox = << >> THEN [ev |-> "none"] ELSE inbox[1]
      serves(r) == IF r.ok THEN Serves(e, r.s, taken) ELSE Ends(how, r.error)
  IN /\ ~closed /\ target = "uhid"
     /\ inbox' = << >>
     /\ serves(After(e))
     /\ beat' = (dirty' /\ (beat # (how = "service" /\ taken)))
     /\ UNCHANGED <<target, compat, state, now, edits, events>>

Next ==
  \/ Edit
  \/ \E outcome \in {"taken", "full", "fatal"} : CommitFrame(outcome)
  \/ Tick
  \/ HostSends
  \/ \E how \in {"service", "commit"}, taken \in BOOLEAN : Service(how, taken)
  \/ Close

Spec == Init /\ [][Next]_vars

\* The application keeps calling service and commit; the transport and the
\* input device take a report when they are offered one often enough. A call
\* of service is possible while the session is open; it changes beat or ends
\* the wait of the edit.
Beat == ~closed /\ target = "uhid" /\ dirty /\ beat' = ~beat
Fairness == WF_beat(Beat) /\ WF_vars(CommitFrame("taken"))

LiveSpec == Spec /\ Fairness

----------------------------------------------------------------------------
Settled == ~closed /\ ~dirty /\ queue = << >> /\ (target = "uhid" => ~proto.stopped)

Signed(w) == IF w >= 32768 THEN w - 65536 ELSE w

\* The consumer's reading of report 0x42.
HostView(r) ==
  [buttons |-> {b \in DOMAIN ButtonBit : ButtonBit[b] \in r.bits},
   touch |-> r.bits \cap {20, 21, 22, 24, 25, 26, 28, 29},
   words |-> [i \in 1..6 |-> Signed(r.words[i])],
   pads |-> [i \in 1..2 |-> [j \in 1..2 |-> Signed(r.pads[i].position[j])]]]

\* Once settled, the host reads the inputs the application set: on UHID every
\* field of report 0x42 is the current one, on uinput each pressed control has
\* its own declared key and every axis stays in its declared range although the
\* native range is one wider (codec input, evdev frame).
SteamReadsState ==
  Settled => IF target = "uhid"
             THEN LET v == HostView(shown[1]) IN
                  /\ v.buttons = state.buttons
                  /\ Cardinality(v.touch) =
                       Cardinality({i \in 1..2 : state.pads[i].touch}) + Cardinality({i \in 1..2 : state.pads[i].click})
                       + Cardinality({i \in 1..2 : state.stick_touch[i]}) + Cardinality({i \in 1..2 : state.grip_touch[i]})
                  /\ v.words = state.triggers \o state.sticks[1] \o state.sticks[2]
                  /\ \A i \in 1..2 : v.pads[i] = state.pads[i].position
             ELSE /\ shown[1].keys \subseteq Realization.keys
                  /\ Cardinality(shown[1].keys) =
                       Cardinality(state.buttons) + Cardinality({i \in 1..2 : state.pads[i].click})
                  /\ \A a \in DOMAIN shown[1].axes : shown[1].axes[a] \in Realization.axes[a]

\* A refused list of settings leaves nothing behind: the device holds exactly
\* what it acknowledged. A GET answers the SET before it or nothing, never an
\* older question (SteamProtocol::feature, get_feature).
FeatureHonest ==
  target = "uhid" /\ ~closed =>
    /\ proto.outputs = host.acked
    /\ GetFeature(proto) # << >> => GetFeature(proto)[1] \in {host.asked, "unknown"}
    /\ GetFeature(proto) = <<"unknown">> => ~Known([op |-> host.asked])

\* The feedback sent, queued and held tells the host the water level of every
\* channel, no watermark twice without the other or a new fill between, and
\* every channel that overran, through refused packets, underruns, overruns and
\* restarts (a STOP takes what is not sent yet); a channel with data always has
\* a time at which it plays on; no FIFO overflows (StreamState::accept, advance,
\* watermark, push, poll).
FeedbackTruthful ==
  target = "uhid" /\ ~closed /\ host.running =>
    LET held == [i \in 1..Len(proto.stream.feedback) |->
                   [id |-> 68, slot |-> proto.stream.feedback[i][1], status |-> proto.stream.feedback[i][2]]]
        told == Heard(host, Feedback(queue) \o held)
    IN /\ ~told.repeated
       /\ told.overran = Overrun(proto)
       /\ \A i \in Slots : LET c == proto.stream.ch[i] IN
            /\ told.level[i] = c.high
            /\ c.buffered > 0 => c.configured /\ StreamDeadline(proto.stream) # Never
            /\ c.buffered \in 0..Capacity

\* An edit reaches the host or the session ends, also against a host that keeps
\* sending packets the protocol refuses as busy, each of which ends the service
\* call before input is served (Runtime::service_inner, the controller's service).
EditShown == []<>(~dirty \/ closed)
=============================================================================
