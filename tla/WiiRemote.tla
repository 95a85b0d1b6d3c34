----------------------------- MODULE WiiRemote -----------------------------
(***************************************************************************)
(* One open Wii Remote: its HID personality in the HID runtime on          *)
(* Bluetooth `uhid`, or the evdev nodes of its parts on `uinput`. The      *)
(* application edits inputs and attaches accessories; the host selects     *)
(* report modes, writes and reads the addressed memory and asks for        *)
(* status. A report is a record of its fields.                             *)
(***************************************************************************)
EXTENDS Integers, Sequences, FiniteSets, SequencesExt

CONSTANTS
  Image,        \* caller's EEPROM bytes
  Calibration,  \* imported blocks: [motion_plus, nunchuk, classic], << >> when absent
  Camera,       \* camera registers as an earlier host session left them
  Window,       \* first address the host cannot read, 0x1700 in the code
  Attachments,  \* pairs of an accessory state and a MotionPlus flag offered to attach
  Edits,        \* input edits: records of the fields they set
  Outputs,      \* output reports of the host, and
  Requests,     \* those it sends as SET_REPORT requests
  Options,      \* WiiRemoteCreationOptions
  Plugged,      \* the accessory an earlier session of the host left attached
  Revisions,    \* revisions with identity evidence, "original" and "tr"
  MaxPending,   \* replies the protocol holds, 28 in the code
  InputQueue,   \* Limits::input_queue
  MaxEdits, MaxAttachments, MaxEvents, MaxRefused  \* bounds

----------------------------------------------------------------------------
(* The addressed memory: the caller's EEPROM image and the registers of    *)
(* the accessories, as the host writes and reads them with reports 0x16    *)
(* and 0x17.                                                               *)

ChunkSize == 16

NewMemory ==
  [image |-> Image, dirty |-> FALSE, initialized |-> "reset", mp_mode |-> 0, mp_inactive |-> 0,
   mp_initialized |-> "reset", mp_turn |-> FALSE, camera |-> Camera,
   speaker |-> [r \in 0..9 |-> 0]]

MpSelectors == {4, 5, 7}

IrReady(m) == m.camera[48] = 8 /\ m.camera[51] \in {1, 3, 5}

ResetExtension(m) ==
  [m EXCEPT !.initialized = "reset", !.mp_initialized = "reset", !.mp_mode = 0, !.mp_inactive = 0,
            !.mp_turn = FALSE]

Present(m, s) == s.ext.kind # "none" \/ (s.mp.attached /\ m.mp_mode # 0)

DeactivateMotionPlus(m, slave) ==
  [m EXCEPT !.mp_inactive = IF m.mp_mode # 0 THEN m.mp_mode ELSE @,
            !.mp_mode = 0,
            !.mp_initialized = "begun",
            !.initialized = IF slave = 82 /\ @ # "done" THEN "begun" ELSE @]

\* MotionPlus answers at 0x53 until it is activated, then at 0x52.
MpAnswers(m, s, slave) ==
  s.mp.attached /\ ((slave = 83 /\ m.mp_mode = 0) \/ (slave = 82 /\ m.mp_mode # 0))

Fits(bytes, start, count) == start + count <= Len(bytes)

Overwrite(bytes, start, data) ==
  [i \in DOMAIN bytes |-> IF i - start \in 1..Len(data) THEN data[i - start] ELSE bytes[i]]

WriteMotionPlus(m, w) ==
  CASE w.offset = 254 /\ Len(w.data) = 1 ->
         [m |-> IF w.data[1] \in MpSelectors THEN [m EXCEPT !.mp_mode = w.data[1], !.mp_turn = FALSE]
                ELSE DeactivateMotionPlus(m, w.slave), code |-> 0]
    [] w.offset = 240 /\ w.data = <<85>> -> [m |-> DeactivateMotionPlus(m, w.slave), code |-> 0]
    [] w.offset = 251 /\ w.data = <<0>> /\ m.mp_initialized # "reset" ->
         [m |-> [m EXCEPT !.mp_initialized = "done"], code |-> 0]
    [] OTHER -> [m |-> m, code |-> 7]

WriteExtension(m, s, w) ==
  IF w.slave # 82 \/ s.ext.kind = "none" THEN [m |-> m, code |-> 7]
  ELSE
  CASE w.offset = 240 /\ w.data = <<85>> -> [m |-> [m EXCEPT !.initialized = "begun"], code |-> 0]
    [] w.offset = 251 /\ w.data = <<0>> /\ m.initialized # "reset" ->
         [m |-> [m EXCEPT !.initialized = "done"], code |-> 0]
    [] OTHER -> [m |-> m, code |-> 7]

WriteImage(m, w) ==
  LET next == Overwrite(m.image, w.offset, w.data) IN
  IF ~Fits(m.image, w.offset, Len(w.data)) THEN [m |-> m, code |-> 8]
  ELSE [m |-> [m EXCEPT !.image = next, !.dirty = @ \/ next # m.image], code |-> 0]

WriteSpeaker(m, w) ==
  IF w.offset + Len(w.data) > 10 THEN [m |-> m, code |-> 7]
  ELSE [m |-> [m EXCEPT !.speaker = [r \in 0..9 |-> IF r - w.offset + 1 \in DOMAIN w.data
                                                    THEN w.data[r - w.offset + 1] ELSE @[r]]],
        code |-> 0]

\* The sensitivity blocks at 0x00 and 0x1a are kept as their first byte.
WriteCamera(m, w) ==
  LET limit == CASE w.offset = 0 -> 9 [] w.offset = 26 -> 2 [] OTHER -> 1 IN
  IF w.offset \in DOMAIN m.camera /\ Len(w.data) <= limit
  THEN [m |-> [m EXCEPT !.camera[w.offset] = w.data[1]], code |-> 0]
  ELSE [m |-> m, code |-> 7]

\* The memory after write w and the error code of its acknowledgement.
Write(m, s, w) ==
  IF w.space = 0 THEN WriteImage(m, w)
  ELSE IF w.space = 3 THEN [m |-> m, code |-> 6]
  ELSE CASE w.slave = 80 -> [m |-> m, code |-> 8]
         [] w.slave = 81 -> WriteSpeaker(m, w)
         [] w.slave = 88 -> WriteCamera(m, w)
         [] w.slave \notin {80, 81, 88} ->
              IF MpAnswers(m, s, w.slave) THEN WriteMotionPlus(m, w) ELSE WriteExtension(m, s, w)

----------------------------------------------------------------------------
(* Reads. A result is [ok, bytes] or [ok, code].                           *)

Fetched(b) == [ok |-> TRUE, bytes |-> b, code |-> 0]
Error(code) == [ok |-> FALSE, bytes |-> << >>, code |-> code]

\* The whole remaining request must fit before any prefix is returned.
WindowRead(block, start, remaining, count) ==
  IF block = << >> \/ ~Fits(block, start, remaining) THEN Error(7)
  ELSE Fetched(SubSeq(block, start + 1, start + count))

ChildId(s) == IF s.ext.kind = "nunchuk" THEN <<0, 0, 164, 32, 0, 0>> ELSE <<0, 0, 164, 32, 1, 1>>

ChildBlock(s) ==
  CASE s.ext.kind = "nunchuk" -> Calibration.nunchuk
    [] s.ext.kind = "classic" -> Calibration.classic
    [] OTHER -> << >>

\* The accessory behind an active MotionPlus is passed through in its own mode only.
PassThrough(m, s) == <<m.mp_mode, s.ext.kind>> \in {<<5, "nunchuk">>, <<7, "classic">>}

MotionPlusIdentity(m, s, options) ==
  <<0, 0, IF m.mp_mode # 0 \/ (s.revision = "tr" /\ ~options.external_id) THEN 164 ELSE 166, 32,
    IF m.mp_mode # 0 THEN m.mp_mode ELSE m.mp_inactive, 5>>

Identity(id, offset, count) ==
  IF offset >= 250 THEN Fetched(SubSeq(id, offset - 249, offset - 250 + count)) ELSE Error(7)

ReadMotionPlus(m, s, options, offset, remaining, count) ==
  CASE offset \in 32..63 -> WindowRead(Calibration.motion_plus, offset - 32, remaining, count)
    [] PassThrough(m, s) /\ options.id_mirror /\ offset \in 246..249 ->
         WindowRead(<<ChildId(s)[5], 2, ChildId(s)[1], ChildId(s)[6]>>, offset - 246, remaining, count)
    [] PassThrough(m, s) /\ options.calibration_copy /\ offset \in 64..79 ->
         WindowRead(ChildBlock(s), offset - 64, remaining, count)
    [] OTHER -> Identity(MotionPlusIdentity(m, s, options), offset, count)

ReadImage(m, r, count) ==
  IF r.address + r.remaining > Window \/ ~Fits(m.image, r.address, r.remaining) THEN Error(8)
  ELSE Fetched(SubSeq(m.image, r.address + 1, r.address + count))

ReadExtension(s, offset, remaining, count) ==
  CASE s.ext.kind = "none" -> Error(7)
    [] s.ext.kind # "none" /\ offset \in 32..47 -> WindowRead(ChildBlock(s), offset - 32, remaining, count)
    [] OTHER -> Identity(ChildId(s), offset, count)

\* One chunk of a read.
ReadBytes(m, s, options, r, count) ==
  LET offset == r.address % 256 IN
  IF r.space = 0 THEN ReadImage(m, r, count)
  ELSE IF r.space = 3 THEN Error(6)
  ELSE IF r.slave = 80 THEN Error(8)
  ELSE IF offset + count > 256 THEN Error(7)
  ELSE IF MpAnswers(m, s, r.slave) THEN ReadMotionPlus(m, s, options, offset, r.remaining, count)
  ELSE IF r.slave = 82 /\ m.initialized = "done" THEN ReadExtension(s, offset, r.remaining, count)
  ELSE Error(7)

\* read_chunk: the report's contents, the read that remains and whether it ended.
ReadChunk(m, s, options, r) ==
  LET count == IF r.remaining < ChunkSize THEN r.remaining ELSE ChunkSize
      got == ReadBytes(m, s, options, r, count)
  IN [address |-> r.address, bytes |-> got.bytes, code |-> got.code,
      rest |-> IF got.ok /\ r.remaining > count
               THEN <<[r EXCEPT !.address = (@ + count) % 65536, !.remaining = @ - count]>> ELSE << >>]

----------------------------------------------------------------------------
VARIABLES
  target, options,  \* creation
  state, dirty,     \* Runtime or ControllerRuntime of the core: inputs, not yet sent
  proto,            \* WiiProtocol: see NewProtocol
  queue,            \* Runtime.pending
  inbox,            \* the next host event, or << >>
  closed,
  resolution,       \* Resolution of the EEPROM: << >> or <<choice, image>>
  topology,         \* LiveTopology: current shape and generation
  nodes,            \* uinput: role |-> [state, dirty, shown, lost]
  shown,            \* the last data reports at the host, the newest last
  host,             \* what the host knows: see NewHost
  edits, attachments, events, refused  \* spent of the bounds

bounds == <<edits, attachments, events, refused>>
vars == <<target, options, state, dirty, proto, queue, inbox, closed, resolution, topology, nodes, shown, host,
          edits, attachments, events, refused>>

None == [kind |-> "none"]

----------------------------------------------------------------------------
(* Inputs: WiiRemoteState.                                                 *)

NewMotionPlus(attached) == [attached |-> attached, gyro |-> <<8192, 8192, 8192>>, slow |-> <<FALSE, FALSE, FALSE>>]

NewState(revision) ==
  [revision |-> revision, buttons |-> {}, accel |-> <<0, 0, 0>>, ir |-> <<<<>>, <<>>, <<>>, <<>>>>,
   ext |-> None, mp |-> NewMotionPlus(revision = "tr"), battery |-> 0]

NeutralExtension(kind) ==
  CASE kind = "none" -> None
    [] kind = "nunchuk" -> [kind |-> kind, stick |-> <<128, 128>>, accel |-> <<0, 0, 0>>, buttons |-> {}]
    [] kind \in {"classic", "classicpro"} ->
         [kind |-> kind, left |-> <<32, 32>>, right |-> <<16, 16>>, triggers |-> <<0, 0>>, buttons |-> {}]

ValidExtension(e) ==
  CASE e.kind = "none" -> TRUE
    [] e.kind = "nunchuk" -> \A i \in 1..3 : e.accel[i] <= 1023
    [] e.kind = "classic" -> \A i \in 1..2 : e.left[i] <= 63 /\ e.right[i] <= 31 /\ e.triggers[i] <= 31
    [] e.kind = "classicpro" -> FALSE

Neutralize(s) ==
  [s EXCEPT !.buttons = {}, !.accel = <<0, 0, 0>>, !.ir = <<<<>>, <<>>, <<>>, <<>>>>,
            !.ext = NeutralExtension(@.kind), !.mp = NewMotionPlus(@.attached)]

Shape(s) == <<s.ext.kind, s.mp.attached>>

----------------------------------------------------------------------------
(* Reports. Packed fields are written as the bits each byte carries.       *)

Modes == {48, 49, 50, 51, 52, 53, 54, 55, 61, 62, 63}

Visible(s) == \E i \in 1..4 : s.ir[i] # << >>

\* Modes without typed point sizes refuse visible points.
Encodable(mode, s, ir) == mode \in Modes /\ ~(mode \in {51, 62, 63} /\ ir /\ Visible(s))

PackAccel(mode, a) ==
  CASE mode \in {49, 51, 53, 55} ->
         <<a[1] % 4, (a[2] \div 2) % 2, (a[3] \div 2) % 2, a[1] \div 4, a[2] \div 4, a[3] \div 4>>
    [] mode = 62 -> <<(a[3] \div 64) % 4, (a[3] \div 256) % 4, a[1] \div 4>>
    [] mode = 63 -> <<(a[3] \div 4) % 4, (a[3] \div 16) % 4, a[2] \div 4>>
    [] OTHER -> << >>

BasicIr(s) ==
  [i \in 1..4 |-> LET p == IF s.ir[i] = << >> THEN <<1023, 1023>> ELSE s.ir[i] IN
                  <<p[1] % 256, p[2] % 256, p[1] \div 256, p[2] \div 256>>]
NoIr == [i \in 1..4 |-> <<255, 255, 3, 3>>]

\* accessory: six bytes of the unencrypted Nunchuk or Classic, buttons active low.
NunchukButtons == {"c", "z"}
ClassicButtons == {"A", "B", "X", "Y", "ZL", "ZR", "Plus", "Minus", "Home", "Left", "Right", "Up", "Down", "L", "R"}

Accessory(e) ==
  CASE e.kind = "nunchuk" ->
         [of |-> "nunchuk", stick |-> e.stick, high |-> [i \in 1..3 |-> e.accel[i] \div 4],
          low |-> [i \in 1..3 |-> e.accel[i] % 4], up |-> NunchukButtons \ e.buttons]
    [] e.kind = "classic" ->
         [of |-> "classic", left |-> e.left,
          rx |-> <<e.right[1] \div 8, (e.right[1] \div 2) % 4, e.right[1] % 2>>, ry |-> e.right[2],
          lt |-> <<e.triggers[1] \div 8, e.triggers[1] % 8>>, rt |-> e.triggers[2],
          up |-> ClassicButtons \ e.buttons]
    [] OTHER -> [of |-> "none"]

\* The accessory's packet as MotionPlus forwards it: bits give way to its own flags.
Forward(b) ==
  IF b.of = "nunchuk"
  THEN [b EXCEPT !.of = "nunchuk via mp", !.high = <<@[1], @[2], @[3] - (@[3] % 2)>>,
                 !.low = <<@[1] \div 2, @[2] \div 2, @[3] \div 2, b.high[3] % 2>>]
  ELSE [b EXCEPT !.of = "classic via mp", !.left = <<@[1] - (@[1] % 2), @[2] - (@[2] % 2)>>]

Gyro(s) ==
  [of |-> "gyro", low |-> [i \in 1..3 |-> s.mp.gyro[i] % 256], high |-> [i \in 1..3 |-> s.mp.gyro[i] \div 256],
   slow |-> s.mp.slow, child |-> s.ext.kind # "none"]

\* packet: [packet, memory]. An active MotionPlus alternates with its accessory.
\* FaultyPacket forgets to alternate.
FaultyPacket(s, m) ==
  [memory |-> m, packet |-> IF m.mp_mode # 0 THEN (IF PassThrough(m, s) THEN Accessory(s.ext) ELSE Gyro(s))
                            ELSE Accessory(s.ext)]

Packet(s, m) ==
  IF m.mp_mode # 0
  THEN [memory |-> [m EXCEPT !.mp_turn = ~@],
        packet |-> IF PassThrough(m, s) /\ m.mp_turn THEN Forward(Accessory(s.ext)) ELSE Gyro(s)]
  ELSE [memory |-> m, packet |-> IF m.initialized = "done" THEN Accessory(s.ext) ELSE [of |-> "none"]]

HasWindow(mode) == mode \in {50, 52, 53, 54, 55, 61}

DataReport(mode, s, ir, packet) ==
  [id |-> mode, keys |-> IF mode = 61 THEN {} ELSE s.buttons, accel |-> PackAccel(mode, s.accel),
   ir |-> CASE mode \in {54, 55} -> IF ir THEN BasicIr(s) ELSE NoIr
            [] mode \in {51, 62, 63} -> NoIr
            [] OTHER -> << >>,
   packet |-> packet]

Status(p) ==
  [id |-> 32, keys |-> p.state.buttons, present |-> Present(p.memory, p.state), leds |-> p.leds,
   speaker |-> p.speaker.enabled, ir |-> p.ir_enabled[1], low |-> p.state.battery < 32]
Unplugged(p) == [Status(p) EXCEPT !.present = FALSE]

Ack(p, id, code) == [id |-> 34, keys |-> p.state.buttons, of |-> id, code |-> code]

----------------------------------------------------------------------------
(* WiiProtocol. Every deadline it sets is the present moment.              *)

NewProtocol(revision) ==
  [state |-> NewState(revision), leds |-> {}, rumble |-> FALSE, revision |-> 0, mode |-> 48,
   reporting |-> "running", memory |-> NewMemory, read |-> << >>, ir_enabled |-> <<FALSE, FALSE>>,
   speaker |-> [enabled |-> FALSE, muted |-> FALSE], pending |-> << >>, due |-> FALSE,
   active |-> TRUE, start_status |-> FALSE, valid |-> TRUE]

Known == {16, 17, 18, 19, 20, 21, 22, 23, 24, 25, 26}
Acknowledged == {17, 18, 19, 20, 25, 26}

Deactivating(p, r) ==
  /\ r.id = 22 /\ p.memory.mp_mode # 0
  /\ r.w.space \in {1, 2} /\ r.w.slave = 82 /\ Len(r.w.data) = 1
  /\ \/ r.w.offset = 240 /\ r.w.data[1] = 85
     \/ r.w.offset = 254 /\ r.w.data[1] \notin MpSelectors

\* The write is tried on a copy of the memory before its size is checked.
Tried(p, r) ==
  r.id = 22 /\ p.memory.mp_mode = 0 /\ options.reattach_status /\ Present(p.memory, p.state)

Reattaching(p, r) == Tried(p, r) /\ Write(p.memory, p.state, r.w).m.mp_mode # 0

Replies(p, r) == IF Deactivating(p, r) \/ Reattaching(p, r) THEN 3 ELSE IF r.id = 22 THEN 2 ELSE 1

Push(p, reports) == [p EXCEPT !.pending = @ \o reports]

\* Report 0x16: the acknowledgement, then the status edges of a MotionPlus transition.
AcceptWrite(p, r) ==
  LET done == Write(p.memory, p.state, r.w)
      next == [p EXCEPT !.memory = done.m]
  IN IF done.m.mp_mode = p.memory.mp_mode THEN Push(next, <<Ack(p, 22, done.code)>>)
     ELSE [Push(next, <<Ack(p, 22, done.code)>>
                        \o (IF Deactivating(p, r) \/ Reattaching(p, r) THEN <<Unplugged(next)>> ELSE << >>)
                        \o <<Status(next)>>)
           EXCEPT !.reporting = "awaiting mode"]

\* One read at a time; a read of no bytes has no answer.
AcceptRead(p, r) ==
  CASE p.read # << >> -> Push(p, <<Ack(p, 23, 4)>>)
    [] p.read = << >> /\ r.r.remaining # 0 -> [p EXCEPT !.read = <<r.r>>]
    [] OTHER -> p

\* The protocol after an accepted report, before rumble and acknowledgement.
Apply(p, r) ==
  CASE r.id \in {16, 24} -> p
    [] r.id = 17 -> [p EXCEPT !.leds = r.leds]
    [] r.id = 18 -> [p EXCEPT !.mode = r.mode, !.reporting = "running"]
    [] r.id = 19 -> [p EXCEPT !.ir_enabled[1] = r.on]
    [] r.id = 20 -> [p EXCEPT !.speaker.enabled = r.on]
    [] r.id = 25 -> [p EXCEPT !.speaker.muted = r.on]
    [] r.id = 26 -> [p EXCEPT !.ir_enabled[2] = r.on]
    [] r.id = 21 -> Push(p, <<Status(p)>>)
    [] r.id = 22 -> AcceptWrite(p, r)
    [] r.id = 23 -> AcceptRead(p, r)

\* accept: why the report is refused, or "ok".
Verdict(p, r) ==
  IF ~p.active \/ ~p.valid \/ r.id \notin Known THEN "unsupported"
  ELSE IF r.short THEN "invalid"
  ELSE IF r.id = 22 /\ Len(r.w.data) > 16 /\ Tried(p, r) THEN "panic"
  ELSE IF Len(p.pending) + Replies(p, r) > MaxPending THEN "busy"
  ELSE IF r.id = 18 /\ ~Encodable(r.mode, p.state, p.ir_enabled[1]) THEN "invalid"
  ELSE IF r.id = 22 /\ Len(r.w.data) \notin 1..16 THEN "invalid"
  ELSE IF ~Encodable(Apply(p, r).mode, p.state, Apply(p, r).ir_enabled[1]) THEN "invalid"
  ELSE "ok"

Accept(p, r) ==
  LET q == Apply(p, r)
      a == IF r.id \in Acknowledged /\ r.ack THEN Push(q, <<Ack(q, r.id, 0)>>) ELSE q
  IN [a EXCEPT !.rumble = r.rumble, !.due = TRUE,
               !.revision = IF q.leds # p.leds \/ r.rumble # p.rumble THEN @ + 1 ELSE @]

Lifecycle(p, e) ==
  CASE e \in {"start", "misframed"} ->
         [p EXCEPT !.valid = (e = "start"), !.active = TRUE, !.start_status = TRUE, !.due = TRUE]
    [] e = "stop" -> [p EXCEPT !.active = FALSE, !.start_status = FALSE, !.pending = << >>, !.read = << >>,
                               !.due = FALSE]
    [] OTHER -> p

InstallAttachment(p, e, mp) ==
  [p EXCEPT !.state.ext = e, !.state.mp.attached = mp, !.memory = ResetExtension(@)]

\* FaultyChangeAttachment reports a replaced accessory as still present.
FaultyChangeAttachment(p, e, mp) ==
  LET q == [InstallAttachment(p, e, mp) EXCEPT !.reporting = "awaiting mode"] IN
  IF ~p.active THEN [ok |-> TRUE, p |-> q]
  ELSE [ok |-> Len(p.pending) + 1 <= MaxPending, p |-> [Push(q, <<Status(q)>>) EXCEPT !.due = TRUE]]

\* change_attachment: [ok, p]. A replaced accessory is reported gone before it is
\* reported present.
ChangeAttachment(p, e, mp) ==
  LET replacement == Present(p.memory, p.state) /\ e.kind # "none"
      q == [InstallAttachment(p, e, mp) EXCEPT !.reporting = "awaiting mode"]
      edges == (IF replacement THEN <<Unplugged(q)>> ELSE << >>) \o <<Status(q)>>
  IN IF ~p.active THEN [ok |-> TRUE, p |-> q]
     ELSE [ok |-> Len(p.pending) + Len(edges) <= MaxPending, p |-> [Push(q, edges) EXCEPT !.due = TRUE]]

ValidState(p, s) ==
  /\ p.valid
  /\ \A i \in 1..3 : s.accel[i] <= 1023 /\ s.mp.gyro[i] <= 16383
  /\ ValidExtension(s.ext)
  /\ Encodable(p.mode, s, p.ir_enabled[1])

\* WiiProtocol::input: [p, reports], for a state ValidState accepts.
ProtocolInput(p, s) ==
  LET q == [p EXCEPT !.state = s]
      chunk == IF p.read = << >> THEN << >> ELSE <<ReadChunk(p.memory, s, options, p.read[1])>>
      rest == IF chunk = << >> THEN << >> ELSE chunk[1].rest
      replies == (IF p.start_status THEN <<Status(q)>> ELSE << >>) \o p.pending
                   \o [i \in 1..Len(chunk) |-> [id |-> 33, keys |-> s.buttons, address |-> chunk[i].address,
                                                bytes |-> chunk[i].bytes, code |-> chunk[i].code]]
      sent == [q EXCEPT !.start_status = FALSE, !.pending = << >>, !.read = rest, !.due = rest # << >>]
      window == HasWindow(p.mode) /\ (p.memory.mp_mode # 0 \/ p.memory.initialized = "done")
      packed == Packet(s, p.memory)
  IN IF ~p.active THEN [p |-> [q EXCEPT !.due = FALSE], reports |-> << >>]
     ELSE IF p.reporting = "awaiting mode" THEN [p |-> sent, reports |-> replies]
     ELSE [p |-> [sent EXCEPT !.memory = IF window THEN packed.memory ELSE @,
                              !.mode = IF @ = 62 THEN 63 ELSE IF @ = 63 THEN 62 ELSE @],
           reports |-> replies \o <<DataReport(p.mode, s, p.ir_enabled[1] /\ IrReady(p.memory),
                                               IF window THEN packed.packet ELSE [of |-> "none"])>>]

----------------------------------------------------------------------------
(* The evdev nodes on uinput: the core and one companion per part.         *)

Roles(s) == {"accel", "ir"} \cup (IF s.mp.attached THEN {"motionplus"} ELSE {})
                            \cup (IF s.ext.kind = "none" THEN {} ELSE {s.ext.kind})

\* What each node declares: its keys and the ranges of its axes, which are not clamps.
CoreButtons == {"Left", "Right", "Up", "Down", "Plus", "Minus", "One", "Two", "A", "B", "Home"}
Wide == <<-500, 500>>
Specification(role) ==
  CASE role = "core" -> [keys |-> CoreButtons, axes |-> << >>]
    [] role = "accel" -> [keys |-> {}, axes |-> <<Wide, Wide, Wide>>]
    [] role = "ir" -> [keys |-> {}, axes |-> [i \in 1..8 |-> <<0, IF i % 2 = 1 THEN 1023 ELSE 767>>]]
    [] role = "nunchuk" -> [keys |-> NunchukButtons, axes |-> <<<<-120, 120>>, <<-120, 120>>, Wide, Wide, Wide>>]
    [] role = "classic" -> [keys |-> ClassicButtons, axes |-> [i \in 1..6 |-> <<-30, 30>>]]
    [] role = "motionplus" -> [keys |-> {}, axes |-> [i \in 1..3 |-> <<-16000, 16000>>]]

\* Rust's division truncates toward zero.
Quotient(a, b) == IF a < 0 THEN -((-a) \div b) ELSE a \div b

Frame(role, s) ==
  CASE role = "core" -> [keys |-> s.buttons, axes |-> << >>]
    [] role = "accel" -> [keys |-> {}, axes |-> [i \in 1..3 |-> s.accel[i] - 512]]
    [] role = "ir" -> [keys |-> {}, axes |-> [i \in 1..8 |->
                         LET p == s.ir[(i + 1) \div 2] IN IF p = << >> THEN 1023 ELSE p[2 - (i % 2)]]]
    [] role = "nunchuk" -> [keys |-> s.ext.buttons,
                            axes |-> [i \in 1..5 |-> IF i <= 2 THEN s.ext.stick[i] - 128 ELSE s.ext.accel[i - 2] - 512]]
    [] role = "classic" -> [keys |-> s.ext.buttons,
                            axes |-> [i \in 1..6 |-> CASE i <= 2 -> s.ext.left[i] - 32
                                                       [] i \in 3..4 -> (s.ext.right[i - 2] - 16) * 2
                                                       [] OTHER -> s.ext.triggers[7 - i] * 2]]
    [] role = "motionplus" -> [keys |-> {},
                               axes |-> [i \in 1..3 |-> LET raw == s.mp.gyro[4 - i] - 8192 IN
                                           IF s.mp.slow[4 - i] THEN raw * 9 ELSE Quotient(raw * 18000, 440)]]

NewNode(role) == [role |-> role, dirty |-> TRUE, lost |-> FALSE, shown |-> << >>]
RoleOrder == <<"accel", "ir", "motionplus", "nunchuk", "classic">>

\* Nodes::prepare and install: new roles are opened first, then old ones closed.
Install(ns, s) ==
  SelectSeq(ns, LAMBDA n : n.role \in Roles(s))
    \o LET new == SelectSeq(RoleOrder, LAMBDA r : r \in Roles(s) /\ ~\E n \in ToSet(ns) : n.role = r)
       IN [i \in 1..Len(new) |-> NewNode(new[i])]

----------------------------------------------------------------------------
NewHost ==
  [running |-> FALSE, present |-> FALSE, ready |-> FALSE, owed |-> << >>, reading |-> << >>,
   eeprom |-> [a \in 0..(Len(Image) - 1) |-> Image[a + 1]], confused |-> FALSE]

\* An open controller between two sessions of the host: the protocol is stopped,
\* with the mode, the accessory and the camera registers it had, and the kernel's
\* START is on its way. With nothing plugged in and clear registers this is the
\* controller as it is created.
Init ==
  /\ target \in {"uhid", "uinput"} /\ options \in Options
  /\ \E revision \in Revisions :
       /\ state = [NewState(revision) EXCEPT !.ext = Plugged]
       /\ proto = [NewProtocol(revision) EXCEPT !.state.ext = Plugged, !.active = FALSE]
  /\ dirty = TRUE /\ queue = << >> /\ closed = FALSE
  /\ inbox = IF target = "uhid" THEN <<[ev |-> "lifecycle", kind |-> "start"]>> ELSE << >>
  /\ resolution = << >> /\ topology = [shape |-> Shape(state), generation |-> 0]
  /\ nodes = IF target = "uinput" THEN Install(<< >>, state) ELSE << >>
  /\ shown = << >> /\ host = NewHost
  /\ edits = 0 /\ attachments = 0 /\ events = 0 /\ refused = 0

\* The setters of the controller, set_inputs and neutralize. On uhid the
\* protocol refuses a state the selected mode cannot carry.
Edit ==
  /\ ~closed /\ edits < MaxEdits
  /\ \E e \in Edits :
       LET s == IF e = << >> THEN Neutralize(state)
                ELSE [f \in DOMAIN state |-> IF f \in DOMAIN e THEN e[f] ELSE state[f]]
       IN /\ Shape(s) = Shape(state) /\ ValidExtension(s.ext)
          /\ IF target = "uhid" THEN ValidState(proto, s)
             ELSE \A i \in 1..3 : s.accel[i] <= 1023 /\ s.mp.gyro[i] <= 16383
          /\ state' = s
  /\ dirty' = TRUE /\ edits' = edits + 1
  /\ UNCHANGED <<target, options, proto, queue, inbox, closed, resolution, topology, nodes, shown, host,
                 attachments, events, refused>>

\* attach: an accessory of the same kind is an edit; another shape goes through
\* LiveTopology::change, which installs state and protocol together or neither.
Attach(e, mp) ==
  LET s == [state EXCEPT !.ext = e, !.mp = IF Shape(state) = <<e.kind, mp>> THEN @ ELSE NewMotionPlus(mp)]
      changed == Shape(state) # <<e.kind, mp>>
      next == IF target = "uhid" THEN ChangeAttachment(proto, e, mp)
              ELSE [ok |-> TRUE, p |-> InstallAttachment(proto, e, mp)]
  IN /\ ~closed /\ ValidExtension(e) /\ attachments < MaxAttachments
     /\ (target = "uhid" \/ changed) => ValidState(proto, s)
     /\ changed => next.ok /\ ValidState(next.p, s)
     /\ state' = s /\ dirty' = TRUE
     /\ proto' = IF changed THEN next.p ELSE proto
     /\ topology' = IF changed THEN [shape |-> Shape(s), generation |-> topology.generation + 1] ELSE topology
     /\ nodes' = IF changed /\ target = "uinput" THEN Install(nodes, s) ELSE nodes
     /\ attachments' = attachments + 1
     /\ UNCHANGED <<target, options, queue, inbox, closed, resolution, shown, host, edits, events, refused>>

Close ==
  /\ ~closed
  /\ closed' = TRUE /\ queue' = << >> /\ inbox' = << >>
  /\ UNCHANGED <<target, options, state, dirty, proto, resolution, topology, nodes, shown, host, bounds>>

\* resolve_resource: only after close, and the first choice stays.
Resolved(choice) == IF choice = "keep" THEN <<choice, proto.memory.image>> ELSE <<choice, << >>>>

Resolve(choice) ==
  /\ closed /\ target = "uhid" /\ resolution = << >>
  /\ resolution' = Resolved(choice)
  /\ UNCHANGED <<target, options, state, dirty, proto, queue, inbox, closed, topology, nodes, shown, host, bounds>>

\* commit on uinput: the core, then each companion until one refuses the frame.
\* A companion is given the state before its frame is written.
Committed(ns, k, fatal) ==
  [i \in DOMAIN ns |-> IF i < k THEN [ns[i] EXCEPT !.dirty = FALSE, !.shown = <<Frame(ns[i].role, state)>>]
                       ELSE IF i = k THEN [ns[i] EXCEPT !.dirty = TRUE, !.lost = @ \/ fatal] ELSE ns[i]]

CommitNodes ==
  /\ ~closed /\ target = "uinput"
  /\ \/ \E outcome \in {"full", "fatal"} :
          /\ dirty
          /\ closed' = (outcome = "fatal") /\ UNCHANGED <<dirty, shown, nodes>>
     \/ /\ dirty' = FALSE /\ shown' = <<Frame("core", state)>>
        /\ \E k \in 1..(Len(nodes) + 1), fatal \in BOOLEAN :
             /\ \A i \in 1..(k - 1) : ~nodes[i].lost
             /\ k > Len(nodes) => ~fatal
             /\ nodes' = Committed(nodes, k, fatal)
        /\ UNCHANGED closed
  /\ UNCHANGED <<target, options, state, proto, queue, inbox, resolution, topology, host, bounds>>

\* service on uinput reads every node; a lost one ends the controller.
ServiceNodes ==
  /\ ~closed /\ target = "uinput" /\ \E i \in DOMAIN nodes : nodes[i].lost
  /\ closed' = TRUE
  /\ UNCHANGED <<target, options, state, dirty, proto, queue, inbox, resolution, topology, nodes, shown, host, bounds>>

----------------------------------------------------------------------------
(* The host and Runtime::service.                                          *)

HostSends ==
  /\ ~closed /\ target = "uhid" /\ inbox = << >> /\ events < MaxEvents
  /\ \E e \in {[ev |-> "lifecycle", kind |-> k] : k \in {"start", "misframed", "stop"}}
                \cup {[ev |-> "output", r |-> r] : r \in Outputs} \cup {[ev |-> "set", r |-> r] : r \in Requests} :
       /\ IF e.ev = "lifecycle" THEN (e.kind # "stop") <=> ~host.running ELSE host.running
       /\ inbox' = <<e>>
  /\ events' = events + 1
  /\ UNCHANGED <<target, options, state, dirty, proto, queue, closed, resolution, topology, nodes, shown, host,
                 edits, attachments, refused>>

\* The acknowledgements an accepted report makes the host wait for.
Owed(p, r) ==
  CASE r.id \in Acknowledged /\ r.ack -> <<[of |-> r.id, init |-> "same", w |-> << >>]>>
    [] r.id = 22 -> LET done == Write(p.memory, p.state, r.w) IN
                    <<[of |-> 22, init |-> IF done.m.initialized # p.memory.initialized THEN done.m.initialized ELSE "same",
                       w |-> IF r.w.space = 0 /\ done.code = 0 THEN <<r.w>> ELSE << >>]>>
    [] r.id = 23 /\ p.read # << >> -> <<[of |-> 23, init |-> "same", w |-> << >>]>>
    [] OTHER -> << >>

\* The chunks an accepted read makes it wait for.
Reading(p, r) ==
  IF r.id = 23 /\ p.read = << >> /\ r.r.remaining # 0
  THEN <<[next |-> r.r.address, left |-> r.r.remaining, prefix |-> FALSE, space |-> r.r.space]>> ELSE << >>

Wrote(eeprom, ws) ==
  FoldLeft(LAMBDA f, w : [a \in DOMAIN f |-> IF a - w.offset \in 0..(Len(w.data) - 1)
                                             THEN w.data[a - w.offset + 1] ELSE f[a]], eeprom, ws)

\* The host reads one report.
HostReads(h, r) ==
  CASE r.id = 32 -> [h EXCEPT !.present = r.present, !.ready = @ /\ r.present]
    [] r.id = 34 ->
         IF h.owed = << >> \/ h.owed[1].of # r.of THEN [h EXCEPT !.confused = TRUE]
         ELSE [h EXCEPT !.owed = Tail(@), !.ready = h.owed[1].init = "done" \/ (@ /\ h.owed[1].init = "same"), !.eeprom = Wrote(@, h.owed[1].w)]
    [] r.id = 33 ->
         IF h.reading = << >> \/ h.reading[1].next # r.address THEN [h EXCEPT !.confused = TRUE]
         ELSE LET g == h.reading[1] IN
              IF r.code # 0 THEN [h EXCEPT !.reading = Tail(@), !.confused = @ \/ (g.prefix /\ g.space = 0)]
              ELSE [h EXCEPT !.reading = IF g.left = Len(r.bytes) THEN Tail(@)
                                         ELSE <<[g EXCEPT !.next = @ + Len(r.bytes), !.left = @ - Len(r.bytes),
                                                          !.prefix = TRUE]>> \o Tail(@)]
    [] OTHER -> h

\* What the host and the protocol know once event e is handled.
HostAfter(e) ==
  CASE e.ev = "lifecycle" ->
         [NewHost EXCEPT !.running = e.kind # "stop", !.confused = host.confused,
                         !.eeprom = FoldLeft(LAMBDA f, o : Wrote(f, o.w), host.eeprom, host.owed)]
    [] e.ev \in {"output", "set"} /\ Verdict(proto, e.r) = "ok" ->
         [host EXCEPT !.owed = @ \o Owed(proto, e.r), !.reading = @ \o Reading(proto, e.r)]
    [] OTHER -> host

ProtocolAfter(e) ==
  CASE e.ev = "lifecycle" -> Lifecycle(proto, e.kind)
    [] e.ev \in {"output", "set"} /\ Verdict(proto, e.r) = "ok" -> Accept(proto, e.r)
    [] OTHER -> proto

\* An output that finds no room for its replies ends the session.
Fatal(e) ==
  \/ e.ev = "output" /\ Verdict(proto, e.r) \in {"busy", "panic"}
  \/ e.ev = "set" /\ Verdict(proto, e.r) = "panic"

Data(r) == r.id \in Modes

\* The last two of a sequence of reports.
LastTwo(all) == SubSeq(all, IF Len(all) > 2 THEN Len(all) - 1 ELSE 1, Len(all))

Serves(e, how, taken) ==
  LET stop == e.ev = "lifecycle" /\ e.kind = "stop"
      old == IF stop THEN << >> ELSE queue
      left == IF taken THEN << >> ELSE old
      sends(sent) == /\ shown' = IF stop THEN << >> ELSE LastTwo(shown \o SelectSeq(sent, Data))
                     /\ host' = FoldLeft(HostReads, HostAfter(e), sent)
      leaves(gen) == /\ proto' = gen.p
                     /\ queue' = IF taken \/ closed' THEN << >> ELSE left \o gen.reports
                     /\ sends(IF taken THEN old \o gen.reports ELSE << >>)
      generates(p, due, unsendable) ==
        /\ closed' = (unsendable /\ how = "service")
        /\ dirty' = ((dirty \/ stop) /\ (~due \/ unsendable))
        /\ leaves(IF due /\ ~unsendable THEN ProtocolInput(p, state) ELSE [p |-> p, reports |-> << >>])
      serves(p) == LET due == left = << >> /\ (dirty \/ stop \/ p.due)
                   IN generates(p, due, due /\ ~ValidState(p, state))
  IN serves(ProtocolAfter(e))

Service(how, taken) ==
  LET e == IF inbox = << >> THEN [ev |-> "none"] ELSE inbox[1] IN
  /\ ~closed /\ target = "uhid"
  /\ taken \/ refused < MaxRefused
  /\ refused' = IF taken THEN refused ELSE refused + 1
  /\ inbox' = << >>
  /\ IF Fatal(e) THEN closed' = TRUE /\ queue' = << >> /\ UNCHANGED <<proto, dirty, shown, host>>
     ELSE Serves(e, how, taken)
  /\ UNCHANGED <<target, options, state, resolution, topology, nodes, edits, attachments, events>>

Next ==
  \/ Edit
  \/ \E a \in Attachments : Attach(a[1], a[2])
  \/ HostSends
  \/ \E how \in {"service", "commit"}, taken \in BOOLEAN : Service(how, taken)
  \/ CommitNodes
  \/ ServiceNodes
  \/ \E choice \in {"keep", "discard"} : Resolve(choice)
  \/ Close

Spec == Init /\ [][Next]_vars

----------------------------------------------------------------------------
\* Nothing is left to send.
Settled ==
  target = "uhid" /\ ~closed /\ host.running /\ ~dirty /\ queue = << >> /\ inbox = << >> /\ ~proto.due

Even(n) == n - (n % 2)

\* The accelerometer as the host reads it from one report.
AccelShows(r, a) ==
  CASE r.id \in {49, 51, 53, 55} ->
         /\ 4 * r.accel[4] + r.accel[1] = a[1]
         /\ 4 * r.accel[5] + 2 * r.accel[2] = Even(a[2])
         /\ 4 * r.accel[6] + 2 * r.accel[3] = Even(a[3])
    [] r.id = 62 -> r.accel[1] + 4 * r.accel[2] = a[3] \div 64 /\ r.accel[3] = a[1] \div 4
    [] r.id = 63 -> r.accel[1] + 4 * r.accel[2] = (a[3] \div 4) % 16 /\ r.accel[3] = a[2] \div 4
    [] OTHER -> TRUE

\* The window as the host reads it: by MotionPlus' flags while it is active.
WindowShows(b, s, active) ==
  CASE b.of = "gyro" -> active /\ \A i \in 1..3 : b.low[i] + 256 * b.high[i] = s.mp.gyro[i]
    [] b.of = "nunchuk via mp" ->
         /\ active /\ b.stick = s.ext.stick
         /\ \A i \in 1..2 : 4 * b.high[i] + 2 * b.low[i] = Even(s.ext.accel[i])
         /\ 4 * (b.high[3] + b.low[4]) + 2 * b.low[3] = Even(s.ext.accel[3])
         /\ NunchukButtons \ b.up = s.ext.buttons
    [] b.of = "classic via mp" ->
         active /\ \A i \in 1..2 : b.left[i] = Even(s.ext.left[i]) /\ ClassicButtons \ b.up = s.ext.buttons
    [] b.of = "nunchuk" -> ~active /\ \A i \in 1..3 : 4 * b.high[i] + b.low[i] = s.ext.accel[i]
    [] b.of = "classic" ->
         /\ ~active /\ b.left = s.ext.left /\ ClassicButtons \ b.up = s.ext.buttons
         /\ 8 * b.rx[1] + 2 * b.rx[2] + b.rx[3] = s.ext.right[1] /\ 8 * b.lt[1] + b.lt[2] = s.ext.triggers[1]
    [] b.of = "none" -> TRUE

\* Once nothing is left to send and data flows, the host reads the current inputs
\* from the last data report in every mode: to the precision of the mode, through
\* mode changes, camera set-up, accessory swaps and MotionPlus forwarding (data,
\* basic_ir, extensions::packet).
WiiReadsState ==
  Settled /\ proto.reporting = "running" =>
    LET r == Last(shown)
        points == IF proto.ir_enabled[1] /\ IrReady(proto.memory) THEN state.ir ELSE <<<<>>, <<>>, <<>>, <<>>>>
    IN /\ shown # << >>
       /\ r.id = 61 \/ r.keys = state.buttons
       /\ AccelShows(r, state.accel)
       /\ r.id \in {54, 55} =>
            \A i \in 1..4 : LET q == <<r.ir[i][1] + 256 * r.ir[i][3], r.ir[i][2] + 256 * r.ir[i][4]>> IN
              IF points[i] = << >> THEN q[2] > 767 ELSE q = points[i]
       /\ WindowShows(r.packet, state, proto.memory.mp_mode # 0)

\* The host's picture of the extension port follows the device: it knows whether
\* something is plugged in, and never takes an accessory for initialised that was
\* replaced or reset since, also when the swap crosses its own writes or a stop
\* and a start (change_attachment, accept_inner, Memory::reset_extension).
AttachmentAgreed ==
  Settled /\ proto.valid =>
    /\ host.present = Present(proto.memory, state)
    /\ host.ready => proto.memory.initialized = "done"
    /\ topology.shape = Shape(state) /\ Shape(proto.state) = Shape(state)

\* Acknowledgements come in the order of the reports that asked for them, once
\* each; a read returns consecutive chunks up to its length or one error, and an
\* EEPROM read never fails after its first chunk; none is left waiting (accept,
\* input, Memory::read_chunk).
AnsweredInOrder ==
  /\ ~host.confused
  /\ Settled => host.owed = << >> /\ host.reading = << >>
  /\ Len(proto.pending) <= MaxPending /\ Len(queue) <= InputQueue

\* The EEPROM is the imported image with every write the device accepted, whether
\* or not its acknowledgement got out; the terminal snapshot is that image, and a
\* resource reported clean is the imported one (Memory::write, ResourceSession::resolve).
SnapshotHonest ==
  target = "uhid" =>
    LET promised == FoldLeft(LAMBDA f, o : Wrote(f, o.w), host.eeprom, host.owed) IN
    /\ \A a \in DOMAIN promised : proto.memory.image[a + 1] = promised[a]
    /\ ~proto.memory.dirty => proto.memory.image = Image
    /\ resolution # << >> /\ resolution[1] = "keep" => resolution[2] = proto.memory.image

\* On uinput there is one open node per part of the controller, and a controller
\* that reports itself clean shows its current state on every one of them, also
\* after a commit that failed half way; a frame has a value for every declared axis (Nodes::install, Nodes::commit, is_dirty).
NodesShowState ==
  target = "uinput" /\ ~closed =>
    /\ {nodes[i].role : i \in DOMAIN nodes} = Roles(state)
    /\ \A i \in DOMAIN nodes : \A f \in ToSet(nodes[i].shown) :
         f.keys \subseteq Specification(nodes[i].role).keys /\ Len(f.axes) = Len(Specification(nodes[i].role).axes)
    /\ ~dirty /\ (\A i \in DOMAIN nodes : ~nodes[i].dirty) =>
         /\ shown = <<Frame("core", state)>>
         /\ \A i \in DOMAIN nodes : nodes[i].shown = <<Frame(nodes[i].role, state)>>

=============================================================================
