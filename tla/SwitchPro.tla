------------------------------ MODULE SwitchPro -----------------------------
(***************************************************************************)
(* The Switch Pro personality: twelve-bit sticks with a calibration the    *)
(* host reads from SPI memory, numbered replies to USB commands and        *)
(* subcommands, and a report stream the host has to switch on.             *)
(***************************************************************************)
EXTENDS PadCommon

CONSTANT MaxPending   \* replies the protocol holds before it answers Busy

FaceControl == [south |-> "b", east |-> "a", west |-> "y", north |-> "x"]

FaceOrder == <<"b", "a", "y", "x">>

ButtonOrder == <<"l", "r", "zl", "zr", "minus", "plus", "home", "capture",
                 "left-stick-press", "right-stick-press">>

Controls == ToSet(FaceOrder) \cup ToSet(ButtonOrder)

Neutral ==
  [held |-> {}, dpad |-> {}, left |-> <<0, 0>>, right |-> <<0, 0>>,
   gyro |-> <<0, 0, 0>>, acc |-> <<0, 0, 0>>, seq |-> 0, stream |-> FALSE]

Neutralize(s) == [Neutral EXCEPT !.seq = s.seq, !.stream = s.stream]

----------------------------------------------------------------------------
Digital ==
  "b" :> 304 @@ "a" :> 305 @@ "y" :> 308 @@ "x" :> 307 @@ "l" :> 310 @@ "r" :> 311
  @@ "zl" :> 312 @@ "zr" :> 313 @@ "minus" :> 314 @@ "plus" :> 315 @@ "home" :> 316
  @@ "capture" :> 309 @@ "left-stick-press" :> 317 @@ "right-stick-press" :> 318

Axes ==
  0 :> <<-32768, 32767>> @@ 1 :> <<-32768, 32767>> @@ 3 :> <<-32768, 32767>>
  @@ 4 :> <<-32768, 32767>> @@ 16 :> <<-1, 1>> @@ 17 :> <<-1, 1>>

OutputKinds(t) ==
  IF t = "uinput" THEN {"strong-weak-rumble"} ELSE {"hd-rumble", "player-indicator"}

Restrictions(t) ==
  CASE t = "uinput" -> {"automatic force-feedback trigger", "HD rumble", "motion", "console pairing"}
    [] t = "uhid" -> {"console pairing"}
    [] OTHER -> {"console pairing", "retained host outputs"}

Topology(t) ==
  [buttons |-> Controls, dpad |-> TRUE, sticks |-> 2, triggers |-> 0, contacts |-> 0,
   motion |-> t # "uinput"]

Surface(t) ==
  [digital |-> Digital, axes |-> Axes, kinds |-> OutputKinds(t),
   restrictions |-> Restrictions(t), topology |-> Topology(t)]

Manifest == [t \in {"uinput", "uhid", "dummy_hcd"} |-> TRUE]

\* The uinput device declares these key codes and axes.
EvdevRealization == [key |-> {Digital[c] : c \in DOMAIN Digital}, abs |-> DOMAIN Axes]

\* Which report classes carry an identifier: input, output, feature.
HidRealization == <<TRUE, TRUE, FALSE>>

\* create_*: the targets on which the neutral state is committed before returning.
CommitsOnCreate == {"dummy_hcd"}

----------------------------------------------------------------------------
SetNative(s) == Presses(s, Controls)
ApplyDigital(s) == Digitals(s, FaceControl)
SetSticks(s) == Sticks(s, Words)
SetMotion(s) == {[m EXCEPT !.seq = Wrap(@ + 1)] : m \in Motions(s)}

Edits(t, s) ==
  SetNative(s) \cup ApplyDigital(s) \cup SetSticks(s) \cup SetMotion(s) \cup {Neutralize(s)}

----------------------------------------------------------------------------
Evdev(s) ==
  [key |-> ZipKeys(<<304, 305, 308, 307>>, FaceOrder, s.held)
             @@ ZipKeys(<<310, 311, 312, 313, 314, 315, 316, 309, 317, 318>>, ButtonOrder, s.held),
   abs |-> 0 :> s.left[1] @@ 1 :> s.left[2] @@ 3 :> s.right[1] @@ 4 :> s.right[2]
             @@ 16 :> DpadX(s.dpad) @@ 17 :> DpadY(s.dpad),
   mt |-> << >>]

\* Sixteen bits scaled to twelve, so that the middle is 2048 and both ends are reached.
Stick(v) == ((v + 32768) * 4095 + 32767) \div 65535

Pack(x, y) ==
  <<Stick(x) % 256, (Stick(x) \div 256) + 16 * (Stick(y) % 16), Stick(y) \div 16>>

ReportBits ==
  "y" :> <<2, 0>> @@ "x" :> <<2, 1>> @@ "b" :> <<2, 2>> @@ "a" :> <<2, 3>> @@ "r" :> <<2, 6>>
  @@ "zr" :> <<2, 7>> @@ "minus" :> <<3, 0>> @@ "plus" :> <<3, 1>>
  @@ "right-stick-press" :> <<3, 2>> @@ "left-stick-press" :> <<3, 3>> @@ "home" :> <<3, 4>>
  @@ "capture" :> <<3, 5>> @@ "down" :> <<4, 0>> @@ "up" :> <<4, 1>> @@ "right" :> <<4, 2>>
  @@ "left" :> <<4, 3>> @@ "l" :> <<4, 6>> @@ "zl" :> <<4, 7>>

\* The twelve bytes every report and every subcommand reply begin with.
InputPrefix(s) ==
  [seq |-> s.seq,
   bits |-> {ReportBits[c] : c \in s.held \cup s.dpad},
   sticks |-> <<Pack(s.left[1], SaturatingNeg(s.left[2])),
                Pack(s.right[1], SaturatingNeg(s.right[2]))>>]

Report(s) ==
  [id |-> 48, prefix |-> InputPrefix(s),
   acc |-> <<Quot(s.acc[2], 4), Quot(WrapNeg(s.acc[1]), 4), Quot(s.acc[3], 4)>>,
   gyro |-> <<s.gyro[2], WrapNeg(s.gyro[1]), s.gyro[3]>>]

UsbReply(command) == [id |-> 129, command |-> command]

\* Stick calibration: left maximum, centre, minimum; right centre, minimum, maximum.
SpiByte(address) ==
  LET range == <<8, 135, 112>>
      centre == <<0, 8, 128>>
      sticks == range \o centre \o range \o centre \o range \o range
      imu == <<0, 0, 0, 0, 0, 0, 0, 64, 0, 64, 0, 64, 0, 0, 0, 0, 0, 0, 59, 52, 59, 52, 59, 52>>
  IN CASE address \in 24608..24631 -> imu[address - 24607]
       [] address \in 24637..24654 -> sticks[address - 24636]
       [] OTHER -> 255

\* The acknowledgement byte, and for a flash read the bytes read.
SubcommandReply(s, r) ==
  [id |-> 33, prefix |-> InputPrefix(s), sub |-> r.sub,
   ack |-> CASE r.sub = 2 -> 130
             [] r.sub = 16 /\ r.args # << >> -> 144
             [] r.sub = 4 -> 131
             [] r.sub = 33 -> 160
             [] OTHER -> 128,
   data |-> IF r.sub = 16 /\ r.args # << >>
            THEN [i \in 1..r.args[2] |-> SpiByte(r.args[1] + i - 1)] ELSE << >>]

EnablesStream(r) == r.id = 1 /\ r.len >= 10 /\ r.sub = 3 /\ r.args # << >> /\ r.args[1] = 48

----------------------------------------------------------------------------
OutputGroups == {"motors", "lights"}

Decode(r) ==
  (IF \/ r.id = 1 /\ r.len >= 10
      \/ r.id = 16 /\ r.len >= 9 THEN {"motors"} ELSE {})
  \cup (IF r.id = 1 /\ r.len >= 11 /\ r.sub = 48 THEN {"lights"} ELSE {})

Retain(old, r) == [g \in OutputGroups |-> IF g \in Decode(r) THEN r.v ELSE old[g]]

NewProtocol ==
  [active |-> TRUE, valid |-> TRUE, state |-> Neutral, seq |-> 0, stream |-> FALSE,
   pending |-> << >>, next |-> "now", retained |-> [g \in OutputGroups |-> 0], rev |-> 0]

Deadline(p) == p.next

Input(p, s) ==
  IF ~p.active THEN [proto |-> p, frames |-> << >>]
  ELSE LET now == [s EXCEPT !.seq = p.seq, !.stream = p.stream] IN
       [proto |-> [p EXCEPT !.state = now, !.pending = << >>, !.seq = Wrap(@ + 1),
                            !.next = IF p.stream THEN "later" ELSE "none"],
        frames |-> Append(p.pending, Report(now))]

\* Whether a report is one the protocol answers or takes without an answer.
Verdict(p, r) ==
  CASE r.kind # "output" -> "unsupported"
    [] r.kind = "output" /\ Len(p.pending) = MaxPending -> "busy"
    [] r.kind = "output" /\ Len(p.pending) # MaxPending /\ r.id \in {1, 16, 128} ->
         IF r.len >= (CASE r.id = 128 -> 1 [] r.id = 1 -> 10 [] r.id = 16 -> 9)
         THEN "ok" ELSE "invalid"
    [] OTHER -> "unsupported"

\* FaultyProcess leaves the deadline as it was.
FaultyProcess(p, r) ==
  IF Verdict(p, r) # "ok" THEN p
  ELSE LET new == Retain(p.retained, r) IN
       [p EXCEPT !.pending = CASE r.id = 128 -> Append(@, UsbReply(r.sub))
                               [] r.id = 1 -> Append(@, SubcommandReply(p.state, r))
                               [] OTHER -> @,
                 !.stream = @ \/ EnablesStream(r),
                 !.retained = new,
                 !.rev = @ + Flag(new # p.retained)]

\* process: all of it or, when it is refused, nothing.
Process(p, r) ==
  IF Verdict(p, r) # "ok" THEN p
  ELSE LET new == Retain(p.retained, r) IN
       [p EXCEPT !.pending = CASE r.id = 128 -> Append(@, UsbReply(r.sub))
                               [] r.id = 1 -> Append(@, SubcommandReply(p.state, r))
                               [] OTHER -> @,
                 !.stream = @ \/ EnablesStream(r),
                 !.next = "now",
                 !.retained = new,
                 !.rev = @ + Flag(new # p.retained)]

Request(p, q) ==
  IF q.op = "set" THEN [proto |-> Process(p, q),
                        reply |-> IF Verdict(p, q) = "ok" THEN "ok" ELSE "error"]
  ELSE [proto |-> p, reply |-> "error"]

\* A full queue ends the session: the host would wait for an answer that never comes.
Output(p, r) == Process(p, r)
OutputFails(p, r) == Verdict(p, r) = "busy"

Lifecycle(p, e) ==
  CASE e.op = "start" -> [p EXCEPT !.valid = e.numbered = <<TRUE, TRUE, FALSE>>,
                                   !.active = TRUE, !.next = "now"]
    [] e.op = "stop" -> [p EXCEPT !.active = FALSE, !.next = "none", !.pending = << >>]
    [] OTHER -> p

(* service on a target whose protocol runs in the application: every event *)
(* is answered from one copy of the state, in order.                       *)
DirectReply(s, r) ==
  CASE r.op = "output" /\ r.id = 128 /\ r.len >= 1 -> <<UsbReply(r.sub)>>
    [] r.op = "output" /\ r.id = 1 /\ r.len >= 10 -> <<SubcommandReply(s, r)>>
    [] OTHER -> << >>

----------------------------------------------------------------------------
(* The host: hid-nintendo, with the calibration it reads from the device.  *)
Toward(v) == IF v >= 32767 THEN 2 ELSE IF v > 0 THEN 1 ELSE IF v = 0 THEN 0
             ELSE IF v <= -32767 THEN -2 ELSE -1

Shown(s) ==
  [held |-> s.held, dpad |-> s.dpad,
   left |-> <<Toward(s.left[1]), Toward(s.left[2])>>,
   right |-> <<Toward(s.right[1]), Toward(s.right[2])>>,
   acc |-> <<Quot(TurnedTwice(s.acc[1]), 4), Quot(s.acc[2], 4), Quot(s.acc[3], 4)>>,
   gyro |-> <<TurnedTwice(s.gyro[1]), s.gyro[2], s.gyro[3]>>]

Unpack(b) == <<b[1] + 256 * (b[2] % 16), (b[2] \div 16) + 16 * b[3]>>

SpiWords(address) == Unpack(<<SpiByte(address), SpiByte(address + 1), SpiByte(address + 2)>>)

\* One axis, from the centre, the room below it and the room above it.
HostAxis(v, centre, below, above) ==
  LET h == IF v > centre THEN ((v - centre) * 32767) \div above
           ELSE -(((centre - v) * 32767) \div below)
  IN IF h > 32767 THEN 32767 ELSE IF h < -32767 THEN -32767 ELSE h

HostStick(b, above, centre, below) ==
  LET v == Unpack(b) IN
  <<Toward(HostAxis(v[1], SpiWords(centre)[1], SpiWords(below)[1], SpiWords(above)[1])),
    Toward(-HostAxis(v[2], SpiWords(centre)[2], SpiWords(below)[2], SpiWords(above)[2]))>>

HostView(f) ==
  LET on == {c \in DOMAIN ReportBits : ReportBits[c] \in f.prefix.bits} IN
  [held |-> on \ Dirs, dpad |-> on \cap Dirs,
   left |-> HostStick(f.prefix.sticks[1], 24637, 24640, 24643),
   right |-> HostStick(f.prefix.sticks[2], 24652, 24646, 24649),
   acc |-> <<-f.acc[2], f.acc[1], f.acc[3]>>,
   gyro |-> <<-f.gyro[2], f.gyro[1], f.gyro[3]>>]

HostReport(G, v) ==
  IF "lights" \in G
  THEN [kind |-> "output", id |-> 1, len |-> 11, sub |-> 48, args |-> <<v>>, v |-> v, groups |-> {"motors", "lights"}]
  ELSE [kind |-> "output", id |-> 16, len |-> 9, sub |-> 0, args |-> << >>, v |-> v, groups |-> {"motors"}]

Subcommand(sub, args) ==
  [kind |-> "output", id |-> 1, len |-> 10 + Len(args), sub |-> sub, args |-> args, v |-> 1,
   groups |-> {"motors"}]

HostReports ==
  {HostReport({"motors"}, 1), HostReport({"lights"}, 2), Subcommand(3, <<48>>), Subcommand(2, << >>),
   Subcommand(16, <<24637, 9>>), [Subcommand(4, << >>) EXCEPT !.id = 128, !.len = 1, !.groups = {}]}

StrayReports ==
  LET r == [HostReport({"motors"}, 3) EXCEPT !.groups = {}] IN
  {[r EXCEPT !.len = 8], [r EXCEPT !.id = 2], [r EXCEPT !.kind = "feature"]}
=============================================================================
