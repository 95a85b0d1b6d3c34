------------------------------- MODULE Xbox360 ------------------------------
(***************************************************************************)
(* The Xbox 360 personality: evdev on uinput, a generic HID gamepad report *)
(* elsewhere, and no host output that its HID protocol accepts.            *)
(***************************************************************************)
EXTENDS PadCommon

FaceControl == [south |-> "a", east |-> "b", west |-> "x", north |-> "y"]

FaceOrder == <<"a", "b", "x", "y">>

ButtonOrder == <<"left-shoulder", "right-shoulder", "back", "start", "guide",
                 "left-stick-press", "right-stick-press">>

Controls == ToSet(FaceOrder) \cup ToSet(ButtonOrder)

Neutral ==
  [held |-> {}, dpad |-> {}, left |-> <<0, 0>>, right |-> <<0, 0>>, trig |-> <<0, 0>>,
   exposed |-> FALSE, level |-> 100]

Neutralize(s) == [Neutral EXCEPT !.exposed = s.exposed, !.level = s.level]

----------------------------------------------------------------------------
Digital ==
  "a" :> 304 @@ "b" :> 305 @@ "x" :> 307 @@ "y" :> 308 @@ "left-shoulder" :> 310
  @@ "right-shoulder" :> 311 @@ "back" :> 314 @@ "start" :> 315 @@ "guide" :> 316
  @@ "left-stick-press" :> 317 @@ "right-stick-press" :> 318

Axes ==
  0 :> <<-32768, 32767>> @@ 1 :> <<-32768, 32767>> @@ 2 :> <<0, 255>> @@ 3 :> <<-32768, 32767>>
  @@ 4 :> <<-32768, 32767>> @@ 5 :> <<0, 255>> @@ 16 :> <<-1, 1>> @@ 17 :> <<-1, 1>>

OutputKinds(t) == IF t = "uinput" THEN {"strong-weak-rumble"} ELSE {}

Restrictions(t) ==
  CASE t = "uinput" -> {"automatic force-feedback trigger", "headset-audio", "chatpad"}
    [] t = "uhid" -> {"automatic force-feedback trigger", "headset-audio", "chatpad", "Xbox protocol identity"}
    [] t = "dummy_hcd" -> {"Xbox protocol identity", "headset-audio", "chatpad", "XInput/xpad protocol",
                           "retained host outputs"}
    [] t = "usbip" -> {"Xbox protocol identity", "chatpad", "XInput/xpad protocol", "retained host outputs"}

Topology(t) ==
  [buttons |-> Controls, dpad |-> TRUE, sticks |-> 2, triggers |-> 2, contacts |-> 0,
   motion |-> FALSE]

Surface(t) ==
  [digital |-> Digital, axes |-> Axes, kinds |-> OutputKinds(t),
   restrictions |-> Restrictions(t), topology |-> Topology(t)]

Manifest == [t \in Targets |-> t \in {"uinput", "usbip"}]

\* The uinput device declares these key codes and axes.
EvdevRealization == [key |-> {Digital[c] : c \in DOMAIN Digital}, abs |-> DOMAIN Axes]

\* Which report classes carry an identifier: input, output, feature.
HidRealization == <<FALSE, FALSE, FALSE>>

\* create_*: the targets on which the neutral state is committed before returning.
CommitsOnCreate == {}

----------------------------------------------------------------------------
SetNative(s) == Presses(s, Controls)
ApplyDigital(s) == Digitals(s, FaceControl)
SetSticks(s) == Sticks(s, Words)
SetTriggers(s) == {[s EXCEPT !.trig = p] : p \in Pairs(Bytes)}
SetBattery(s) == Batteries(s)

Edits(t, s) ==
  SetNative(s) \cup ApplyDigital(s) \cup SetSticks(s) \cup SetTriggers(s) \cup SetBattery(s)
    \cup {Neutralize(s)}

----------------------------------------------------------------------------
Evdev(s) ==
  [key |-> ZipKeys(<<304, 305, 307, 308>>, FaceOrder, s.held)
             @@ ZipKeys(<<310, 311, 314, 315, 316, 317, 318>>, ButtonOrder, s.held),
   abs |-> 0 :> s.left[1] @@ 1 :> s.left[2] @@ 2 :> s.trig[1] @@ 3 :> s.right[1]
             @@ 4 :> s.right[2] @@ 5 :> s.trig[2] @@ 16 :> DpadX(s.dpad) @@ 17 :> DpadY(s.dpad),
   mt |-> << >>]

\* The high byte of an axis moved to 0..255.
AxisByte(v) == (v + 32768) \div 256

\* The report is not numbered.
Report(s) ==
  [id |-> 0] @@
  StandardFrame(FaceOrder \o ButtonOrder, s.held, s.dpad,
                <<AxisByte(s.left[1]), AxisByte(s.left[2]), s.trig[1],
                  AxisByte(s.right[1]), AxisByte(s.right[2]), s.trig[2]>>)

----------------------------------------------------------------------------
WorkerEncode(s) ==
  <<s.held \cap ToSet(FaceOrder), s.dpad, s.left, s.right, s.trig, s.held \cap ToSet(ButtonOrder),
    s.exposed, s.level>>

WorkerDecode(w) ==
  [held |-> w[1] \cup w[6], dpad |-> w[2], left |-> w[3], right |-> w[4], trig |-> w[5],
   exposed |-> w[7], level |-> w[8]]

----------------------------------------------------------------------------
OutputGroups == {}
Decode(r) == {}
AcceptOutput(r) == FALSE
Retain(old, r) == old
Features == << >>

NewProtocol == SnapshotNew(OutputGroups)
Deadline(p) == SnapshotDeadline(p)
Input(p, s) == SnapshotInput(p, Report(s), FALSE)
Request(p, q) == SnapshotRequest(p, q, Features, AcceptOutput(q), Retain(p.retained, q))
Output(p, r) == SnapshotOutput(p, AcceptOutput(r), Retain(p.retained, r))
Lifecycle(p, e) == SnapshotLifecycle(p, e, <<FALSE, FALSE, FALSE>>)

----------------------------------------------------------------------------
(* The host: the generic gamepad driver, an axis to the nearest 256.       *)
Shown(s) ==
  [held |-> s.held, dpad |-> HatOf[s.dpad],
   axes |-> <<s.left[1] \div 256, s.left[2] \div 256, s.right[1] \div 256, s.right[2] \div 256>>,
   trig |-> s.trig]

HostView(f) ==
  LET order == FaceOrder \o ButtonOrder IN
  [held |-> {order[i] : i \in f.bits}, dpad |-> f.hat,
   axes |-> <<f.axes[1] - 128, f.axes[2] - 128, f.axes[4] - 128, f.axes[5] - 128>>,
   trig |-> <<f.axes[3], f.axes[6]>>]

HostReports == {}
StrayReports ==
  {[kind |-> "output", id |-> 1, len |-> 8, flags |-> {}, v |-> 1, groups |-> {}]}
=============================================================================
