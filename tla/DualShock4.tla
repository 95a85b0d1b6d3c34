----------------------------- MODULE DualShock4 -----------------------------
(***************************************************************************)
(* The DualShock 4 personality. Its protocol is the snapshot protocol of   *)
(* module PadCommon.                                                       *)
(***************************************************************************)
EXTENDS PadCommon

FaceControl == [south |-> "cross", east |-> "circle", west |-> "square", north |-> "triangle"]

FaceOrder == <<"cross", "circle", "square", "triangle">>

ButtonOrder == <<"l1", "r1", "share", "options", "playstation", "touchpad-click",
                 "left-stick-press", "right-stick-press">>

Controls == ToSet(FaceOrder) \cup ToSet(ButtonOrder)

Neutral ==
  [held |-> {}, dpad |-> {}, left |-> <<128, 128>>, right |-> <<128, 128>>, trig |-> <<0, 0>>,
   touch |-> <<NoContact, NoContact>>, tseq |-> 0, gyro |-> <<0, 0, 0>>, acc |-> <<0, 0, 0>>,
   seq |-> 0, exposed |-> FALSE, level |-> 100]

Touched(s) == \E i \in 1..2 : s.touch[i] # NoContact

\* Releasing a contact is itself a touch update.
Neutralize(s) ==
  [Neutral EXCEPT !.exposed = s.exposed, !.level = s.level, !.seq = s.seq,
                  !.tseq = Wrap(s.tseq + Flag(Touched(s)))]

----------------------------------------------------------------------------
Digital ==
  "l2-button" :> 312 @@ "r2-button" :> 313 @@ "cross" :> 304 @@ "circle" :> 305
  @@ "square" :> 308 @@ "triangle" :> 307 @@ "l1" :> 310 @@ "r1" :> 311 @@ "share" :> 314
  @@ "options" :> 315 @@ "playstation" :> 316 @@ "touchpad-click" :> 704
  @@ "left-stick-press" :> 317 @@ "right-stick-press" :> 318

Axes ==
  0 :> <<0, 255>> @@ 1 :> <<0, 255>> @@ 2 :> <<0, 255>> @@ 3 :> <<0, 255>> @@ 4 :> <<0, 255>>
  @@ 5 :> <<0, 255>> @@ 16 :> <<-1, 1>> @@ 17 :> <<-1, 1>>
  @@ 47 :> <<0, 1>> @@ 57 :> <<-1, 127>> @@ 53 :> <<0, 1919>> @@ 54 :> <<0, 941>>

OutputKinds(t) ==
  IF t = "uinput" THEN {"strong-weak-rumble"} ELSE {"left-right-rumble", "rgb-led"}

Restrictions(t) ==
  {"physical-device fidelity"} \cup
  CASE t = "uinput" -> {"touch companion", "automatic force-feedback trigger", "motion", "battery reporting", "RGB lightbar"}
    [] t = "uhid" -> {}
    [] OTHER -> {"retained host outputs"}

Topology(t) ==
  [buttons |-> {"share", "options", "playstation", "left-stick-press", "right-stick-press",
                "l1", "r1", "touchpad-click"} \cup ToSet(FaceOrder),
   dpad |-> TRUE, sticks |-> 2, triggers |-> 2, contacts |-> 2, motion |-> t # "uinput"]

Surface(t) ==
  [digital |-> Digital, axes |-> Axes, kinds |-> OutputKinds(t),
   restrictions |-> Restrictions(t), topology |-> Topology(t)]

Manifest == [t \in Targets |-> TRUE]

\* The uinput device declares these key codes and axes.
EvdevRealization == [key |-> {Digital[c] : c \in DOMAIN Digital} \cup {330}, abs |-> DOMAIN Axes]

\* Which report classes carry an identifier: input, output, feature.
HidRealization == <<TRUE, TRUE, TRUE>>

\* create_*: the targets on which the neutral state is committed before returning.
CommitsOnCreate == {"uhid", "dummy_hcd"}

----------------------------------------------------------------------------
SetNative(s) == Presses(s, Controls)
ApplyDigital(s) == Digitals(s, FaceControl)
SetSticks(s) == Sticks(s, Bytes)
SetTriggers(s) == {[s EXCEPT !.trig = p] : p \in Pairs(Bytes)}
AdvanceTiming(s) ==
  [s EXCEPT !.seq = Wrap(@ + 1), !.tseq = Wrap(@ + Flag(Touched(s)))]
\* Accepted on every target, although evdev presents no motion.
SetMotion(s) == {AdvanceTiming(m) : m \in Motions(s)}
SetTouch(s) ==
  {[s EXCEPT !.touch[i] = c, !.tseq = Wrap(@ + 1)] :
     i \in 1..2, c \in {c \in Contacts : ValidContact(c)} \cup {NoContact}}

Edits(t, s) ==
  SetNative(s) \cup ApplyDigital(s) \cup SetSticks(s) \cup SetTriggers(s) \cup SetMotion(s)
    \cup SetTouch(s) \cup {Neutralize(s)}

----------------------------------------------------------------------------
Evdev(s) ==
  [key |-> ZipKeys(<<304, 305, 308, 307>>, FaceOrder, s.held)
             @@ ZipKeys(<<310, 311, 314, 315, 316, 704, 317, 318>>, ButtonOrder, s.held)
             @@ 312 :> (s.trig[1] # 0) @@ 313 :> (s.trig[2] # 0) @@ 330 :> Touched(s),
   abs |-> 0 :> s.left[1] @@ 1 :> s.left[2] @@ 2 :> s.trig[1] @@ 3 :> s.right[1]
             @@ 4 :> s.right[2] @@ 5 :> s.trig[2] @@ 16 :> DpadX(s.dpad) @@ 17 :> DpadY(s.dpad),
   mt |-> s.touch]

ReportBits ==
  "square" :> <<4, 4>> @@ "cross" :> <<4, 5>> @@ "circle" :> <<4, 6>>
  @@ "triangle" :> <<4, 7>> @@ "l1" :> <<5, 0>> @@ "r1" :> <<5, 1>>
  @@ "share" :> <<5, 4>> @@ "options" :> <<5, 5>>
  @@ "left-stick-press" :> <<5, 6>> @@ "right-stick-press" :> <<5, 7>>
  @@ "playstation" :> <<6, 0>> @@ "touchpad-click" :> <<6, 1>>

Report(s) ==
  [id |-> 1,
   axes |-> s.left \o s.right \o s.trig,
   seq |-> s.seq % 16,
   hat |-> HatOf[s.dpad],
   bits |-> {ReportBits[c] : c \in s.held}
           \cup (IF s.trig[1] # 0 THEN {<<5, 2>>} ELSE {})
           \cup (IF s.trig[2] # 0 THEN {<<5, 3>>} ELSE {}),
   gyro |-> <<s.gyro[1], s.gyro[3], WrapNeg(s.gyro[2])>>,
   acc |-> s.acc,
   tseq |-> s.tseq,
   touch |-> [i \in 1..2 |-> PackContact(s.touch[i])],
   status |-> 27]

\* The report under the protocol's own counters.
Encode(s, sequence) == Report([s EXCEPT !.seq = sequence, !.tseq = sequence])

----------------------------------------------------------------------------
WorkerEncode(s) ==
  <<s.held \cap ToSet(FaceOrder), s.dpad, s.left, s.right, s.trig, s.held \cap ToSet(ButtonOrder),
    [i \in 1..2 |-> IF s.touch[i] = NoContact THEN <<0>>
                    ELSE <<1, s.touch[i].id, s.touch[i].x, s.touch[i].y>>],
    s.acc, s.gyro, s.tseq, s.seq, s.exposed, s.level>>

WorkerDecode(w) ==
  LET contact(b) == IF b[1] = 0 THEN NoContact ELSE [id |-> b[2], x |-> b[3], y |-> b[4]] IN
  [held |-> w[1] \cup w[6], dpad |-> w[2], left |-> w[3], right |-> w[4], trig |-> w[5],
   touch |-> [i \in 1..2 |-> contact(w[7][i])], acc |-> w[8], gyro |-> w[9], tseq |-> w[10],
   seq |-> w[11], exposed |-> w[12], level |-> w[13]]

----------------------------------------------------------------------------
OutputGroups == {"motors", "lightbar", "blink"}

\* The event for the application: motors whatever the valid bits say.
Decode(r) ==
  IF r.id = 5 /\ r.len >= 5
  THEN {"motors"} \cup (IF <<0, 1>> \in r.flags /\ r.len >= 8 THEN {"lightbar"} ELSE {})
  ELSE {}

AcceptOutput(r) == r.kind = "output" /\ r.id = 5 /\ r.len = 31

Retain(old, r) ==
  [g \in OutputGroups |->
     IF \/ g = "motors" /\ <<0, 0>> \in r.flags
        \/ g = "lightbar" /\ <<0, 1>> \in r.flags
        \/ g = "blink" /\ <<0, 2>> \in r.flags
     THEN r.v ELSE old[g]]

\* dualshock4_feature_responses; report 0x12 carries the identity.
Features == 2 :> "calibration" @@ 18 :> "identity" @@ 163 :> "firmware"

NewProtocol == SnapshotNew(OutputGroups)
Deadline(p) == SnapshotDeadline(p)
Input(p, s) == SnapshotInput(p, Encode(s, p.seq), TRUE)
Request(p, q) == SnapshotRequest(p, q, Features, AcceptOutput(q), Retain(p.retained, q))
Output(p, r) == SnapshotOutput(p, AcceptOutput(r), Retain(p.retained, r))
Lifecycle(p, e) == SnapshotLifecycle(p, e, <<TRUE, TRUE, TRUE>>)

----------------------------------------------------------------------------
(* The host: hid-playstation.                                              *)
Shown(s) ==
  [held |-> s.held, dpad |-> HatOf[s.dpad], axes |-> s.left \o s.right \o s.trig,
   gyro |-> <<s.gyro[1], TurnedTwice(s.gyro[2]), s.gyro[3]>>, acc |-> s.acc,
   touch |-> [i \in 1..2 |-> IF s.touch[i] = NoContact THEN NoContact
                             ELSE [s.touch[i] EXCEPT !.id = @ % 128]]]

HostView(f) ==
  [held |-> {c \in Controls : ReportBits[c] \in f.bits}, dpad |-> f.hat, axes |-> f.axes,
      gyro |-> <<f.gyro[1], -f.gyro[3], f.gyro[2]>>, acc |-> f.acc, touch |-> [i \in 1..2 |-> UnpackContact(f.touch[i])]]

HostFlags == "motors" :> {<<0, 0>>} @@ "lightbar" :> {<<0, 1>>} @@ "blink" :> {<<0, 2>>}

HostReport(G, v) ==
  [kind |-> "output", id |-> 5, len |-> 31, flags |-> UNION {HostFlags[g] : g \in G}, v |-> v, groups |-> G]

HostReports == {HostReport({g}, 1) : g \in OutputGroups} \cup {HostReport(OutputGroups, 2)}

StrayReports ==
  LET r == [HostReport({"lightbar"}, 3) EXCEPT !.groups = {}] IN
  {[r EXCEPT !.id = 2], [r EXCEPT !.len = 5], [r EXCEPT !.kind = "feature"]}
=============================================================================
