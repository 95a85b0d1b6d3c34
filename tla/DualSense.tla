----------------------------- MODULE DualSense ------------------------------
(***************************************************************************)
(* The DualSense personality: its state and setters, the controls and      *)
(* capabilities each target advertises, the evdev snapshot and the USB     *)
(* report, the snapshot sent to a USB worker, and the protocol that        *)
(* answers the host.                                                       *)
(***************************************************************************)
EXTENDS PadCommon

FaceControl == [south |-> "cross", east |-> "circle", west |-> "square", north |-> "triangle"]

FaceOrder == <<"cross", "circle", "square", "triangle">>

ButtonOrder == <<"l1", "r1", "create", "options", "playstation", "touchpad-click",
                 "left-stick-press", "right-stick-press", "microphone-mute">>

Controls == ToSet(FaceOrder) \cup ToSet(ButtonOrder)

Neutral ==
  [held |-> {}, dpad |-> {}, left |-> <<128, 128>>, right |-> <<128, 128>>, trig |-> <<0, 0>>,
   touch |-> <<NoContact, NoContact>>, gyro |-> <<0, 0, 0>>, acc |-> <<0, 0, 0>>,
   seq |-> 1, exposed |-> FALSE, level |-> 100]

Neutralize(s) ==
  [Neutral EXCEPT !.exposed = s.exposed, !.level = s.level, !.seq = s.seq]

----------------------------------------------------------------------------
(* What a surface advertises.                                              *)
Digital ==
  "l2-button" :> 312 @@ "r2-button" :> 313 @@ "cross" :> 304 @@ "circle" :> 305
  @@ "square" :> 308 @@ "triangle" :> 307 @@ "l1" :> 310 @@ "r1" :> 311 @@ "create" :> 314
  @@ "options" :> 315 @@ "playstation" :> 316 @@ "touchpad-click" :> 704
  @@ "left-stick-press" :> 317 @@ "right-stick-press" :> 318
  @@ "touch-active" :> 330 @@ "touch-finger" :> 325

\* Axis code, with its declared minimum and maximum.
Axes ==
  0 :> <<0, 255>> @@ 1 :> <<0, 255>> @@ 2 :> <<0, 255>> @@ 3 :> <<0, 255>> @@ 4 :> <<0, 255>>
  @@ 5 :> <<0, 255>> @@ 16 :> <<-1, 1>> @@ 17 :> <<-1, 1>>
  @@ 47 :> <<0, 1>> @@ 53 :> <<0, 1919>> @@ 54 :> <<0, 941>> @@ 57 :> <<0, 255>>

OutputKinds(t) ==
  IF t = "uinput" THEN {"strong-weak-rumble"}
  ELSE {"left-right-rumble", "rgb-led", "mono-led", "player-indicator", "adaptive-trigger"}

Restrictions(t) ==
  CASE t = "uinput" -> {"touch companion", "automatic force-feedback trigger", "motion", "RGB lightbar",
                        "adaptive triggers", "audio"}
    [] t = "uhid" -> {"controller audio", "physical-device fidelity"}
    [] t = "dummy_hcd" -> {"controller audio routing", "physical-device fidelity",
                           "retained host outputs"}
    [] t = "usbip" -> {"controller-matching audio", "retained host outputs"}

SupportsMotion(t) == t \in {"uhid", "dummy_hcd", "usbip"}

\* The controls of the input topology, by the setter that serves them.
Topology(t) ==
  [buttons |-> {"create", "options", "playstation", "microphone-mute", "left-stick-press",
                "right-stick-press", "l1", "r1", "touchpad-click"} \cup ToSet(FaceOrder),
   dpad |-> TRUE, sticks |-> 2, triggers |-> 2, contacts |-> 2, motion |-> SupportsMotion(t)]

Surface(t) ==
  [digital |-> Digital, axes |-> Axes, kinds |-> OutputKinds(t),
   restrictions |-> Restrictions(t), topology |-> Topology(t)]

\* Targets that can be opened, and whether each needs a reverse channel.
Manifest == [t \in Targets |-> TRUE]

\* The uinput device declares these key codes and axes.
EvdevRealization == [key |-> {Digital[c] : c \in DOMAIN Digital}, abs |-> DOMAIN Axes]

\* Which report classes carry an identifier: input, output, feature.
HidRealization == <<TRUE, TRUE, TRUE>>

\* create_*: the targets on which the neutral state is committed before returning.
CommitsOnCreate == {"uinput", "uhid", "dummy_hcd"}

----------------------------------------------------------------------------
(* Setters.                                                                *)
SetNative(s) == Presses(s, Controls)
ApplyDigital(s) == Digitals(s, FaceControl)
SetSticks(s) == Sticks(s, Bytes)
SetTriggers(s) == {[s EXCEPT !.trig = p] : p \in Pairs(Bytes)}
SetTouch(s) ==
  {[s EXCEPT !.touch[i] = c] :
     i \in 1..2, c \in {c \in Contacts : ValidContact(c)} \cup {NoContact}}
AdvanceSensor(s) == [s EXCEPT !.seq = Wrap(@ + 1)]
SetMotion(t, s) ==
  IF SupportsMotion(t) THEN {AdvanceSensor(m) : m \in Motions(s)} ELSE {}
SetBattery(s) == Batteries(s)

Edits(t, s) ==
  SetNative(s) \cup ApplyDigital(s) \cup SetSticks(s) \cup SetTriggers(s) \cup SetTouch(s)
    \cup SetMotion(t, s) \cup SetBattery(s) \cup {Neutralize(s)}

----------------------------------------------------------------------------
(* Encoders.                                                               *)
EvdevTouches(s) ==
  LET active == \E i \in 1..2 : s.touch[i] # NoContact IN
  [key |-> [k \in {325, 330} |-> active], mt |-> s.touch]

Evdev(s) ==
  [key |-> ZipKeys(<<304, 305, 308, 307>>, FaceOrder, s.held)
             @@ ZipKeys(<<310, 311, 314, 315, 316, 704, 317, 318>>, ButtonOrder, s.held)
             @@ 312 :> (s.trig[1] # 0) @@ 313 :> (s.trig[2] # 0)
             @@ EvdevTouches(s).key,
   abs |-> 0 :> s.left[1] @@ 1 :> s.left[2] @@ 2 :> s.trig[1] @@ 3 :> s.right[1]
             @@ 4 :> s.right[2] @@ 5 :> s.trig[2] @@ 16 :> DpadX(s.dpad) @@ 17 :> DpadY(s.dpad),
   mt |-> EvdevTouches(s).mt]

\* Fully charged and on external power while hidden; else tenths, rounded up.
BatteryStatus(s) ==
  IF s.exposed THEN LET tenths == (s.level + 9) \div 10 IN IF tenths > 10 THEN 10 ELSE tenths
  ELSE 32

ReportBits ==
  "square" :> <<7, 4>> @@ "cross" :> <<7, 5>> @@ "circle" :> <<7, 6>>
  @@ "triangle" :> <<7, 7>> @@ "l1" :> <<8, 0>> @@ "r1" :> <<8, 1>>
  @@ "create" :> <<8, 4>> @@ "options" :> <<8, 5>>
  @@ "left-stick-press" :> <<8, 6>> @@ "right-stick-press" :> <<8, 7>>
  @@ "playstation" :> <<9, 0>> @@ "touchpad-click" :> <<9, 1>>
  @@ "microphone-mute" :> <<9, 2>>

Report(s) ==
  [id |-> 1,
   axes |-> s.left \o s.right \o s.trig,
   seq |-> s.seq,
   hat |-> HatOf[s.dpad],
   bits |-> {ReportBits[c] : c \in s.held}
           \cup (IF s.trig[1] # 0 THEN {<<8, 2>>} ELSE {})
           \cup (IF s.trig[2] # 0 THEN {<<8, 3>>} ELSE {}),
   gyro |-> <<s.gyro[1], s.gyro[3], WrapNeg(s.gyro[2])>>,
   acc |-> s.acc,
   touch |-> [i \in 1..2 |-> PackContact(s.touch[i])],
   status |-> BatteryStatus(s)]

----------------------------------------------------------------------------
(* The snapshot for a USB worker: fields in wire order, a contact led by a *)
(* presence byte, which the decoder checks against the same domains.       *)
WorkerEncode(s) ==
  <<s.held \cap ToSet(FaceOrder), s.dpad, s.left, s.right, s.trig, s.held \cap ToSet(ButtonOrder),
    [i \in 1..2 |-> IF s.touch[i] = NoContact THEN <<0>>
                    ELSE <<1, s.touch[i].id, s.touch[i].x, s.touch[i].y>>],
    s.acc, s.gyro, s.seq, s.exposed, s.level>>

\* FaultyWorkerDecode reads the two motion vectors in the other order.
FaultyWorkerDecode(w) ==
  LET contact(b) == IF b[1] = 0 THEN NoContact ELSE [id |-> b[2], x |-> b[3], y |-> b[4]] IN
  [held |-> w[1] \cup w[6], dpad |-> w[2], left |-> w[3], right |-> w[4], trig |-> w[5],
   touch |-> [i \in 1..2 |-> contact(w[7][i])], gyro |-> w[8], acc |-> w[9], seq |-> w[10],
   exposed |-> w[11], level |-> w[12]]

WorkerDecode(w) ==
  LET contact(b) == IF b[1] = 0 THEN NoContact ELSE [id |-> b[2], x |-> b[3], y |-> b[4]] IN
  [held |-> w[1] \cup w[6], dpad |-> w[2], left |-> w[3], right |-> w[4], trig |-> w[5],
   touch |-> [i \in 1..2 |-> contact(w[7][i])], acc |-> w[8], gyro |-> w[9], seq |-> w[10],
   exposed |-> w[11], level |-> w[12]]

----------------------------------------------------------------------------
(* Host outputs: which valid bits of flag bytes 0, 1 and 38 a report sets, *)
(* and the value v all of its groups carry.                                *)
OutputGroups == {"motors", "right-trigger", "left-trigger", "mute-led", "microphone-mute",
                 "audio-path", "speaker-volume", "microphone-volume", "speaker-preamp",
                 "player-leds", "lightbar"}

FlagGroup ==
  <<0, 0>> :> "motors" @@ <<38, 2>> :> "motors" @@ <<1, 0>> :> "mute-led"
  @@ <<1, 1>> :> "microphone-mute" @@ <<0, 7>> :> "audio-path" @@ <<0, 5>> :> "speaker-volume"
  @@ <<0, 6>> :> "microphone-volume" @@ <<1, 7>> :> "speaker-preamp"
  @@ <<1, 4>> :> "player-leds" @@ <<1, 2>> :> "lightbar"

Decode(r) ==
  IF r.id = 2 /\ r.len >= 47 THEN {FlagGroup[f] : f \in r.flags \cap DOMAIN FlagGroup} ELSE {}

\* Only a descriptor-sized report or Linux's padded one is accepted.
AcceptOutput(r) == r.kind = "output" /\ r.id = 2 /\ r.len \in {47, 62}

Retain(old, r) ==
  LET named == Decode(r)
               \cup (IF <<0, 2>> \in r.flags THEN {"right-trigger"} ELSE {})
               \cup (IF <<0, 3>> \in r.flags THEN {"left-trigger"} ELSE {})
  IN [g \in OutputGroups |-> IF g \in named THEN r.v ELSE old[g]]

\* Replies to feature reports; the pairing report carries the creation identity.
Features ==
  3 :> "capabilities" @@ 5 :> "calibration" @@ 9 :> "identity" @@ 32 :> "firmware"

----------------------------------------------------------------------------
(* DualSenseUsbProtocol.                                                   *)
NewProtocol ==
  [active |-> TRUE, valid |-> TRUE, seq |-> 1, next |-> "now", last |-> << >>,
   retained |-> [g \in OutputGroups |-> 0], rev |-> 0]

Deadline(p) == IF p.active THEN p.next ELSE "none"

Input(p, s) ==
  IF ~p.active THEN [proto |-> p, frames |-> << >>]
  ELSE LET f == Report([s EXCEPT !.seq = p.seq]) IN
       [proto |-> [p EXCEPT !.last = <<f>>, !.seq = Wrap(@ + 1), !.next = "later"],
        frames |-> <<f>>]

Keep(p, r) ==
  LET new == Retain(p.retained, r) IN
  [p EXCEPT !.retained = new, !.rev = @ + Flag(new # p.retained)]

Request(p, q) ==
  CASE q.op = "get" /\ q.kind = "feature" /\ q.id \in DOMAIN Features ->
         [proto |-> p, reply |-> Features[q.id]]
    [] q.op = "get" /\ q.kind = "input" /\ q.id = 1 /\ p.last # << >> ->
         [proto |-> p, reply |-> p.last[1]]
    [] q.op = "set" /\ AcceptOutput(q) -> [proto |-> Keep(p, q), reply |-> "ok"]
    [] OTHER -> [proto |-> p, reply |-> "error"]

\* An unacknowledged output is passed on even when it is not accepted.
Output(p, r) == IF AcceptOutput(r) THEN Keep(p, r) ELSE p

Lifecycle(p, e) ==
  CASE e.op = "start" -> [p EXCEPT !.valid = e.numbered = <<TRUE, TRUE, TRUE>>,
                                   !.active = TRUE, !.next = "now"]
    [] e.op = "stop" -> [p EXCEPT !.active = FALSE]
    [] OTHER -> p

----------------------------------------------------------------------------
(* The host: hid-playstation's reading of the report, and the reports it   *)
(* writes to set the groups G to v.                                        *)
Shown(s) ==
  [held |-> s.held, dpad |-> HatOf[s.dpad], axes |-> s.left \o s.right \o s.trig,
   gyro |-> <<s.gyro[1], TurnedTwice(s.gyro[2]), s.gyro[3]>>, acc |-> s.acc,
   touch |-> [i \in 1..2 |-> IF s.touch[i] = NoContact THEN NoContact
                             ELSE [s.touch[i] EXCEPT !.id = @ % 128]],
   full |-> ~s.exposed, empty |-> s.exposed /\ s.level = 0]

HostView(f) ==
  [held |-> {c \in Controls : ReportBits[c] \in f.bits}, dpad |-> f.hat, axes |-> f.axes,
      gyro |-> <<f.gyro[1], -f.gyro[3], f.gyro[2]>>, acc |-> f.acc, touch |-> [i \in 1..2 |-> UnpackContact(f.touch[i])],
      full |-> f.status \div 16 = 2, empty |-> f.status = 0]

HostFlags ==
  "motors" :> {<<0, 0>>} @@ "right-trigger" :> {<<0, 2>>} @@ "left-trigger" :> {<<0, 3>>}
  @@ "mute-led" :> {<<1, 0>>} @@ "microphone-mute" :> {<<1, 1>>} @@ "audio-path" :> {<<0, 7>>}
  @@ "speaker-volume" :> {<<0, 5>>} @@ "microphone-volume" :> {<<0, 6>>}
  @@ "speaker-preamp" :> {<<1, 7>>} @@ "player-leds" :> {<<1, 4>>} @@ "lightbar" :> {<<1, 2>>}

HostReport(G, v) ==
  [kind |-> "output", id |-> 2, len |-> 47, flags |-> UNION {HostFlags[g] : g \in G}, v |-> v, groups |-> G]

HostReports ==
  LET some == {"motors", "left-trigger", "mute-led", "speaker-volume", "lightbar"} IN
  {HostReport(some, 1), HostReport(OutputGroups \ some, 2),
   [HostReport({"motors"}, 2) EXCEPT !.flags = {<<38, 2>>}, !.len = 62]}

\* Reports of a host that means another device: wrong id, short, wrong class.
StrayReports ==
  LET r == [HostReport({"lightbar"}, 3) EXCEPT !.groups = {}] IN
  {[r EXCEPT !.id = 5], [r EXCEPT !.len = 46], [r EXCEPT !.kind = "feature"]}
=============================================================================
