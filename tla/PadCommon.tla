----------------------------- MODULE PadCommon -----------------------------
(***************************************************************************)
(* What the four curated gamepad families share: the D-pad, the touch      *)
(* contact packing of the Sony pads, the generic nine-byte HID gamepad     *)
(* frame, the evdev snapshot and its split over two uinput devices.        *)
(* An evdev snapshot is the last value of every key code, of every         *)
(* absolute axis code and of every multi-touch slot it carries.            *)
(***************************************************************************)
EXTENDS Integers, Sequences, FiniteSets, SequencesExt

CONSTANTS
  Bytes,      \* values tried for an eight-bit axis or trigger
  Words,      \* values tried for a sixteen-bit axis
  Motion,     \* vectors tried for gyroscope and accelerometer
  Contacts,   \* contacts offered to a touch slot, valid or not
  Levels,     \* percentages offered as a battery level, valid or not
  Counter     \* values of a report counter, 256 in the code

Targets == {"uinput", "uhid", "dummy_hcd", "usbip"}

Dirs == {"up", "down", "left", "right"}
Faces == {"south", "east", "west", "north"}

None == "none"

\* A touch slot without a contact.
NoContact == [id |-> -1, x |-> 0, y |-> 0]

Flag(b) == IF b THEN 1 ELSE 0

\* i16::wrapping_neg and i16::saturating_neg.
WrapNeg(v) == IF v = -32768 THEN v ELSE -v
SaturatingNeg(v) == IF v = -32768 THEN 32767 ELSE -v

\* What a host that negates shows of a value sent through wrapping_neg: the value
\* itself, save the least one, which wraps to itself and comes out positive.
TurnedTwice(v) == IF v = -32768 THEN 32768 ELSE v

\* Rust's integer division truncates towards zero.
Quot(v, d) == IF v < 0 THEN -((-v) \div d) ELSE v \div d

\* u8::wrapping_add on a report counter.
Wrap(v) == v % Counter

----------------------------------------------------------------------------
(* Setter calls: the states one call of a setter may reach.                *)
Presses(s, controls) ==
  UNION {{[s EXCEPT !.held = @ \cup {c}], [s EXCEPT !.held = @ \ {c}]} : c \in controls}

\* apply_digital: a face button by position or one D-pad direction.
Digitals(s, faces) ==
  Presses(s, {faces[f] : f \in Faces})
    \cup UNION {{[s EXCEPT !.dpad = @ \cup {d}], [s EXCEPT !.dpad = @ \ {d}]} : d \in Dirs}

\* Values for two axes or triggers set at once, never the same, so that swapped ones show.
Pairs(values) == {p \in values \X values : p[1] # p[2]}

Sticks(s, values) ==
  {[s EXCEPT !.left = p] : p \in Pairs(values)} \cup {[s EXCEPT !.right = p] : p \in Pairs(values)}

\* One vector for the gyroscope and the same turned round for the accelerometer.
Motions(s) == {[s EXCEPT !.gyro = v, !.acc = <<v[3], v[1], v[2]>>] : v \in Motion}

\* BatteryState: exposure and level are independent; a level above 100 is refused.
Batteries(s) ==
  {[s EXCEPT !.exposed = e] : e \in BOOLEAN}
    \cup {[s EXCEPT !.level = l] : l \in {l \in Levels : l <= 100}}

\* TouchContact::new refuses a position outside the touch surface; any id is taken.
ValidContact(c) == c.x <= 1919 /\ c.y <= 941

\* Zipping event codes with buttons stops at the shorter of the two.
ZipKeys(codes, controls, held) ==
  [k \in {codes[i] : i \in 1..Len(codes)} |->
     \E i \in 1..Len(codes) : codes[i] = k /\ i <= Len(controls) /\ controls[i] \in held]

----------------------------------------------------------------------------
(* The hat switch: one value for each of the eight directions the host can *)
(* tell apart, 8 for rest and for every opposed pair.                      *)
HatOf ==
  [d \in SUBSET Dirs |->
     CASE d = {"up"} -> 0
       [] d = {"up", "right"} -> 1
       [] d = {"right"} -> 2
       [] d = {"down", "right"} -> 3
       [] d = {"down"} -> 4
       [] d = {"down", "left"} -> 5
       [] d = {"left"} -> 6
       [] d = {"up", "left"} -> 7
       [] OTHER -> 8]

\* evdev reports the D-pad as two signed axes: opposed buttons cancel.
DpadX(d) == Flag("right" \in d) - Flag("left" \in d)
DpadY(d) == Flag("down" \in d) - Flag("up" \in d)

\* hid_gamepad_frame: face buttons then the rest, one bit each, at most 16.
StandardFrame(order, held, dpad, axes) ==
  [bits |-> {i \in 1..Len(order) : i <= 16 /\ order[i] \in held},
   hat |-> HatOf[dpad],
   axes |-> axes]

----------------------------------------------------------------------------
(* A Sony contact in four bytes: seven bits of id, twelve of x, twelve of y*)
PackContact(c) ==
  IF c = NoContact THEN <<128, 0, 0, 0>>
  ELSE <<c.id % 128,
         c.x % 256,
         ((c.x \div 256) % 16) + 16 * (c.y % 16),
         ((16 * (c.y \div 256)) % 256) + ((c.y % 256) \div 16)>>

\* hid-playstation's reading of those bytes.
UnpackContact(b) ==
  IF b[1] >= 128 THEN NoContact
  ELSE [id |-> b[1], x |-> b[2] + 256 * (b[3] % 16), y |-> (b[3] \div 16) + 16 * b[4]]

TouchKeys == {325, 330}

(* The two uinput devices of a Sony pad and what each receives of one      *)
(* snapshot. Single-touch coordinates stand for the first active contact   *)
(* and are simply absent when there is none.                               *)
Split(e) ==
  LET active == SelectSeq(e.mt, LAMBDA c : c.id >= 0) IN
  [gamepad |-> [key |-> [k \in DOMAIN e.key \ TouchKeys |-> e.key[k]], abs |-> e.abs],
   touch |-> [key |-> [k \in DOMAIN e.key \cap TouchKeys |-> e.key[k]],
              mt |-> e.mt,
              legacy |-> IF active = << >> THEN << >> ELSE <<active[1].x, active[1].y>>]]

(* The event codes each of the two devices declares.                       *)
SplitCodes(keys, axes) ==
  [gamepad |-> [key |-> keys \ TouchKeys, abs |-> {a \in axes : a < 47}],
   touch |-> [key |-> keys \cap TouchKeys, abs |-> {a \in axes : a >= 47} \cup {0, 1}]]

----------------------------------------------------------------------------
(* SnapshotProtocol: the HID protocol of a personality whose every input   *)
(* report is the whole state (DualShock 4, Xbox 360). The report, the      *)
(* feature table, whether an output is accepted and what it retains are    *)
(* the personality's; the report counter, the deadline, the last report    *)
(* and the retained outputs are kept here.                                 *)

SnapshotNew(groups) ==
  [active |-> TRUE, valid |-> TRUE, seq |-> 1, next |-> "now", last |-> << >>,
   retained |-> [g \in groups |-> 0], rev |-> 0]

SnapshotDeadline(p) == p.next

\* A personality without a period sends nothing until the next change.
SnapshotInput(p, report, periodic) ==
  IF ~p.active THEN [proto |-> p, frames |-> << >>]
  ELSE [proto |-> [p EXCEPT !.last = <<report>>, !.seq = Wrap(@ + 1),
                            !.next = IF periodic THEN "later" ELSE "none"],
        frames |-> <<report>>]

\* retained::replace: the revision counts the outputs that changed something.
SnapshotKeep(p, retained) ==
  [p EXCEPT !.retained = retained, !.rev = @ + Flag(retained # p.retained)]

SnapshotRequest(p, q, features, accepted, retained) ==
  CASE q.op = "get" /\ q.kind = "feature" /\ q.id \in DOMAIN features ->
         [proto |-> p, reply |-> features[q.id]]
    [] q.op = "get" /\ q.kind = "input" /\ p.last # << >> /\ p.last[1].id = q.id ->
         [proto |-> p, reply |-> p.last[1]]
    [] q.op = "set" /\ accepted -> [proto |-> SnapshotKeep(p, retained), reply |-> "ok"]
    [] OTHER -> [proto |-> p, reply |-> "error"]

SnapshotOutput(p, accepted, retained) ==
  IF accepted THEN SnapshotKeep(p, retained) ELSE p

SnapshotLifecycle(p, e, numbered) ==
  CASE e.op = "start" -> [p EXCEPT !.valid = e.numbered = numbered, !.active = TRUE, !.next = "now"]
    [] e.op = "stop" -> [p EXCEPT !.active = FALSE, !.next = "none"]
    [] OTHER -> p
=============================================================================
