----------------------------- MODULE DemoInput ------------------------------
(***************************************************************************)
(* The input cards of the demo (demo/src/gui/input_clusters.rs) over the   *)
(* input topologies of the six controllers: which events one frame of      *)
(* draw_editor emits, and what it retains in InputUiState.  The touchpad   *)
(* card, draw_touchpad with its retained contacts, comes first.            *)
(*                                                                         *)
(* A pad record holds TouchpadState and, beside it, the three things of    *)
(* InputUiState its card also changes: multi (the Multitouch hold of the   *)
(* pad), press (its actuation button: "up", "momentary" or "latched") and  *)
(* events, the events of this frame. Contacts are numbered from 1; a touch *)
(* event carries the position, <<>> for a release. One coordinate stands   *)
(* for both.                                                               *)
(*                                                                         *)
(* A topology maps every control to its kind and to the category whose     *)
(* Hold box governs it. Values are sequences: <<0>> and <<1>> for a        *)
(* button, <<v>> for an axis with 0 its neutral value and -1 and 1 below   *)
(* and above it, <<gyroscope, accelerometer>> for motion, the position or  *)
(* <<>> for a touch contact.                                               *)
(***************************************************************************)
EXTENDS Integers, Sequences, SequencesExt, TLC

CONSTANT Extent     \* positions of a touchpad are 0 .. Extent - 1

-----------------------------------------------------------------------------
(* The touchpad card.                                                      *)

NoContact == [active |-> FALSE, held |-> FALSE, relative |-> FALSE, x |-> 0, pending |-> FALSE]

NewPad(contacts) ==
    [selected |-> 1, contacts |-> [i \in 1 .. contacts |-> NoContact],
     relative |-> FALSE, timer |-> TRUE, started |-> FALSE, neutral |-> FALSE,
     pointer |-> FALSE, keyboard |-> 0, keys |-> FALSE,
     multi |-> FALSE, press |-> "up", events |-> <<>>]

Touch(i, point) == [kind |-> "touch", contact |-> i, value |-> point]
Click(down) == [kind |-> "click", contact |-> 0, value |-> <<IF down THEN 1 ELSE 0>>]

Emit(pad, evs) == [pad EXCEPT !.events = @ \o evs]
Contacts(pad) == 1 .. Len(pad.contacts)
AnyActive(pad) == \E i \in Contacts(pad) : pad.contacts[i].active

\* The releases of a set of contacts, in contact order.
Releases(pad, which) ==
    LET all == SelectSeq([i \in Contacts(pad) |-> i], LAMBDA i : i \in which)
    IN [k \in DOMAIN all |-> Touch(all[k], <<>>)]

TouchContactPersists(pad, i) == pad.contacts[i].held /\ (i = 1 \/ pad.multi)

TouchContactSelectable(pad, i) ==
    i = 1 \/ (pad.multi /\ pad.contacts[i - 1].active /\ pad.contacts[i - 1].held)

ClampTouchCoordinate(v) == IF v < 0 THEN 0 ELSE IF v >= Extent THEN Extent - 1 ELSE v

\* emit_touch_move: the selected contact goes to the point, and the active contacts
\* marked relative move along with it.
EmitTouchMove(pad, point) ==
    LET delta == point - pad.contacts[pad.selected].x
        moves == {i \in Contacts(pad) :
                    i = pad.selected \/ (pad.relative /\ pad.contacts[i].relative
                                                      /\ pad.contacts[i].active)}
        to(i) == IF i = pad.selected THEN point
                 ELSE ClampTouchCoordinate(pad.contacts[i].x + delta)
        order == SelectSeq([i \in Contacts(pad) |-> i], LAMBDA i : i \in moves)
    IN Emit([pad EXCEPT !.contacts = [i \in Contacts(pad) |->
                IF i \in moves THEN [@[i] EXCEPT !.active = TRUE, !.x = to(i)] ELSE @[i]]],
            [k \in DOMAIN order |-> Touch(order[k], <<to(order[k])>>)])

Lift(pad, i) ==
    Emit([pad EXCEPT !.contacts[i].active = FALSE, !.contacts[i].pending = FALSE],
         <<Touch(i, <<>>)>>)

\* reset_touchpad: every active contact is released, and the canvas ignores a space
\* key that is still down.
ResetTouchpad(pad) ==
    LET active == {i \in Contacts(pad) : pad.contacts[i].active}
    IN [Emit(pad, Releases(pad, active)) EXCEPT
            !.contacts = [i \in Contacts(pad) |-> NoContact], !.selected = 1,
            !.relative = FALSE, !.started = FALSE, !.keyboard = 0, !.keys = TRUE]

\* clear_touchpad_input: the reset, the end of Multitouch, and the release of the
\* pad's button if it was down.
ClearTouchpadInput(pad) ==
    LET reset == ResetTouchpad([pad EXCEPT !.multi = FALSE])
    IN [Emit(reset, IF pad.press = "up" THEN <<>> ELSE <<Click(FALSE)>>) EXCEPT !.press = "up"]

\* configure_touchpad_lockout, for a changed checkbox: turning the timer off clears
\* the pad, turning it on restarts the time of what is touched.
ConfigureTouchpadLockout(pad, enabled) ==
    IF pad.timer /\ ~enabled THEN [ClearTouchpadInput(pad) EXCEPT !.timer = FALSE]
    ELSE [pad EXCEPT !.timer = enabled,
                     !.started = enabled /\ (pad.started \/ AnyActive(pad))]

\* normalize_touch_contacts: without its hold, or behind a contact that is not held
\* and active, a contact is released.
NormalizeTouchContacts(pad) ==
    LET valid(i) == /\ pad.contacts[i].held
                    /\ i > 1 => /\ pad.multi
                                /\ \A j \in 1 .. i - 1 : pad.contacts[j].active /\ pad.contacts[j].held
        lost == {i \in Contacts(pad) : ~valid(i)}
        kept == [pad EXCEPT !.contacts = [i \in Contacts(pad) |->
                    IF i \in lost THEN [@[i] EXCEPT !.active = FALSE, !.relative = FALSE] ELSE @[i]]]
        reachable == /\ pad.multi
                     /\ \A j \in 1 .. pad.selected - 1 :
                            kept.contacts[j].active /\ kept.contacts[j].held
    IN Emit([kept EXCEPT !.selected = IF @ > 1 /\ ~reachable THEN 1 ELSE @],
            Releases(pad, {i \in lost : pad.contacts[i].active}))

-----------------------------------------------------------------------------
(* The keyboard finger.                                                     *)

\* release_keyboard_contact: the contact the space key put down is lifted, unless
\* its hold keeps it.
ReleaseKeyboardContact(pad) ==
    LET i == pad.keyboard
        free == [pad EXCEPT !.keyboard = 0]
    IN IF i # 0 /\ pad.contacts[i].active /\ ~TouchContactPersists(pad, i)
       THEN Lift(free, i) ELSE free

\* touch_keyboard_command: what the keyboard says in this frame.
NoKeys == [focused |-> FALSE, pressed |-> FALSE, down |-> FALSE, direction |-> 0]

\* The press edge of the space key toggles a persisting contact and puts down any
\* other; a direction moves the contact that is down.
SpacePressed(pad) ==
    LET i == pad.selected
    IN IF pad.contacts[i].active /\ TouchContactPersists(pad, i)
       THEN [Lift(pad, i) EXCEPT !.keyboard = 0]
       ELSE EmitTouchMove([pad EXCEPT !.keyboard = i], pad.contacts[i].x)

UpdateTouchKeyboard(pad, k, suppressed) ==
    LET ready == [pad EXCEPT !.keys = @ /\ k.down]
    IN IF ~k.focused \/ suppressed
       THEN LET free == ReleaseKeyboardContact(ready)
            IN [free EXCEPT !.keys = @ \/ k.down]
       ELSE IF ready.keys THEN ready
       ELSE LET free == IF (ready.keyboard # 0 /\ ready.keyboard # ready.selected) \/ ~k.down
                        THEN ReleaseKeyboardContact(ready) ELSE ready
                toggled == k.pressed /\ free.contacts[free.selected].active
                                     /\ TouchContactPersists(free, free.selected)
                down == IF k.pressed THEN SpacePressed(free) ELSE free
            IN IF ~TouchContactSelectable(free, free.selected) THEN free
               ELSE IF toggled \/ k.direction = 0 \/ ~down.contacts[down.selected].active THEN down
               ELSE EmitTouchMove(down,
                        ClampTouchCoordinate(down.contacts[down.selected].x + k.direction))

-----------------------------------------------------------------------------
(* The card.                                                                *)

\* Before the card is drawn, the contacts follow the points of the native state,
\* unless a reset waits for them to become neutral; a click of the frame before is
\* lifted now.
SyncContacts(pad, points) ==
    LET waits == pad.neutral /\ \E i \in DOMAIN points : points[i] # <<>>
        lifted == {i \in Contacts(pad) : pad.contacts[i].pending}
        now(i) == LET c == pad.contacts[i]
                  IN IF c.pending THEN [c EXCEPT !.active = FALSE, !.pending = FALSE]
                     ELSE IF points[i] # <<>> THEN [c EXCEPT !.active = TRUE, !.x = points[i][1]]
                     ELSE IF c.held /\ pad.multi THEN c
                     ELSE [c EXCEPT !.active = FALSE]
        synced == IF waits THEN pad
                  ELSE Emit([pad EXCEPT !.neutral = FALSE,
                                !.contacts = [i \in Contacts(pad) |-> now(i)]],
                            Releases(pad, lifted))
    IN [synced EXCEPT !.started = synced.timer /\ AnyActive(synced)]

\* The card's widgets, at most one of which the user operates in a frame.
\* g.kind says which; g.n is a contact or a position.
Header(pad, g) ==
    CASE g.kind = "multitouch" /\ pad.multi -> ClearTouchpadInput(pad)
      [] g.kind = "multitouch" /\ ~pad.multi -> [pad EXCEPT !.multi = TRUE]
      [] g.kind = "timer" -> ConfigureTouchpadLockout(pad, ~pad.timer)
      [] OTHER -> pad

Resets(pad, g) ==
    \/ g.kind = "multitouch" /\ pad.multi
    \/ g.kind = "timer" /\ pad.timer
    \/ g.kind = "reset"

\* The actuation button, held by Multitouch.
Actuate(pad, down, clicked) ==
    LET pressed == down \/ clicked
        flip == [pad EXCEPT !.press = IF @ = "latched" THEN "up" ELSE "latched"]
    IN IF pad.multi
       THEN IF clicked THEN Emit(flip, <<Click(pad.press # "latched")>>) ELSE pad
       ELSE IF pressed = (pad.press = "momentary") THEN pad
       ELSE Emit([pad EXCEPT !.press = IF pressed THEN "momentary" ELSE "up"], <<Click(pressed)>>)

\* The canvas: where the pointer puts the selected contact. A click without hold is
\* lifted by the next frame, the end of a drag at once.
Canvas(pad, r, suppressed) ==
    IF suppressed THEN pad
    ELSE IF r.down \/ r.clicked
    THEN EmitTouchMove([pad EXCEPT !.keyboard = 0,
            !.contacts[pad.selected].active = TRUE,
            !.contacts[pad.selected].pending =
                r.clicked /\ ~TouchContactPersists(pad, pad.selected)], r.point)
    ELSE IF r.stopped /\ ~TouchContactPersists(pad, pad.selected) THEN Lift(pad, pad.selected)
    ELSE pad

\* The contact strip: one box of contact g.n.
Strip(pad, g) ==
    LET open == TouchContactSelectable(pad, g.n)
    IN CASE g.kind = "select" /\ open -> [pad EXCEPT !.selected = g.n]
         [] g.kind = "hold" /\ open /\ (g.n = 1 \/ pad.multi) ->
                NormalizeTouchContacts([pad EXCEPT !.contacts[g.n].held = ~@])
         [] g.kind = "relative" /\ open /\ pad.relative ->
                [pad EXCEPT !.contacts[g.n].relative = ~@]
         [] OTHER -> pad

RelativeInput(pad) ==
    LET on == ~pad.relative
    IN [pad EXCEPT !.relative = on,
                   !.contacts = IF on THEN @
                                ELSE [i \in Contacts(pad) |-> [@[i] EXCEPT !.relative = FALSE]]]

\* The end of the card: the lockout clears the pad, otherwise what suppressed the
\* canvas is forgotten once its cause is gone.
LockoutExpires(pad, points, down) ==
    [ClearTouchpadInput(pad) EXCEPT
        !.neutral = @ \/ \E i \in DOMAIN points : points[i] # <<>>, !.pointer = down]

Settle(pad, points, down) ==
    [pad EXCEPT
        !.started = IF pad.pointer \/ pad.neutral THEN @ ELSE pad.timer /\ AnyActive(pad),
        !.pointer = @ /\ down,
        !.neutral = @ /\ \E i \in DOMAIN points : points[i] # <<>>]

\* draw_touchpad: one frame of the card. points are the native state's contacts,
\* g the widget operated, r the pointer on the canvas, b the pointer on the
\* actuation button, k the keyboard.
DrawTouchpad(pad, points, g, r, b, k) ==
    LET cleared(p) == IF g.kind = "reset" THEN ClearTouchpadInput(p) ELSE p
        marked(p) == [p EXCEPT !.neutral = @ \/ \E i \in DOMAIN points : points[i] # <<>>,
                               !.pointer = r.down]
        boxed(p) == IF g.kind = "relative input" THEN RelativeInput(p) ELSE Strip(p, g)
        ended(p) == IF g.kind = "expire" /\ p.timer /\ pad.started /\ p.started
                    THEN LockoutExpires(p, points, r.down)
                    ELSE Settle(p, points, r.down)
        operated(p, suppressed) ==
            ended(boxed(UpdateTouchKeyboard(Canvas(p, r, suppressed), k, suppressed)))
        headed(p, reset) ==
            operated(IF reset THEN marked(p) ELSE p, reset \/ p.neutral \/ p.pointer)
        drawn(p) == headed(cleared(Actuate(Header(p, g), b.down, b.clicked)), Resets(p, g))
    IN drawn(SyncContacts([pad EXCEPT !.events = <<>>], points))

-----------------------------------------------------------------------------
(* The other cards.                                                        *)

Families == {"Xbox", "DualSense", "DualShock4", "SwitchPro", "Wii", "Steam"}

Cluster(kind, category, ids) == [c \in ids |-> [kind |-> kind, cat |-> category]]

Face == Cluster("button", "face", {"south", "east", "west", "north"})
Dpad == Cluster("dpad", "dpad", {"up", "down", "left", "right"})
Stick(id, press) == Cluster("stick", id, {id}) @@ Cluster("button", id, {press})
Sticks == Stick("left-stick", "left-stick-press") @@ Stick("right-stick", "right-stick-press")
Stack(id, buttons, axes) == Cluster("trigger", id, buttons) @@ Cluster("slider", id, axes)
Auxiliary(ids) == Cluster("button", "auxiliary-buttons", ids)
Pad(id, click, points) == Cluster("click", id, click) @@ Cluster("touch", id, points)

XboxTopology ==
    Auxiliary({"back", "start", "guide"}) @@ Sticks @@ Dpad @@ Face
    @@ Stack("left-trigger-stack", {"left-shoulder"}, {"left-trigger"})
    @@ Stack("right-trigger-stack", {"right-shoulder"}, {"right-trigger"})

SonyStacks == Stack("left-trigger-stack", {"l1"}, {"l2"}) @@ Stack("right-trigger-stack", {"r1"}, {"r2"})
SonyPad == Pad("touchpad", {"touchpad-click"}, {"touchpad.1", "touchpad.2"})

DualSenseTopology ==
    Auxiliary({"create", "options", "playstation", "microphone-mute"}) @@ Sticks @@ Dpad @@ Face
    @@ SonyStacks @@ SonyPad @@ Cluster("motion", "motion", {"motion"})

DualShock4Topology ==
    Auxiliary({"share", "options", "playstation"}) @@ Sticks @@ Dpad @@ Face
    @@ SonyStacks @@ SonyPad @@ Cluster("motion", "motion", {"motion"})

SwitchProTopology ==
    Auxiliary({"minus", "plus", "home", "capture"}) @@ Sticks @@ Dpad @@ Face
    @@ Stack("left-trigger-stack", {"l", "zl"}, {}) @@ Stack("right-trigger-stack", {"r", "zr"}, {})
    @@ Cluster("motion", "motion", {"motion"})

SteamTopology ==
    Auxiliary({"qam", "menu", "view", "steam", "left_shoulder", "right_shoulder",
               "l4", "l5", "r4", "r5"})
    @@ Stick("left_stick", "left_stick.click") @@ Stick("right_stick", "right_stick.click")
    @@ Dpad @@ Face
    @@ Stack("left_trigger", {"left_trigger.click"}, {"left_trigger.axis"})
    @@ Stack("right_trigger", {"right_trigger.click"}, {"right_trigger.axis"})
    @@ Pad("left_pad", {"left_pad.click"}, {"left_pad.1"})
    @@ Pad("right_pad", {"right_pad.click"}, {"right_pad.1"})
    @@ Cluster("motion", "imu", {"imu"})

WiiRemoteButtons == {"left", "right", "up", "down", "plus", "minus", "one", "two", "a", "b", "home"}
NunchukButtons == {"nunchuk.c", "nunchuk.z"}
ClassicButtons ==
    {"classic.a", "classic.b", "classic.x", "classic.y", "classic.zl", "classic.zr",
     "classic.plus", "classic.minus", "classic.home", "classic.left", "classic.right",
     "classic.up", "classic.down", "classic.l", "classic.r"}

\* placed_button_groups: the Wii Remote's buttons are drawn in groups with a Hold
\* box each, its sensors as motion.
PlacedGroups(extension) ==
    Auxiliary(WiiRemoteButtons)
    @@ (CASE extension = "Nunchuk" -> Cluster("button", "nunchuk", NunchukButtons)
          [] extension = "Classic" -> Cluster("button", "classic", ClassicButtons)
          [] OTHER -> <<>>)

WiiBase ==
    PlacedGroups("None") @@ Pad("ir", {}, {"ir.1", "ir.2", "ir.3", "ir.4"})
    @@ Cluster("motion", "accel.x", {"accel.x"})

NunchukPart ==
    PlacedGroups("Nunchuk") @@ Cluster("stick", "nunchuk.stick", {"nunchuk.stick"})
    @@ Cluster("motion", "nunchuk.accel.x", {"nunchuk.accel.x"})

ClassicPart ==
    PlacedGroups("Classic")
    @@ Cluster("stick", "classic.left-stick", {"classic.left-stick"})
    @@ Cluster("stick", "classic.right-stick", {"classic.right-stick"})
    @@ Cluster("extra", "classic.lt", {"classic.lt", "classic.rt"})

Extensions == {"None", "Nunchuk", "Classic"}

WiiWithNunchuk == WiiBase @@ NunchukPart
WiiWithClassic == WiiBase @@ ClassicPart
WiiMaximum == WiiWithNunchuk @@ ClassicPart

CurrentTopology(family, extension) ==
    CASE family = "Xbox" -> XboxTopology
      [] family = "DualSense" -> DualSenseTopology
      [] family = "DualShock4" -> DualShock4Topology
      [] family = "SwitchPro" -> SwitchProTopology
      [] family = "Steam" -> SteamTopology
      [] family = "Wii" /\ extension = "Nunchuk" -> WiiWithNunchuk
      [] family = "Wii" /\ extension = "Classic" -> WiiWithClassic
      [] OTHER -> WiiBase

\* Every control a family ever has.
Maximum(family) == IF family = "Wii" THEN WiiMaximum ELSE CurrentTopology(family, "None")

\* hold_behavior: on a physical d-pad opposite directions exclude each other.
HoldsAdjacentPair(family) == family # "Steam"

NeutralValue(kind) ==
    CASE kind = "touch" -> <<>>
      [] kind = "motion" -> <<0, 0>>
      [] OTHER -> <<0>>

TouchPoints(pad) ==
    CASE pad = "touchpad" -> <<"touchpad.1", "touchpad.2">>
      [] pad = "left_pad" -> <<"left_pad.1">>
      [] pad = "right_pad" -> <<"right_pad.1">>
      [] OTHER -> <<"ir.1", "ir.2", "ir.3", "ir.4">>

Actuation(pad) ==
    CASE pad = "touchpad" -> "touchpad-click"
      [] pad = "left_pad" -> "left_pad.click"
      [] pad = "right_pad" -> "right_pad.click"
      [] OTHER -> "none"

Pads(topology) == {topology[c].cat : c \in {d \in DOMAIN topology : topology[d].kind = "touch"}}

-----------------------------------------------------------------------------
(* InputUiState.                                                            *)

NewUi(topology) ==
    [holds |-> {}, latched |-> {}, momentary |-> {},
     pads |-> [p \in Pads(topology) |->
                NewPad(Cardinality({c \in DOMAIN topology : topology[c].kind = "touch" /\ topology[c].cat = p}))]]

\* reconcile_views: what belongs to a control that is no longer there is dropped.
ReconcileViews(ui, topology) ==
    LET ids == {"auxiliary-buttons"} \cup DOMAIN topology \cup {topology[c].cat : c \in DOMAIN topology}
    IN [ui EXCEPT !.holds = @ \cap ids, !.latched = @ \cap DOMAIN topology,
                  !.momentary = @ \cap DOMAIN topology]

\* release_all.
ReleaseAll(ui) ==
    LET calm(pad) == [pad EXCEPT
            !.contacts = [i \in Contacts(pad) |-> [NoContact EXCEPT !.x = pad.contacts[i].x]],
            !.started = FALSE, !.neutral = FALSE, !.pointer = FALSE, !.keyboard = 0,
            !.keys = FALSE, !.multi = FALSE, !.press = "up"]
    IN [ui EXCEPT !.holds = {}, !.latched = {}, !.momentary = {},
                  !.pads = [p \in DOMAIN @ |-> calm(@[p])]]

Shown(ui) == ui.latched \cup ui.momentary

\* One control's part of a frame: what it does to the retained sets, and the values
\* it emits for itself.
NextMomentaryState(ui, c, r) ==
    LET next == r.down \/ r.clicked
    IN IF next = (c \in ui.momentary) THEN [ui |-> ui, out |-> <<>>]
       ELSE [ui |-> [ui EXCEPT !.momentary = IF next THEN @ \cup {c} ELSE @ \ {c}],
             out |-> <<<<IF next THEN 1 ELSE 0>>>>]

\* next_button_state and apply_button_press_state: with Hold a click toggles the
\* latch, without it the button follows the pointer.
NextButtonState(ui, c, r, hold) ==
    IF ~hold THEN NextMomentaryState(ui, c, r)
    ELSE IF ~r.clicked THEN [ui |-> ui, out |-> <<>>]
    ELSE IF c \in ui.latched
    THEN [ui |-> [ui EXCEPT !.latched = @ \ {c}, !.momentary = @ \ {c}], out |-> <<<<0>>>>]
    ELSE [ui |-> [ui EXCEPT !.latched = @ \cup {c}, !.momentary = @ \ {c}], out |-> <<<<1>>>>]

\* release_latched_button, when the Hold box of its category is cleared.
FaultyReleaseLatchedButton(ui, c) ==
    [ui |-> [ui EXCEPT !.latched = @ \ {c}, !.momentary = @ \ {c}], out |-> <<>>]

ReleaseLatchedButton(ui, c) ==
    [ui |-> [ui EXCEPT !.latched = @ \ {c}, !.momentary = @ \ {c}],
     out |-> IF c \in ui.latched THEN <<<<0>>>> ELSE <<>>]

\* A trigger stack releases every control of its own, latched or not.
ReleaseTrigger(ui, c) == [ui |-> [ui EXCEPT !.latched = @ \ {c}], out |-> <<<<0>>>>]

Then(first, second(_)) ==
    LET next == second(first.ui)
    IN [ui |-> next.ui, out |-> first.out \o next.out]

DrawButton(ui, c, r, hold, released) ==
    Then(IF released THEN ReleaseLatchedButton(ui, c) ELSE [ui |-> ui, out |-> <<>>],
         LAMBDA u : NextButtonState(u, c, r, hold))

DrawTrigger(ui, c, r, hold, released) ==
    Then(IF released THEN ReleaseTrigger(ui, c) ELSE [ui |-> ui, out |-> <<>>],
         LAMBDA u : NextButtonState(u, c, r, hold))

\* axis_release_value: what an axis keeps when it is let go.
AxisReleaseValue(value, hold) == IF hold THEN value ELSE <<0>>

\* draw_stick's pad: the pointer or the keyboard places it; let go, it returns.
AxisPad(value, r, hold) ==
    IF r.down \/ r.typed THEN r.value
    ELSE IF r.stopped \/ r.untyped THEN AxisReleaseValue(value, hold)
    ELSE value

DrawStick(value, r, hold, released) ==
    LET next == AxisPad(value, r, hold)
    IN (IF released THEN <<<<0>>>> ELSE <<>>) \o (IF next # value THEN <<next>> ELSE <<>>)

\* emit_axis_slider, and the slider's part of trigger_release_events.
EmitAxisSlider(value, r, hold, released) ==
    (IF released THEN <<<<0>>>> ELSE <<>>)
    \o (IF r.down /\ r.value # value THEN <<r.value>> ELSE <<>>)
    \o (IF ~hold /\ (r.stopped \/ r.clicked) THEN <<<<0>>>> ELSE <<>>)

\* draw_motion: the end of an interaction, or of Hold, returns both sensors;
\* a gyroscope that is absent keeps its value.
MotionShouldNeutralize(r, hold, released) == released \/ (~hold /\ (r.stopped \/ r.clicked))

DrawMotion(value, r, hold, released, gyroscope) ==
    LET moved == <<IF gyroscope THEN r.value[1] ELSE value[1], r.value[1]>>
    IN IF MotionShouldNeutralize(r, hold, released) THEN <<<<0, 0>>>>
       ELSE IF r.down /\ moved # value THEN <<moved>> ELSE <<>>

\* draw_extra_axis: a slider without Hold keeps its value, its Reset button clears it.
DrawExtraAxis(value, r) ==
    IF r.clicked THEN <<<<0>>>> ELSE IF r.down /\ r.value # value THEN <<r.value>> ELSE <<>>

Opposite(direction) ==
    CASE direction = "up" -> "down" [] direction = "down" -> "up"
      [] direction = "left" -> "right" [] OTHER -> "left"

\* emit_dpad_holdable, the direction the pointer is on: a latched direction of a
\* physical d-pad releases its opposite first.
DpadPair(ui, c, r, hold, adjacent) ==
    IF hold /\ r.clicked /\ adjacent /\ c \notin ui.latched
    THEN ReleaseLatchedButton(ui, Opposite(c)) ELSE [ui |-> ui, out |-> <<>>]

DrawDpad(ui, c, r, hold, released) ==
    LET calm == IF hold THEN [ui EXCEPT !.momentary = @ \ {c}] ELSE ui
    IN DrawButton(calm, c, r, hold, released)

-----------------------------------------------------------------------------
(* What each family's editor reads for the cards: stick_value,              *)
(* trigger_values, touch_points, motion_values and extra_axis. A stick,     *)
(* motion or extra axis the editor cannot read is not drawn.                *)

StickReads == {"left-stick", "right-stick"}
XboxReads == StickReads \cup {"left-shoulder", "left-trigger", "right-shoulder", "right-trigger"}
DualSenseReads == StickReads \cup {"l1", "l2", "r1", "r2", "touchpad.1", "touchpad.2", "motion"}
DualShock4Reads == StickReads \cup {"l1", "l2", "r1", "r2", "touchpad.1", "touchpad.2", "motion"}
SwitchProReads == StickReads \cup {"l", "zl", "r", "zr", "motion"}
SteamReads ==
    {"left_stick", "right_stick", "left_trigger.axis", "right_trigger.axis", "left_trigger.click",
     "right_trigger.click", "left_pad.1", "right_pad.1", "imu"}

WiiSticks(extension) ==
    CASE extension = "Nunchuk" -> {"nunchuk.stick"}
      [] extension = "Classic" -> {"classic.left-stick", "classic.right-stick"}
      [] OTHER -> {}
WiiMotion(extension) == {"accel.x"} \cup (IF extension = "Nunchuk" THEN {"nunchuk.accel.x"} ELSE {})
WiiAxes(extension) == IF extension = "Classic" THEN {"classic.lt", "classic.rt"} ELSE {}

Reads(family, extension) ==
    CASE family = "Xbox" -> XboxReads
      [] family = "DualSense" -> DualSenseReads
      [] family = "DualShock4" -> DualShock4Reads
      [] family = "SwitchPro" -> SwitchProReads
      [] family = "Steam" -> SteamReads
      [] OTHER -> WiiSticks(extension) \cup WiiMotion(extension) \cup WiiAxes(extension)
=============================================================================
