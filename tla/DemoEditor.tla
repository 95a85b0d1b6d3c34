----------------------------- MODULE DemoEditor -----------------------------
(***************************************************************************)
(* One controller's input panel in the demo: the frame of gui.rs that      *)
(* takes the worker's snapshot, draws the cards over the detached view     *)
(* (editor.rs), turns their events into edits of the family                *)
(* (native_editor.rs), and submits them as one batch; and the service      *)
(* worker that applies the batch to the controller.                        *)
(*                                                                         *)
(* The user has one pointer and one keyboard and operates at most one      *)
(* widget in a frame. egui, which reports what happened to each widget, is *)
(* external: a widget of a disabled panel may or may not be told that the  *)
(* pointer is still on it. A behaviour is about one family and a few of    *)
(* its controls, its subject.                                              *)
(***************************************************************************)
EXTENDS DemoInput

CONSTANTS Subjects,     \* pairs of a family and a set of its controls
          Prompt        \* the worker answers a batch before the next frame

VARIABLES family, subject,
          ui,           \* InputUiState
          view,         \* the detached state the cards are drawn from
          dev,          \* the controller's own state
          phase,        \* "ready", or a batch is "sent" or "applied"
          batch,
          pointer,      \* what the pointer's button went down on
          typing,       \* the stick whose keys are down
          space,        \* the space key is down on a touchpad
          asked,        \* what the events of the cards say the inputs are
          refused,      \* an attachment was refused
          open

vars == <<family, subject, ui, view, dev, phase, batch, pointer, typing, space, asked, refused, open>>

EditLimit == 64

All == Maximum(family)
Kind(c) == All[c].kind
Category(c) == All[c].cat
Sliders == {c \in subject : Kind(c) = "slider"}

\* steam_demo_neutral: the demo's Steam Controller rests with gravity on one axis,
\* which is not where letting go of its motion card puts it.
Rest(f, c) == IF f = "Steam" /\ c = "imu" THEN <<0, 1>> ELSE NeutralValue(Maximum(f)[c].kind)
NeutralState == [c \in subject |-> Rest(family, c)]
TouchControls == {c \in subject : Kind(c) = "touch"}
MyPads == {Category(c) : c \in TouchControls}
Present(v) == subject \cap DOMAIN CurrentTopology(family, v.ext)
Drawn(v) ==
    {c \in Present(v) : Kind(c) \in {"stick", "motion", "extra"} => c \in Reads(family, v.ext)}

Init ==
    \E s \in Subjects :
      /\ family = s[1] /\ subject = s[2]
      /\ LET topology == [c \in s[2] |-> Maximum(s[1])[c]]
             start == [state |-> [c \in s[2] |-> Rest(s[1], c)],
                       ext |-> "None", mp |-> FALSE]
         IN /\ ui = NewUi(topology)
            /\ view = start /\ dev = start /\ asked = start.state
      /\ phase = "ready" /\ batch = <<>>
      /\ pointer = "none" /\ typing = "none" /\ space = FALSE
      /\ refused = FALSE /\ open = TRUE

-----------------------------------------------------------------------------
(* What the user does in a frame.                                           *)

Gesture(kind, c, n) == [kind |-> kind, c |-> c, n |-> n]

Levels(c) ==
    CASE c \in MyPads -> 0 .. Extent - 1
      [] c \in subject /\ Kind(c) = "stick" -> {-1, 1}
      [] c \in subject /\ Kind(c) = "slider" /\ family = "Steam" -> {-1, 1}
      [] OTHER -> {1}

\* What a frame draws: the snapshot that answers the last batch, once it is there.
Current == IF phase = "sent" THEN view ELSE dev

\* The widgets the pointer can go down on: the canvas of a pad stands for its contacts.
Targets == (Drawn(Current) \ TouchControls) \cup MyPads

PadBoxes ==
    UNION {{Gesture(kind, p, 0) : kind \in {"multitouch", "timer", "reset", "relative input"}}
           \cup {Gesture(kind, p, i) : kind \in {"select", "hold", "relative"},
                                       i \in DOMAIN ui.pads[p].contacts} : p \in MyPads}

\* The boxes and buttons beside the controls, operated by a click.
Boxes ==
    {Gesture("hold", Category(c), 0) : c \in {d \in Drawn(Current) : Kind(d) \notin {"touch", "click", "extra"}}}
    \cup {Gesture("release all", "none", 0)} \cup PadBoxes
    \cup (IF family = "Wii" /\ subject # TouchControls
          THEN {Gesture("attach", e, 0) : e \in Extensions \ {Current.ext}} \cup {Gesture("motion plus", "none", 0)}
          ELSE {})
    \cup (IF family = "Steam" THEN {Gesture("side", c, 0) : c \in TouchControls} ELSE {})

\* A press and the release that makes it a click are in different frames, so one
\* frame sees the pointer on a box before the box changes.
Gestures ==
    IF pointer = "box" THEN {Gesture("drop", "box", 0)} \cup (IF phase = "sent" THEN {} ELSE Boxes)
    ELSE IF pointer # "none"
    THEN {Gesture("keep", pointer, v) : v \in Levels(pointer)}
         \cup {Gesture("click", pointer, 0), Gesture("drop", pointer, 0)}
    ELSE IF typing # "none"
    THEN {Gesture("type", typing, v) : v \in {-1, 1}} \cup {Gesture("untype", typing, 0)}
    ELSE IF space
    THEN {Gesture(kind, p, n) : kind \in {"space held", "space up"}, p \in MyPads, n \in {0, 1}}
    ELSE {Gesture("idle", "none", 0)} \cup {Gesture("expire", p, 0) : p \in MyPads}
         \cup (IF phase = "sent" THEN {} ELSE
               UNION {{Gesture("press", c, v) : v \in Levels(c)} : c \in Targets}
               \cup {Gesture("press", "box", 0)}
               \cup {Gesture("type", c, v) : c \in {d \in Drawn(Current) : Kind(d) = "stick"}, v \in {-1, 1}}
               \cup {Gesture("space", p, n) : p \in MyPads, n \in {-1, 0}})

NextPointer(g) ==
    IF g.kind \in {"press", "keep"} THEN g.c ELSE "none"

\* What egui tells the widget of control c; heard is FALSE for a disabled widget
\* that is told nothing. A stick senses drags only, so every release ends one.
Response(c, g, heard) ==
    LET on == heard /\ g.c = c
    IN [down |-> on /\ g.kind \in {"press", "keep"},
        clicked |-> on /\ g.kind = "click" /\ (c \in subject => Kind(c) # "stick"),
        stopped |-> on /\ (g.kind = "drop" \/ (g.kind = "click" /\ c \in subject /\ Kind(c) = "stick")),
        typed |-> on /\ g.kind = "type",
        untyped |-> on /\ g.kind = "untype",
        value |-> <<g.n>>, point |-> g.n]

Keys(p, g, heard) ==
    IF heard /\ g.c = p /\ g.kind \in {"space", "space held", "space up"}
    THEN [focused |-> TRUE, pressed |-> g.kind = "space", down |-> g.kind # "space up",
          direction |-> g.n]
    ELSE NoKeys

-----------------------------------------------------------------------------
(* draw_editor: the cards in turn.                                          *)

Event(c, v) == [c |-> c, v |-> v]
Events(c, values) == [k \in DOMAIN values |-> Event(c, values[k])]

HoldHeader(u, g) ==
    IF g.kind # "hold" \/ g.c \in MyPads THEN u
    ELSE [u EXCEPT !.holds = IF g.c \in @ THEN @ \ {g.c} ELSE @ \cup {g.c}]

DrawControl(acc, c, g, heard, shown) ==
    LET u == acc.ui
        r == Response(c, g, heard)
        hold == Category(c) \in u.holds
        released == g.kind = "hold" /\ g.c = Category(c) /\ ~hold
        value == shown.state[c]
        button(done) == [ui |-> done.ui, events |-> acc.events \o Events(c, done.out)]
        axis(values) == [ui |-> u, events |-> acc.events \o Events(c, values)]
    IN CASE Kind(c) = "button" -> button(DrawButton(u, c, r, hold, released))
         [] Kind(c) = "trigger" -> button(DrawTrigger(u, c, r, hold, released))
         [] Kind(c) = "dpad" ->
              LET pair == DpadPair(u, c, r, hold, HoldsAdjacentPair(family))
                  done == DrawDpad(pair.ui, c, r, hold, released)
              IN [ui |-> done.ui,
                  events |-> acc.events \o Events(Opposite(c), pair.out) \o Events(c, done.out)]
         [] Kind(c) = "stick" -> axis(DrawStick(value, r, hold, released))
         [] Kind(c) = "slider" -> axis(EmitAxisSlider(value, r, hold, released))
         [] Kind(c) = "motion" ->
              axis(DrawMotion(value, r, hold, released,
                              family # "Wii" \/ (c = "accel.x" /\ shown.mp)))
         [] Kind(c) = "extra" -> axis(DrawExtraAxis(value, r))
         [] OTHER -> acc

DrawPad(acc, p, g, heard, shown) ==
    LET points == [i \in DOMAIN acc.ui.pads[p].contacts |->
                     shown.state[TouchPoints(p)[i]]]
        widget == IF g.c = p THEN g ELSE Gesture("idle", p, 0)
        control(e) == IF e.kind = "click" THEN Actuation(p) ELSE TouchPoints(p)[e.contact]
        drawn(pad) ==
            [ui |-> [acc.ui EXCEPT !.pads[p] = [pad EXCEPT !.events = <<>>]],
             events |-> acc.events \o [k \in DOMAIN pad.events |->
                                         Event(control(pad.events[k]), pad.events[k].value)]]
    IN drawn(DrawTouchpad(acc.ui.pads[p], points, widget, Response(p, g, heard),
                          Response(Actuation(p), g, heard), Keys(p, g, heard)))

DrawEditor(u, g, heard, shown) ==
    LET known == ReconcileViews(u, [c \in Present(shown) |-> All[c]])
        cards == FoldLeft(LAMBDA acc, c : DrawControl(acc, c, g, heard, shown),
                          [ui |-> HoldHeader(known, g), events |-> <<>>],
                          SetToSeq(Drawn(shown) \ TouchControls))
    IN FoldLeft(LAMBDA acc, p : DrawPad(acc, p, g, heard, shown), cards, SetToSeq(MyPads))

-----------------------------------------------------------------------------
(* The editors: from events to edits. An accumulator holds the view, the    *)
(* edits and whether the batch overflowed.                                  *)

Queue(acc, edit) ==
    IF Len(acc.edits) = EditLimit THEN [acc EXCEPT !.overflow = TRUE]
    ELSE [acc EXCEPT !.edits = Append(@, edit)]

Set(c, v) == [op |-> "set", c |-> c, v |-> v]
Whole(op, s) == [op |-> op, s |-> s]
Attach(e, mp) == [op |-> "attach", e |-> e, mp |-> mp]

\* Xbox 360, DualSense and DualShock 4: one edit an event, except that both triggers
\* travel in one edit at the end, on top of what the view shows.
ApplyEvents(acc, events) ==
    LET axes == SelectSeq(events, LAMBDA e : e.c \in Sliders)
        rest == SelectSeq(events, LAMBDA e : e.c \notin Sliders)
        base == [c \in Sliders |-> acc.view.state[c]]
        triggers == FoldLeft(LAMBDA s, e : [s EXCEPT ![e.c] = e.v], base, axes)
        done == FoldLeft(LAMBDA a, e : Queue(a, Set(e.c, e.v)), acc, rest)
    IN IF axes = <<>> THEN done ELSE Queue(done, Whole("triggers", triggers))

\* The events each family's editor knows; it skips every other.
XboxEvents(acc, events) == ApplyEvents(acc, SelectSeq(events, LAMBDA e : e.c \in DOMAIN XboxTopology))
DualSenseEvents(acc, events) == ApplyEvents(acc, SelectSeq(events, LAMBDA e : e.c \in DOMAIN DualSenseTopology))
DualShock4Events(acc, events) == ApplyEvents(acc, SelectSeq(events, LAMBDA e : e.c \in DOMAIN DualShock4Topology))

\* The Switch Pro editor has no analogue triggers to gather.
SwitchProEvents(acc, events) ==
    FoldLeft(LAMBDA a, e : Queue(a, Set(e.c, e.v)), acc,
             SelectSeq(events, LAMBDA e : e.c \in DOMAIN SwitchProTopology))

\* apply_wii_event: the event on a state of the current attachment. The gyroscope
\* is written while MotionPlus is attached, the accessory's inputs while it is there.
ApplyWiiMotion(v, c, value) ==
    CASE c = "accel.x" -> [v EXCEPT !.state[c] = <<IF v.mp THEN value[1] ELSE @[1], value[2]>>]
      [] c = "nunchuk.accel.x" /\ v.ext = "Nunchuk" -> [v EXCEPT !.state[c] = <<@[1], value[2]>>]
      [] OTHER -> v

ApplyWiiButton(v, c, value) ==
    IF \/ c \in WiiRemoteButtons
       \/ v.ext = "Nunchuk" /\ c \in NunchukButtons
       \/ v.ext = "Classic" /\ c \in ClassicButtons
    THEN [v EXCEPT !.state[c] = value] ELSE v

ApplyWiiEvent(v, c, value) ==
    CASE Kind(c) = "motion" -> ApplyWiiMotion(v, c, value)
      [] Kind(c) = "button" -> ApplyWiiButton(v, c, value)
      [] OTHER -> IF c \in WiiSticks(v.ext) \cup WiiAxes(v.ext)
                  THEN [v EXCEPT !.state[c] = value] ELSE v

\* edit_wii applies the event to the view and again, in the worker, to the retained
\* state; an IR contact travels as the whole set of points.
EditWii(acc, e) ==
    IF e.c \in TouchControls
    THEN LET points == [[c \in TouchControls |-> acc.view.state[c]] EXCEPT ![e.c] = e.v]
         IN IF Len(acc.edits) = EditLimit THEN acc
            ELSE [Queue(acc, Whole("ir", points)) EXCEPT !.view.state[e.c] = e.v]
    ELSE IF e.c \notin Present(acc.view) THEN acc
    ELSE [Queue(acc, Set(e.c, e.v)) EXCEPT !.view = ApplyWiiEvent(@, e.c, e.v)]

\* set_attachment: the accessory and the gyroscope start neutral.
SetAttachment(v, e, mp) ==
    [ext |-> e, mp |-> mp,
     state |-> [c \in subject |->
        IF c \notin DOMAIN WiiBase THEN NeutralValue(Kind(c))
        ELSE IF c = "accel.x" THEN <<0, v.state[c][2]>> ELSE v.state[c]]]

\* attach_wii; record_wii_result only reports.
AttachWii(acc, e, mp) ==
    IF Len(acc.edits) = EditLimit THEN acc
    ELSE [Queue(acc, Attach(e, mp)) EXCEPT !.view = SetAttachment(@, e, mp)]

\* draw_wii: the attachment card.
DrawWii(acc, g) ==
    CASE g.kind = "attach" -> AttachWii(acc, g.c, acc.view.mp)
      [] g.kind = "motion plus" -> AttachWii(acc, acc.view.ext, ~acc.view.mp)
      [] OTHER -> acc

\* apply_steam_event: buttons first, then the pads, axes and sensors; an event it
\* does not know spoils the batch.
SteamButtons == {c \in DOMAIN SteamTopology : SteamTopology[c].kind \in {"button", "dpad", "trigger"}}

ApplySteamAxes(s, e) ==
    IF e.c \in DOMAIN SteamTopology \ SteamButtons THEN [s EXCEPT !.state[e.c] = e.v]
    ELSE [s EXCEPT !.known = FALSE]

ApplySteamEvent(s, e) ==
    IF e.c \in SteamButtons THEN [s EXCEPT !.state[e.c] = e.v] ELSE ApplySteamAxes(s, e)

\* edit_steam and queue_steam_state: one edit with the whole state, if it differs.
EditSteam(acc, events) ==
    LET done == FoldLeft(ApplySteamEvent, [state |-> acc.view.state, known |-> TRUE], events)
        next == done.state
    IN IF next = acc.view.state \/ ~done.known THEN acc
       ELSE IF Len(acc.edits) = EditLimit THEN [acc EXCEPT !.overflow = TRUE]
       ELSE [Queue(acc, Whole("inputs", next)) EXCEPT !.view.state = next]

\* draw_steam: the pad touch box beside the cards.
DrawSteam(acc, g) ==
    IF g.kind # "side" THEN acc
    ELSE EditSteam(acc, <<Event(g.c, IF acc.view.state[g.c] = <<>> THEN <<0>> ELSE <<>>)>>)

Before(acc, g) ==
    CASE g.kind = "release all" -> Queue(acc, [op |-> "neutralize"])
      [] g.kind \in {"attach", "motion plus"} -> DrawWii(acc, g)
      [] OTHER -> DrawSteam(acc, g)

Edited(acc, events) ==
    CASE family = "Wii" -> FoldLeft(EditWii, acc, events)
      [] family = "Steam" -> EditSteam(acc, events)
      [] family = "Xbox" -> XboxEvents(acc, events)
      [] family = "DualSense" -> DualSenseEvents(acc, events)
      [] family = "DualShock4" -> DualShock4Events(acc, events)
      [] family = "SwitchPro" -> SwitchProEvents(acc, events)

\* What the edits of a frame ask for.
AskedFor(g, events) ==
    LET base == CASE g.kind = "release all" -> NeutralState
                  [] g.kind \in {"attach", "motion plus"} ->
                       SetAttachment([state |-> asked, ext |-> "None", mp |-> FALSE], "None", FALSE).state
                  [] g.kind = "side" -> [asked EXCEPT ![g.c] = IF @ = <<>> THEN <<0>> ELSE <<>>]
                  [] OTHER -> asked
    IN FoldLeft(LAMBDA s, e : [s EXCEPT ![e.c] = e.v], base, events)

-----------------------------------------------------------------------------
(* One frame. A snapshot that answers the last batch replaces the view, and  *)
(* with it every edit queued since; a panel that is not ready draws its     *)
(* cards disabled and submits nothing.                                      *)
Frame(g, heard) ==
    LET ready == phase # "sent"
        released == IF g.kind = "release all" THEN ReleaseAll(ui) ELSE ui
        shown(drawn) == ui' = drawn.ui /\ asked' = AskedFor(g, drawn.events)
        submitted(done) ==
            /\ view' = done.view
            /\ open' = ~(ready /\ done.overflow)
            /\ IF ready /\ done.edits # <<>> /\ ~done.overflow
               THEN phase' = "sent" /\ batch' = done.edits
               ELSE phase' = (IF ready THEN "ready" ELSE phase) /\ batch' = batch
        edited(before, drawn) == shown(drawn) /\ submitted(Edited(before, drawn.events))
        drawn(before) == edited(before, DrawEditor(released, g, heard, before.view))
    IN /\ open
       /\ Prompt => ready
       /\ g \in Gestures /\ heard \in (IF ready THEN {TRUE} ELSE BOOLEAN)
       /\ drawn(Before([view |-> Current, edits |-> <<>>, overflow |-> FALSE], g))
       /\ pointer' = NextPointer(g)
       /\ typing' = (IF g.kind = "type" THEN g.c ELSE "none")
       /\ space' = (g.kind \in {"space", "space held"})
       /\ UNCHANGED <<family, subject, dev, refused>>

\* set_inputs of the demo's Steam Controller refuses a negative trigger.
SetInputs(acc, s) ==
    IF \E c \in Sliders : s[c][1] < 0 THEN [acc EXCEPT !.ok = FALSE]
    ELSE [acc EXCEPT !.dev.state = s @@ @]

\* The worker applies one edit; an error ends the service loop.
ApplyEdit(acc, edit, refuse) ==
    LET over(s) == [acc.dev EXCEPT !.state = s @@ @]
    IN CASE edit.op = "set" -> [acc EXCEPT !.dev = IF family = "Wii" THEN ApplyWiiEvent(@, edit.c, edit.v)
                                                   ELSE [@ EXCEPT !.state[edit.c] = edit.v]]
         [] edit.op \in {"triggers", "ir"} -> [acc EXCEPT !.dev = over(edit.s)]
         [] edit.op = "inputs" -> SetInputs(acc, edit.s)
         [] edit.op = "neutralize" -> [acc EXCEPT !.dev.state = NeutralState]
         [] OTHER -> IF refuse THEN acc ELSE [acc EXCEPT !.dev = SetAttachment(@, edit.e, edit.mp)]

Worker(refuse) ==
    LET attaches == \E k \in DOMAIN batch : batch[k].op = "attach"
        done == FoldLeft(LAMBDA acc, e : IF acc.ok THEN ApplyEdit(acc, e, refuse) ELSE acc,
                         [dev |-> dev, ok |-> TRUE], batch)
    IN /\ open /\ phase = "sent"
       /\ refuse \in (IF attaches THEN BOOLEAN ELSE {FALSE})
       /\ dev' = done.dev /\ open' = done.ok
       /\ phase' = "applied" /\ batch' = <<>>
       /\ refused' = (refused \/ refuse)
       /\ asked' = IF refuse THEN done.dev.state ELSE asked
       /\ UNCHANGED <<family, subject, ui, view, pointer, typing, space>>

Next ==
    \/ \E g \in Gestures, heard \in BOOLEAN : Frame(g, heard)
    \/ \E refuse \in BOOLEAN : Worker(refuse)

Spec == Init /\ [][Next]_vars

-----------------------------------------------------------------------------
Settled == open /\ phase # "sent"

Explained(c) ==
    CASE Kind(c) \in {"button", "dpad", "trigger"} -> c \in Shown(ui)
      [] Kind(c) = "click" -> ui.pads[Category(c)].press # "up"
      [] Kind(c) = "touch" ->
           LET pad == ui.pads[Category(c)]
               i == CHOOSE j \in DOMAIN TouchPoints(Category(c)) : TouchPoints(Category(c))[j] = c
           IN pad.contacts[i].active
      [] Kind(c) = "extra" -> TRUE
      [] OTHER -> Category(c) \in ui.holds \/ pointer = c \/ typing = c

\* Once the worker has applied what was drawn, every input of the controller that is
\* not at rest is one the panel shows as pressed, held or touched: nothing stays
\* down that the user has let go. An attachment the device refused is excepted: the
\* panel has by then forgotten the accessory's latches.
NothingStuck ==
    Settled /\ ~refused => \A c \in subject : dev.state[c] \in {NeutralValue(Kind(c)), Rest(family, c)} \/ Explained(c)

\* Every event the cards emitted reaches the controller, whichever way the family's
\* editor carries it: one edit an event, both triggers at once, or a whole state.
EditsLand == Settled => dev.state = asked
=============================================================================
