--------------------------- MODULE GamepadSession ---------------------------
(***************************************************************************)
(* One open gamepad of any family on any target, from the setters of the   *)
(* application to what the host reads, and from the host's reports to what *)
(* the application is told. `uhid` runs the HID protocol in the            *)
(* application, `usbip` in a worker that receives the whole state at every *)
(* commit; `uinput` and `dummy_hcd` encode a frame at every commit.        *)
(***************************************************************************)
EXTENDS PadCommon

CONSTANTS
  Families,     \* families to open
  MaxPending,   \* SwitchUsbProtocol: replies held before Busy
  InputQueue,   \* Limits::input_queue
  EventCost, EditCost,  \* what a host event and a setter call spend of MaxCalls
  MaxCalls      \* bound of both together

DS == INSTANCE DualSense
D4 == INSTANCE DualShock4
SW == INSTANCE SwitchPro
XB == INSTANCE Xbox360

VARIABLES
  fam, target,
  state,     \* the state the application edits
  edited,    \* uinput, dummy_hcd, usbip: edited and not yet committed
  hstate,    \* uhid, usbip: the state the protocol encodes
  dirty,     \* uhid, usbip: Runtime.dirty
  queue,     \* uhid, usbip: Runtime.pending
  proto,     \* uhid, usbip: the protocol
  inbox,     \* dummy_hcd: host reports not yet serviced
  frame,     \* the last input frame at the host, or << >>
  owed,      \* replies the host is entitled to and has not received
  latest,    \* uhid: the input every Switch reply repeats, that of the last report made
  asked,     \* what the host last asked of each output group
  changes,   \* how often that differed from before
  calls,     \* spent of MaxCalls
  closed

vars == <<fam, target, state, edited, hstate, dirty, queue, proto, inbox, frame, owed,
          latest, asked, changes, calls, closed>>

Of(ds, d4, sw, xb) ==
  CASE fam = "dualsense" -> ds [] fam = "dualshock4" -> d4 [] fam = "switch" -> sw [] fam = "xbox" -> xb

Neutral == Of(DS!Neutral, D4!Neutral, SW!Neutral, XB!Neutral)
Manifest == Of(DS!Manifest, D4!Manifest, SW!Manifest, XB!Manifest)
Groups == Of(DS!OutputGroups, D4!OutputGroups, SW!OutputGroups, XB!OutputGroups)
NewProtocol == Of(DS!NewProtocol, D4!NewProtocol, SW!NewProtocol, XB!NewProtocol)
Report(s) == Of(DS!Report(s), D4!Report(s), SW!Report(s), XB!Report(s))
Evdev(s) == Of(DS!Evdev(s), D4!Evdev(s), SW!Evdev(s), XB!Evdev(s))
SetterResults(s) == Of(DS!Edits(target, s), D4!Edits(target, s), SW!Edits(target, s), XB!Edits(target, s))
Input(p, s) == Of(DS!Input(p, s), D4!Input(p, s), SW!Input(p, s), XB!Input(p, s))
Deadline(p) == Of(DS!Deadline(p), D4!Deadline(p), SW!Deadline(p), XB!Deadline(p))
Request(p, q) == Of(DS!Request(p, q), D4!Request(p, q), SW!Request(p, q), XB!Request(p, q))
Output(p, r) == Of(DS!Output(p, r), D4!Output(p, r), SW!Output(p, r), XB!Output(p, r))
Lifecycle(p, e) == Of(DS!Lifecycle(p, e), D4!Lifecycle(p, e), SW!Lifecycle(p, e), XB!Lifecycle(p, e))
OutputFails(p, r) == fam = "switch" /\ SW!OutputFails(p, r)
HostReports == Of(DS!HostReports, D4!HostReports, SW!HostReports, XB!HostReports)
StrayReports == Of(DS!StrayReports, D4!StrayReports, SW!StrayReports, XB!StrayReports)
Features == Of(DOMAIN DS!Features, DOMAIN D4!Features, {}, {})
Surface == Of(DS!Surface(target), D4!Surface(target), SW!Surface(target), XB!Surface(target))
Shown(s) == Of(DS!Shown(s), D4!Shown(s), SW!Shown(s), XB!Shown(s))
HostView(f) == Of(DS!HostView(f), D4!HostView(f), SW!HostView(f), XB!HostView(f))
Numbered == Of(DS!HidRealization, D4!HidRealization, SW!HidRealization, XB!HidRealization)
Declared == Of(DS!EvdevRealization, D4!EvdevRealization, SW!EvdevRealization, XB!EvdevRealization)
CommitsOnCreate == Of(DS!CommitsOnCreate, D4!CommitsOnCreate, SW!CommitsOnCreate, XB!CommitsOnCreate)

\* What the worker holds after a commit.
Sent(s) == Of(DS!WorkerDecode(DS!WorkerEncode(s)), D4!WorkerDecode(D4!WorkerEncode(s)), s,
              XB!WorkerDecode(XB!WorkerEncode(s)))

Hosted == target \in {"uhid", "usbip"}

\* A frame is an input report, everything else the protocol sends is a reply.
IsReply(f) == fam = "switch" /\ f.id # 48

\* The input a Switch shows with report f, or before its first report.
Repeats(f) ==
  IF fam # "switch" THEN None ELSE IF f = << >> THEN SW!InputPrefix(SW!Neutral) ELSE Last(f).prefix

\* What a reply answers, whatever input it repeats.
Answers(replies) ==
  [i \in 1..Len(replies) |-> <<replies[i].id, IF replies[i].id = 129 THEN replies[i].command ELSE replies[i].sub>>]

\* prepare_realization: the manifest's entry for the exact target, never another.
Prepared == target \in DOMAIN Manifest

\* validate_provider: every provider has the reverse channel an entry may require.
ReverseOutput == {"uinput", "uhid", "dummy_hcd"}
Promised == Manifest[target] => target \in ReverseOutput

\* NativeControllerRealization::validate: of the tables, an axis range may be empty.
WellFormed == target = "uinput" => \A a \in Declared.abs : Surface.axes[a][1] <= Surface.axes[a][2]

\* create_with_identity and the provider's validate_against; a worker has its own.
Opens == Prepared /\ (target # "usbip" => Promised /\ WellFormed)

\* create_*: a family that commits at once fails to open unless the frame is taken.
Init ==
  /\ fam \in Families
  /\ target \in Targets
  /\ Opens
  /\ state = Neutral /\ hstate = Neutral
  /\ edited = (target \notin CommitsOnCreate)
  /\ dirty = (target \notin CommitsOnCreate)
  /\ queue = << >> /\ inbox = << >>
  /\ proto = IF target = "uhid" /\ target \in CommitsOnCreate
             THEN Input(NewProtocol, Neutral).proto ELSE NewProtocol
  /\ frame = CASE target \notin CommitsOnCreate -> << >>
               [] target = "uinput" -> <<Evdev(Neutral)>>
               [] target = "uhid" -> Input(NewProtocol, Neutral).frames
               [] OTHER -> <<Report(Neutral)>>
  /\ owed = << >> /\ latest = Repeats(IF Hosted THEN frame ELSE << >>)
  /\ asked = [g \in Groups |-> 0] /\ changes = 0
  /\ calls = 0 /\ closed = FALSE

----------------------------------------------------------------------------
(* The application.                                                        *)

\* A setter, set_digital or neutralize; uhid edits the state the protocol reads.
Edit ==
  /\ ~closed /\ calls + EditCost <= MaxCalls
  /\ \E s \in SetterResults(state) :
       /\ state' = s
       /\ hstate' = IF target = "uhid" THEN s ELSE hstate
  /\ calls' = calls + EditCost
  /\ edited' = TRUE
  /\ dirty' = (dirty \/ target = "uhid")
  /\ UNCHANGED <<fam, target, queue, proto, inbox, frame, owed, latest, asked, changes, closed>>

\* commit on uinput and dummy_hcd; refused is a full provider, to be retried.
CommitFrame(taken) ==
  /\ ~closed /\ edited /\ target \in {"uinput", "dummy_hcd"}
  /\ edited' = ~taken
  /\ frame' = IF taken THEN <<IF target = "uinput" THEN Evdev(state) ELSE Report(state)>> ELSE frame
  /\ UNCHANGED <<fam, target, state, hstate, dirty, queue, proto, inbox, owed, latest, asked, changes,
                 calls, closed>>

\* commit over USB/IP: the worker replaces its state and its runtime is dirty.
CommitState ==
  /\ ~closed /\ edited /\ target = "usbip"
  /\ edited' = FALSE
  /\ hstate' = Sent(state)
  /\ dirty' = TRUE
  /\ UNCHANGED <<fam, target, state, queue, proto, inbox, frame, owed, latest, asked, changes, calls, closed>>

\* refresh_motion on a streaming Switch gadget: a new report under the next counter.
RefreshMotion ==
  /\ ~closed /\ fam = "switch" /\ target = "dummy_hcd" /\ calls + EditCost <= MaxCalls
  /\ state.stream
  /\ calls' = calls + EditCost
  /\ state' = [state EXCEPT !.seq = Wrap(@ + 1)]
  /\ edited' = FALSE
  /\ frame' = <<Report(state')>>
  /\ UNCHANGED <<fam, target, hstate, dirty, queue, proto, inbox, owed, latest, asked, changes, closed>>

\* The device goes, and with it what its host saw, sent and was owed.
Close ==
  /\ ~closed
  /\ closed' = TRUE
  /\ queue' = << >> /\ inbox' = << >> /\ frame' = << >> /\ owed' = << >>
  /\ UNCHANGED <<fam, target, state, edited, hstate, dirty, proto, latest, asked, changes, calls>>

----------------------------------------------------------------------------
(* Runtime::service: at most one host event, then the queue, then new      *)
(* input. A transport that takes nothing leaves the queue as it is.        *)

\* What the host is entitled to after event e; a Stop forfeits it.
Entitled(e) ==
  CASE e.op = "stop" -> << >>
    [] fam = "switch" /\ e.op \in {"output", "set"} /\ SW!Verdict(proto, e) = "ok"
                      /\ SW!DirectReply(proto.state, [e EXCEPT !.op = "output"]) # << >> ->
         LET reply == SW!DirectReply(proto.state, [e EXCEPT !.op = "output"])[1] IN
         Append(owed, IF reply.id = 33 THEN [reply EXCEPT !.prefix = latest] ELSE reply)
    [] OTHER -> owed

\* What a host that means this device asks for with event e.
Wish(e) ==
  IF e.op \in {"output", "set"} /\ (fam = "switch" => SW!Verdict(proto, e) # "busy")
  THEN [g \in Groups |-> IF g \in e.groups THEN e.v ELSE asked[g]] ELSE asked

\* The replies still owed once those delivered are taken off; a reply the host
\* is not owed next stays in front and is never forgotten.
Deliver(due, delivered) ==
  IF IsPrefix(delivered, due) THEN SubSeq(due, Len(delivered) + 1, Len(due))
  ELSE <<"stray reply">> \o due

Replies(fs) == SelectSeq(fs, IsReply)
Inputs(fs) == SelectSeq(fs, LAMBDA f : ~IsReply(f))

\* The state of protocol and runtime after event e and before input is served.
After(e) ==
  CASE e.op \in {"start", "stop"} ->
         [proto |-> Lifecycle(proto, e), queue |-> IF e.op = "stop" THEN << >> ELSE queue,
          dirty |-> dirty \/ e.op = "stop"]
    [] e.op = "output" -> [proto |-> Output(proto, e), queue |-> queue, dirty |-> dirty]
    [] e.op \in {"set", "get"} ->
         [proto |-> Request(proto, e).proto, queue |-> queue, dirty |-> dirty]
    [] OTHER -> [proto |-> proto, queue |-> queue, dirty |-> dirty]

\* taken: whether the transport takes the frames of this call.
Serve(e, taken) ==
  LET a == After(e)
      left == IF taken THEN << >> ELSE a.queue
      due == left = << >> /\ (a.dirty \/ Deadline(a.proto) = "now")
      gen == Input(a.proto, hstate)
      new == IF due THEN gen.frames ELSE << >>
      sent == IF taken THEN a.queue \o new ELSE << >>
      fail == \/ e.op = "output" /\ OutputFails(proto, e)
              \/ due /\ ~a.proto.valid
              \/ Len(new) > InputQueue
  IN IF fail
     THEN /\ closed' = TRUE
          /\ queue' = << >>
          /\ UNCHANGED <<dirty, proto, frame, owed, latest, asked, changes>>
     ELSE /\ queue' = IF taken THEN << >> ELSE left \o new
          /\ dirty' = (a.dirty /\ ~due)
          /\ proto' = IF due THEN gen.proto ELSE a.proto
          /\ frame' = IF Inputs(sent) = << >> THEN frame ELSE <<Last(Inputs(sent))>>
          /\ owed' = Deliver(Entitled(e), Replies(sent))
          /\ latest' = IF Inputs(new) = << >> THEN latest ELSE Repeats(Inputs(new))
          /\ asked' = Wish(e)
          /\ changes' = changes + Flag(Wish(e) # asked)
          /\ UNCHANGED closed

Sends(op, reports) == {[op |-> op] @@ r : r \in reports}

\* Events the device answers or ignores without a change; they cost no call.
Harmless ==
  Sends("output", {r \in StrayReports : r.kind = "output"}) \cup Sends("set", StrayReports)
    \cup {[op |-> "get", kind |-> "feature", id |-> i] : i \in Features \cup {200}}
    \cup {[op |-> "get", kind |-> "input", id |-> 1], [op |-> "open"]}

Demanding ==
  Sends("output", HostReports) \cup Sends("set", HostReports)
    \cup {[op |-> "stop"], [op |-> "start", numbered |-> Numbered],
          [op |-> "start", numbered |-> <<FALSE, TRUE, TRUE>>]}

Service(events, cost, taken) ==
  /\ ~closed /\ Hosted /\ calls + EventCost <= MaxCalls
  /\ \E e \in events : Serve(e, taken)
  /\ calls' = calls + cost
  /\ UNCHANGED <<fam, target, state, edited, hstate, inbox>>

\* A call that finds no host event: commit on uhid, readiness or the deadline.
Idle(taken) ==
  /\ ~closed /\ Hosted
  /\ Serve([op |-> "none"], taken)
  /\ UNCHANGED <<fam, target, state, edited, hstate, inbox, calls>>

\* The period of the last report passes.
Tick ==
  /\ ~closed /\ Hosted /\ proto.next = "later"
  /\ proto' = [proto EXCEPT !.next = "now"]
  /\ UNCHANGED <<fam, target, state, edited, hstate, dirty, queue, inbox, frame, owed, latest, asked,
                 changes, calls, closed>>

----------------------------------------------------------------------------
(* dummy_hcd: the host writes to the gadget; the application services it.  *)
HostWrite(r) ==
  /\ ~closed /\ target = "dummy_hcd" /\ calls + EventCost <= MaxCalls
  /\ r \in HostReports
  /\ calls' = calls + EventCost
  /\ inbox' = Append(inbox, [op |-> "output"] @@ r)
  /\ owed' = IF fam = "switch" THEN owed \o Answers(SW!DirectReply(state, [op |-> "output"] @@ r)) ELSE owed
  /\ UNCHANGED <<fam, target, state, edited, hstate, dirty, queue, proto, frame, latest, asked, changes,
                 closed>>

\* SwitchProController::service: answer the whole batch, then open the stream.
SwitchService(refused) ==
  LET replies == FlattenSeq([i \in 1..Len(inbox) |-> SW!DirectReply(state, inbox[i])]) IN
  /\ ~closed /\ fam = "switch" /\ inbox # << >>
  /\ refused \in 0..Len(replies)
  /\ inbox' = << >>
  /\ LET sent == Answers(IF refused = 0 THEN replies ELSE SubSeq(replies, 1, refused - 1)) IN
     \* A refused reply ends the call: the rest of the batch is gone.
     /\ owed' = IF refused # 0 /\ IsPrefix(sent, owed) THEN << >> ELSE Deliver(owed, sent)
     /\ state' = IF refused = 0 /\ \E i \in 1..Len(inbox) : SW!EnablesStream(inbox[i])
                 THEN [state EXCEPT !.stream = TRUE] ELSE state
     /\ edited' = (edited \/ state' # state)
  /\ UNCHANGED <<fam, target, hstate, dirty, queue, proto, frame, latest, asked, changes, calls, closed>>

\* The Sony and Xbox pads only pass the reports on.
PassOn ==
  /\ ~closed /\ fam # "switch" /\ inbox # << >>
  /\ inbox' = << >>
  /\ UNCHANGED <<fam, target, state, edited, hstate, dirty, queue, proto, frame, owed, latest, asked,
                 changes, calls, closed>>

Next ==
  \/ Edit
  \/ \E taken \in BOOLEAN : CommitFrame(taken)
  \/ CommitState
  \/ RefreshMotion
  \/ \E taken \in BOOLEAN : Service(Harmless, 0, taken) \/ Service(Demanding, EventCost, taken)
  \/ \E taken \in BOOLEAN : Idle(taken)
  \/ Tick
  \/ \E r \in HostReports : HostWrite(r)
  \/ \E refused \in 0..MaxCalls : SwitchService(refused)
  \/ PassOn
  \/ Close

Spec == Init /\ [][Next]_vars

----------------------------------------------------------------------------
(* What the host reads.                                                    *)

Settled ==
  /\ ~closed /\ frame # << >>
  /\ ~edited \/ target = "uhid"
  /\ Hosted => queue = << >> /\ ~dirty /\ proto.active

\* Once every edit is committed and delivered, the host's own driver reads
\* exactly the state the application set: buttons, D-pad, sticks, triggers,
\* touch contacts, motion axes, battery (encode of each family, the worker's
\* state codec, Protocol::input). One value does not arrive as it was set: the least
\* one of a motion component that is sent negated, with wrapping (Shown).
HostReadsState ==
  Settled /\ target # "uinput" => HostView(frame[1]) = Shown(state)

\* The uinput devices show the state through the tables the surface
\* advertises: every control under its own event code, every value inside its
\* declared range, no code that was not declared, and the touch device's
\* single-touch position that of the first contact still down (split_frame).
EvdevTruthful ==
  Settled /\ target = "uinput" =>
    LET e == frame[1]
        parts == Split(e)
        declared == {Surface.digital[c] : c \in DOMAIN Surface.digital}
        down == SelectSeq(e.mt, LAMBDA c : c # NoContact)
    IN /\ \A c \in state.held \cap DOMAIN Surface.digital : e.key[Surface.digital[c]]
       /\ \A k \in {k \in declared : k \in DOMAIN e.key /\ e.key[k]} \ {312, 313, 325, 330} :
            \E c \in state.held : Surface.digital[c] = k
       /\ \A a \in DOMAIN e.abs : /\ a \in DOMAIN Surface.axes
                                  /\ e.abs[a] \in Surface.axes[a][1]..Surface.axes[a][2]
       /\ \A i \in 1..Len(e.mt) : ValidContact(e.mt[i])
       /\ parts.touch.legacy = IF down = << >> THEN << >> ELSE <<down[1].x, down[1].y>>
       /\ LET codes == SplitCodes(Declared.key, Declared.abs) IN
          /\ DOMAIN parts.gamepad.key \subseteq codes.gamepad.key
          /\ DOMAIN parts.gamepad.abs \subseteq codes.gamepad.abs
          /\ DOMAIN parts.touch.key \subseteq codes.touch.key

(* What the application is told and the host is answered.                  *)

\* The retained host outputs of a UHID session are what the host last asked
\* of each group, whichever reports carried it, strays and refusals left out,
\* and the revision counts the changes (OutputState::apply, replace).
RetainedAgree ==
  target = "uhid" /\ ~closed => proto.retained = asked /\ proto.rev = changes

\* Over UHID every reply the Switch host is owed is still on its way, in the
\* order of its requests, and none twice: delivered, queued or held by the
\* protocol; a subcommand reply repeats the input of the last report made before
\* it (SwitchUsbProtocol::process, input, lifecycle; Runtime::service). Over
\* dummy_hcd a batch is answered in order and once as far as the provider takes
\* the replies: the first it refuses ends the call, and the rest of the batch is
\* lost (SwitchProController::service).
RepliesInOrder ==
  fam = "switch" /\ ~closed =>
    /\ target = "uhid" => owed = Replies(queue) \o proto.pending /\ Len(proto.pending) <= MaxPending
    /\ target = "dummy_hcd" /\ inbox = << >> => owed = << >>

\* The host of an active UHID Switch that has asked for the report stream is
\* never left without one: a report is queued, owed or has a deadline.
StreamAlive ==
  fam = "switch" /\ target = "uhid" /\ proto.active /\ ~closed /\ proto.stream =>
    queue # << >> \/ dirty \/ proto.next # "none"
=============================================================================
